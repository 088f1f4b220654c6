----------------------------- MODULE GrantProofs -----------------------------
(***************************************************************************)
(* Grants and the incarnations they were given to.  validate compares the  *)
(* boot of a grant and not its incarnation, so that a grant follows its    *)
(* incarnation only while the boot cannot come back: for as long as the    *)
(* ring of fenced boots has dropped none.  This module has what each       *)
(* operation of the coordinator does to that relation.                     *)
(***************************************************************************)
EXTENDS AuthorityProofs

\* The incarnation of boot b with sequence n is current.
Holds(part, b, n) ==
  \E i \in DOMAIN part.live : part.live[i].boot = b /\ part.live[i].seq = n

\* The ring retains boot b.
InRing(part, b) == \E i \in DOMAIN part.ring : part.ring[i] = b

\* The incarnation of every grant of the epoch is current, or cannot come
\* back: its boot is in the ring, or its participant is retired.
Tied(s) ==
  \A i \in DOMAIN s.grants :
    LET g == s.grants[i]
        part == s.parts[g.participant]
    IN g.epoch = s.epoch /\ Complete(part) =>
         Holds(part, g.boot, g.inc) \/ InRing(part, g.boot) \/ part.status = "retired"

\* From s to t participant p is retired, or its ring drops something, or the
\* ring keeps every boot and receives those that stop being current.  It
\* receives no others.
PartTracks(s, t, p) ==
  LET old == s.parts[p]
      new == t.parts[p]
  IN /\ Complete(new) /\ new.status # "retired" =>
          /\ Complete(old)
          /\ \A b : InRing(old, b) => InRing(new, b)
          /\ \A b, n : t.epoch = s.epoch /\ Holds(old, b, n) =>
                         Holds(new, b, n) \/ InRing(new, b)
     /\ \A b : InRing(new, b) => InRing(old, b) \/ IsLive(old, b)

\* A grant of t is one of s or was just given to a current incarnation.
GrantsTrack(s, t) ==
  \A i \in DOMAIN t.grants :
    LET g == t.grants[i] IN
    \/ \E j \in DOMAIN s.grants : /\ s.grants[j].participant = g.participant
                                  /\ s.grants[j].epoch = g.epoch
                                  /\ s.grants[j].boot = g.boot
                                  /\ s.grants[j].inc = g.inc
    \/ Holds(t.parts[g.participant], g.boot, g.inc)

Tracks(s, t) ==
  /\ \A p \in Participants : PartTracks(s, t, p)
  /\ GrantsTrack(s, t)

\* Grants stay tied over a step that tracks them: those of an earlier epoch
\* never count again.
LEMMA TiedLasts ==
  ASSUME NEW s, NEW t, Sound(s), Sound(t), Follows(s, t), Tracks(s, t), Tied(s)
  PROVE  Tied(t)
<1>1. /\ s.epoch \in Nat /\ t.epoch \in Nat /\ t.epoch >= s.epoch
      /\ s.grants \in Seq(GrantRecords) /\ t.grants \in Seq(GrantRecords)
  BY StateFields DEF Sound, Follows
<1> SUFFICES ASSUME NEW i \in DOMAIN t.grants,
                    t.grants[i].epoch = t.epoch,
                    Complete(t.parts[t.grants[i].participant])
             PROVE  \/ Holds(t.parts[t.grants[i].participant], t.grants[i].boot, t.grants[i].inc)
                    \/ InRing(t.parts[t.grants[i].participant], t.grants[i].boot)
                    \/ t.parts[t.grants[i].participant].status = "retired"
  BY DEF Tied
<1> DEFINE g == t.grants[i]
           new == t.parts[g.participant]
           old == s.parts[g.participant]
<1>2. g \in GrantRecords
  BY <1>1
<1>3. g.participant \in Participants
  BY <1>2 DEF GrantRecords
<1>4. CASE \E j \in DOMAIN s.grants : /\ s.grants[j].participant = g.participant
                                      /\ s.grants[j].epoch = g.epoch
                                      /\ s.grants[j].boot = g.boot
                                      /\ s.grants[j].inc = g.inc
  <2>1. PICK j \in DOMAIN s.grants : /\ s.grants[j].participant = g.participant
                                     /\ s.grants[j].epoch = g.epoch
                                     /\ s.grants[j].boot = g.boot
                                     /\ s.grants[j].inc = g.inc
    BY <1>4
  <2>2. s.grants[j].epoch <= s.epoch
    BY DEF Sound, ValidGrants
  <2>3. t.epoch = s.epoch
    BY <1>1, <2>1, <2>2
  <2>4. PartTracks(s, t, g.participant)
    BY <1>3 DEF Tracks
  <2>5. CASE new.status # "retired"
    <3>1. /\ Complete(old)
          /\ \A b : InRing(old, b) => InRing(new, b)
          /\ \A b, n : Holds(old, b, n) => Holds(new, b, n) \/ InRing(new, b)
      BY <2>3, <2>4, <2>5 DEF PartTracks
    <3>2. PartFollows(s, t, g.participant)
      BY <1>3 DEF Follows
    <3>3. old.status # "retired"
      BY <2>5, <3>2 DEF PartFollows
    <3>4. Holds(old, g.boot, g.inc) \/ InRing(old, g.boot) \/ old.status = "retired"
      BY <2>1, <2>3, <3>1 DEF Tied
    <3> QED
      BY <3>1, <3>3, <3>4
  <2> QED
    BY <2>5
<1> QED
  BY <1>4 DEF Tracks, GrantsTrack

\* A step that leaves the rings, the incarnations and the grants alone.
LEMMA TracksAlike ==
  ASSUME NEW s, NEW u, NEW t, Tracks(s, u), t.epoch = u.epoch, t.grants = u.grants,
         \A p \in Participants : /\ t.parts[p].live = u.parts[p].live
                                 /\ t.parts[p].ring = u.parts[p].ring
                                 /\ t.parts[p].status = u.parts[p].status,
         Wf(u)
  PROVE  Tracks(s, t)
<1>1. ASSUME NEW p \in Participants
      PROVE  /\ \A b, n : Holds(t.parts[p], b, n) <=> Holds(u.parts[p], b, n)
             /\ \A b : InRing(t.parts[p], b) <=> InRing(u.parts[p], b)
             /\ Complete(t.parts[p]) <=> Complete(u.parts[p])
  BY DEF Holds, InRing, Complete
<1>2. ASSUME NEW p \in Participants PROVE PartTracks(s, t, p)
  <2>1. PartTracks(s, u, p)
    BY DEF Tracks
  <2> QED
    BY <1>1, <2>1 DEF PartTracks
<1>3. ASSUME NEW i \in DOMAIN u.grants PROVE u.grants[i].participant \in Participants
  <2>1. u.grants[i] \in GrantRecords
    BY StateFields
  <2> QED
    BY <2>1 DEF GrantRecords
<1>4. GrantsTrack(s, t)
  BY <1>1, <1>3 DEF Tracks, GrantsTrack
<1> QED
  BY <1>2, <1>4 DEF Tracks

\* Nothing changes.
LEMMA TracksItself ==
  ASSUME NEW s
  PROVE  Tracks(s, s)
  BY DEF Tracks, PartTracks, GrantsTrack

-----------------------------------------------------------------------------
(* What the operations do to the rings and the current incarnations. *)

\* A ring that is not full after an append has dropped nothing.
LEMMA RingGrows ==
  ASSUME NEW ring \in Seq(Boots), NEW b \in Boots,
         NEW new, new = Retain(Append(ring, b), MaxFencedBoots), Len(new) < MaxFencedBoots
  PROVE  /\ Len(ring) < MaxFencedBoots
         /\ \A i \in DOMAIN ring : \E j \in DOMAIN new : new[j] = ring[i]
         /\ \E j \in DOMAIN new : new[j] = b
<1> DEFINE app == Append(ring, b)
<1>1. /\ app \in Seq(Boots) /\ Len(ring) \in Nat /\ Len(app) = Len(ring) + 1
      /\ DOMAIN ring = 1..Len(ring) /\ DOMAIN app = 1..(Len(ring) + 1)
      /\ app[Len(ring) + 1] = b /\ \A i \in 1..Len(ring) : app[i] = ring[i]
  OBVIOUS
<1>2. MaxFencedBoots \in Nat
  BY LimitAssumption
<1> HIDE DEF app
<1>3. ~(Len(app) > MaxFencedBoots)
  <2> SUFFICES ASSUME Len(app) > MaxFencedBoots PROVE FALSE
    OBVIOUS
  <2>1. new = SubSeq(app, Len(app) - MaxFencedBoots + 1, Len(app))
    BY DEF Retain, app
  <2>2. Len(new) = MaxFencedBoots
    BY <1>1, <1>2, <2>1
  <2> QED
    BY <1>2, <2>2
<1>4. new = app
  BY <1>3 DEF Retain, app
<1>5. Len(ring) < MaxFencedBoots
  BY <1>1, <1>2, <1>3
<1>6. Len(ring) + 1 \in 1..(Len(ring) + 1) /\ 1..Len(ring) \subseteq 1..(Len(ring) + 1)
  BY <1>1
<1> QED
  BY <1>1, <1>4, <1>5, <1>6

\* Taking one entry out of a sequence keeps the others.
LEMMA WithoutKeeps ==
  ASSUME NEW S, NEW seq \in Seq(S), NEW i \in DOMAIN seq, NEW k \in DOMAIN seq, k # i
  PROVE  \E j \in DOMAIN Without(seq, i) : Without(seq, i)[j] = seq[k]
<1>1. Len(seq) \in Nat /\ DOMAIN seq = 1..Len(seq) /\ i \in 1..Len(seq) /\ k \in 1..Len(seq)
  OBVIOUS
<1> DEFINE j == IF k < i THEN k ELSE k - 1
<1>2. /\ j \in 1..(Len(seq) - 1)
      /\ j < i => j = k
      /\ ~(j < i) => j + 1 = k
  BY <1>1
<1>3. DOMAIN Without(seq, i) = 1..(Len(seq) - 1)
  BY DEF Without
<1> HIDE DEF j
<1>4. Without(seq, i)[j] = IF j < i THEN seq[j] ELSE seq[j + 1]
  BY <1>2 DEF Without
<1> QED
  BY <1>2, <1>3, <1>4

\* An operation on the record of one participant that leaves the grants.
LEMMA TracksOne ==
  ASSUME NEW s, NEW t, NEW p \in Participants, t.grants = s.grants,
         \A q \in Participants : q # p => t.parts[q] = s.parts[q],
         PartTracks(s, t, p)
  PROVE  Tracks(s, t)
<1>1. ASSUME NEW q \in Participants, q # p PROVE PartTracks(s, t, q)
  <2>1. t.parts[q] = s.parts[q]
    BY <1>1
  <2> QED
    BY <2>1 DEF PartTracks
<1>2. GrantsTrack(s, t)
  BY DEF GrantsTrack
<1> QED
  BY <1>1, <1>2 DEF Tracks

\* The boot of a fenced incarnation goes from the current ones to the ring.
LEMMA FenceIncarnationTracks ==
  ASSUME NEW s, Wf(s), NEW p \in Participants, NEW b \in Boots, IsLive(s.parts[p], b),
         NEW t, t = FenceIncarnation(s, p, b)
  PROVE  Tracks(s, t) /\ t.epoch = s.epoch /\ t.grants = s.grants
<1> DEFINE old == s.parts[p]
           new == t.parts[p]
           at == Position(old, b)
           fence == [boot |-> b, participant |-> p, gen |-> s.fenceFloor + 1,
                     epoch |-> s.epoch, inc |-> old.live[at].seq]
<1>1. /\ t.epoch = s.epoch /\ t.gen = s.gen + 1 /\ t.regFloor = s.regFloor
      /\ t.fenceFloor = s.fenceFloor + 1 /\ t.grants = s.grants
      /\ t.transitions = s.transitions /\ t.control = s.control
      /\ \A q \in Participants : q # p => t.parts[q] = s.parts[q]
      /\ new.status = old.status /\ new.regGen = old.regGen /\ new.next = old.next
      /\ new.policy = old.policy /\ new.idem = old.idem
      /\ new.fenceGen = s.fenceFloor + 1
      /\ new.floor = MaxOf(old.floor, old.live[at].seq)
      /\ new.live = Without(old.live, at)
      /\ new.ring = Retain(Append(old.ring, b), MaxFencedBoots)
      /\ t.fences = Retain(Append(s.fences, fence), MaxRecentFences)
  BY FenceIncarnationShape
<1>2. old \in ParticipantRecords /\ old.live \in Seq(Incarnations) /\ old.ring \in Seq(Boots)
  BY PartFields
<1>3. at \in DOMAIN old.live /\ old.live[at].boot = b
  BY <1>2, PositionType
<1> HIDE DEF old, new, at, fence
<1>4. ASSUME Complete(new)
      PROVE  /\ Complete(old)
             /\ \A c : InRing(old, c) => InRing(new, c)
             /\ InRing(new, b)
  <2> DEFINE ring == old.ring
             r == new.ring
  <2>1. ring \in Seq(Boots) /\ r = Retain(Append(ring, b), MaxFencedBoots) /\ Len(r) < MaxFencedBoots
    BY <1>1, <1>2, <1>4 DEF Complete
  <2> HIDE DEF ring, r
  <2>2. /\ Len(ring) < MaxFencedBoots
        /\ \A i \in DOMAIN ring : \E j \in DOMAIN r : r[j] = ring[i]
        /\ \E j \in DOMAIN r : r[j] = b
    BY <2>1, RingGrows
  <2> QED
    BY <2>2 DEF Complete, InRing, ring, r
<1>5. ASSUME NEW c, NEW n, Holds(old, c, n) PROVE Holds(new, c, n) \/ c = b
  <2>1. PICK k \in DOMAIN old.live : old.live[k].boot = c /\ old.live[k].seq = n
    BY <1>5 DEF Holds
  <2>2. CASE k = at
    BY <1>3, <2>1, <2>2
  <2>3. CASE k # at
    <3> DEFINE live == old.live
    <3>1. live \in Seq(Incarnations) /\ at \in DOMAIN live /\ k \in DOMAIN live
      BY <1>2, <1>3
    <3> HIDE DEF live
    <3>2. \E j \in DOMAIN Without(live, at) : Without(live, at)[j] = live[k]
      BY <2>3, <3>1, WithoutKeeps
    <3> QED
      BY <1>1, <2>1, <3>2 DEF Holds, live
  <2> QED
    BY <2>2, <2>3
<1>6. \A c : InRing(new, c) => InRing(old, c) \/ c = b
  <2> DEFINE ring == old.ring
             r == new.ring
             off == Dropped(Append(ring, b), MaxFencedBoots)
  <2>1. ring \in Seq(Boots) /\ r = Retain(Append(ring, b), MaxFencedBoots)
    BY <1>1, <1>2
  <2> HIDE DEF ring, r
  <2>2. /\ DOMAIN r \subseteq Nat /\ off \in Nat
        /\ \A j \in DOMAIN r :
             \/ j + off \in DOMAIN ring /\ r[j] = ring[j + off]
             \/ j + off = Len(ring) + 1 /\ r[j] = b
    BY <2>1, RetainedAppend, LimitAssumption
  <2> HIDE DEF off
  <2> QED
    BY <2>2 DEF InRing, ring, r
<1>7. PartTracks(s, t, p)
  BY <1>4, <1>5, <1>6 DEF PartTracks, old, new
<1> QED
  BY <1>1, <1>7, TracksOne

\* record_fence keeps track of the boot it fences.
LEMMA RecordFenceTracks ==
  ASSUME NEW s, Wf(s), NEW p \in Participants, NEW b \in Boots,
         NEW t, t = RecordFence(s, p, b)
  PROVE  Tracks(s, t) /\ t.epoch = s.epoch /\ t.grants = s.grants
<1>1. CASE IsLive(s.parts[p], b)
  BY <1>1, FenceIncarnationTracks DEF RecordFence
<1>2. CASE ~IsLive(s.parts[p], b)
  <2> DEFINE old == s.parts[p]
             new == [old EXCEPT !.fenceGen = s.fenceFloor + 1]
             fences == Append(s.fences, [boot |-> b, participant |-> p, gen |-> s.fenceFloor + 1,
                                         epoch |-> s.epoch, inc |-> 0])
  <2>1. t = [s EXCEPT !.gen = s.gen + 1, !.fenceFloor = s.fenceFloor + 1,
                      !.parts = [s.parts EXCEPT ![p] = new], !.fences = fences]
    BY <1>2 DEF RecordFence, FencePreventively
  <2>2. new.live = old.live /\ new.ring = old.ring /\ new.status = old.status
    BY PartFields DEF ParticipantRecords
  <2> HIDE DEF new, fences
  <2>3. t.epoch = s.epoch /\ t.grants = s.grants /\ t.parts = [s.parts EXCEPT ![p] = new]
    BY <2>1 DEF Wf, States
  <2>4. t.parts[p] = new /\ \A q \in Participants : q # p => t.parts[q] = s.parts[q]
    BY <2>3, StateFields
  <2>5. \A q \in Participants : /\ t.parts[q].live = s.parts[q].live
                                /\ t.parts[q].ring = s.parts[q].ring
                                /\ t.parts[q].status = s.parts[q].status
    BY <2>2, <2>4
  <2>6. Tracks(s, s)
    BY TracksItself
  <2> QED
    BY <2>3, <2>5, <2>6, TracksAlike
<1> QED
  BY <1>1, <1>2

\* fence_worker adds no more than the record of its attempt.
LEMMA FenceTracks ==
  ASSUME NEW s, Sound(s), NEW r \in FenceRequests, FenceOutcome(s, r) = "Fenced",
         NEW t, t = FenceTo(s, r)
  PROVE  Tracks(s, t)
<1> DEFINE p == r.participant
           b == r.boot
           u == RecordFence(s, p, b)
           old == u.parts[p]
           idem == Remember(s.parts[p].idem, r.attempt, FenceDigest(r),
                            FindIncarnation(s.parts[p], b))
           new == [old EXCEPT !.idem = idem]
<1>1. p \in Participants /\ b \in Boots /\ Wf(s)
  BY RuntimeAssumption DEF FenceRequests, Sound
<1>2. RecordFenceOutcome(s, p, b, TRUE) = "Fenced"
  BY DEF FenceOutcome, ReplayOutcome
<1>3. t = [u EXCEPT !.parts[p].idem = idem]
  BY DEF FenceTo
<1> HIDE DEF p, b, u, idem
<1>4. Tracks(s, u)
  BY <1>1, RecordFenceTracks DEF u
<1>5. Sound(u)
  <2>1. /\ Sound(u) /\ Follows(s, u)
        /\ u.parts[p].idem = s.parts[p].idem
        /\ u.parts[p].status # "unknown"
        /\ ~IsLive(u.parts[p], b)
    BY <1>1, <1>2, RecordFenceSound DEF u
  <2> QED
    BY <2>1
<1>6. Wf(u) /\ u \in States /\ u.parts \in [Participants -> ParticipantRecords]
      /\ old \in ParticipantRecords
  BY <1>1, <1>5, StateFields DEF Sound, Wf
<1>7. t.epoch = u.epoch /\ t.grants = u.grants /\ t.parts = [u.parts EXCEPT ![p] = new]
  BY <1>3, <1>6 DEF States
<1>8. new.live = old.live /\ new.ring = old.ring /\ new.status = old.status
  <2> HIDE DEF old
  <2> QED
    BY <1>6 DEF ParticipantRecords
<1> HIDE DEF new
<1>9. t.parts[p] = new /\ \A q \in Participants : q # p => t.parts[q] = u.parts[q]
  BY <1>1, <1>6, <1>7
<1>10. \A q \in Participants : /\ t.parts[q].live = u.parts[q].live
                               /\ t.parts[q].ring = u.parts[q].ring
                               /\ t.parts[q].status = u.parts[q].status
  BY <1>8, <1>9
<1> QED
  BY <1>4, <1>6, <1>7, <1>10, TracksAlike

\* An admission takes nothing away.
LEMMA AdmitTracks ==
  ASSUME NEW s, NEW u, Tracks(s, u), u.epoch = s.epoch, u.grants = s.grants, Wf(u),
         NEW r \in RegisterRequests, u.parts[r.participant].status # "retired",
         NEW t, t = AdmitIncarnation(u, r)
  PROVE  Tracks(s, t)
<1> DEFINE p == r.participant
           part == u.parts[p]
           idem == Remember(part.idem, r.attempt, RegisterDigest(r), part.next)
           entry == [boot |-> r.boot, seq |-> part.next]
           live == Append(part.live, entry)
           new == [part EXCEPT !.status = "registered", !.regGen = u.regFloor + 1,
                               !.next = part.next + 1, !.policy = r.policy, !.scopes = r.scopes,
                               !.reval = FALSE, !.live = live, !.idem = idem]
<1>1. p \in Participants /\ r.boot \in Boots
  BY RegisterRequestType
<1>2. part \in ParticipantRecords /\ part.live \in Seq(Incarnations) /\ part.next \in Nat
  BY <1>1, PartFields
<1>3. t = [u EXCEPT !.gen = u.gen + 1, !.regFloor = u.regFloor + 1,
                    !.parts = [u.parts EXCEPT ![p] = new]]
  BY DEF AdmitIncarnation
<1>4. entry \in Incarnations
  BY <1>1, <1>2 DEF Incarnations
<1> HIDE DEF entry
<1>5. \A i \in DOMAIN part.live : i \in DOMAIN live /\ live[i] = part.live[i]
  <2> HIDE DEF part
  <2> QED
    BY <1>2, <1>4
<1>6. new.live = live /\ new.ring = part.ring /\ new.status = "registered"
  <2> HIDE DEF part, live, idem
  <2> QED
    BY <1>2 DEF ParticipantRecords
<1> HIDE DEF new, live, idem
<1>7. t.epoch = u.epoch /\ t.grants = u.grants /\ t.parts = [u.parts EXCEPT ![p] = new]
  BY <1>3 DEF Wf, States
<1>8. t.parts[p] = new /\ \A q \in Participants : q # p => t.parts[q] = u.parts[q]
  BY <1>1, <1>7, StateFields
<1>a. part.status # "retired"
  OBVIOUS
<1> HIDE DEF p, part
<1>9. \A b, n : Holds(part, b, n) => Holds(new, b, n)
  BY <1>5, <1>6 DEF Holds
<1>10. (\A b : InRing(part, b) <=> InRing(new, b)) /\ (Complete(part) <=> Complete(new))
  BY <1>6 DEF InRing, Complete
<1>11. ASSUME NEW q \in Participants PROVE PartTracks(s, t, q)
  <2>1. PartTracks(s, u, q)
    BY DEF Tracks
  <2>2. CASE q # p
    BY <1>7, <1>8, <2>1, <2>2 DEF PartTracks
  <2>3. CASE q = p
    BY <1>7, <1>8, <1>9, <1>10, <1>a, <2>1, <2>3 DEF PartTracks, part
  <2> QED
    BY <2>2, <2>3
<1>12. GrantsTrack(s, t)
  BY <1>7 DEF GrantsTrack
<1> QED
  BY <1>11, <1>12 DEF Tracks

\* apply_registration: the incumbent goes to the ring, the newcomer is added.
LEMMA RegisterTracks ==
  ASSUME NEW s, Sound(s), NEW r \in RegisterRequests, RegisterOutcome(s, r) = "Registered",
         NEW t, t = RegisterTo(s, r)
  PROVE  Tracks(s, t)
<1> DEFINE p == r.participant
           old == s.parts[p]
           u == DisplaceIncumbent(s, s.fences, r)
           incumbent == old.live[1].boot
<1>1. p \in Participants /\ Wf(s)
  BY RegisterRequestType DEF Sound
<1>2. old.status # "retired"
  BY DEF RegisterOutcome, RegistrationOutcome, ReplayOutcome
<1>3. t = AdmitIncarnation(u, r)
  BY DEF RegisterTo
<1>4. Wf(u)
  BY <1>1, DisplaceIncumbentType
<1>5. /\ Tracks(s, u) /\ u.epoch = s.epoch /\ u.grants = s.grants
      /\ u.parts[p].status = old.status
  <2>1. CASE u = s
    BY <2>1, TracksItself
  <2>2. CASE HasIncumbent(s, r) /\ u = FenceIncarnation(s, p, incumbent)
    <3>1. old.live # << >>
      BY <2>2 DEF HasIncumbent
    <3>2. old.live \in Seq(Incarnations)
      BY <1>1, PartFields
    <3>3. 1 \in DOMAIN old.live /\ old.live[1] \in Incarnations
      BY <3>1, <3>2, NonEmptyHead
    <3>4. IsLive(old, incumbent) /\ incumbent \in Boots
      BY <3>3 DEF IsLive, Incarnations
    <3> HIDE DEF incumbent, p, u
    <3>5. Tracks(s, u) /\ u.epoch = s.epoch /\ u.grants = s.grants
      BY <1>1, <2>2, <3>4, FenceIncarnationTracks
    <3>6. /\ Sound(u) /\ Follows(s, u)
          /\ ~IsLive(u.parts[p], incumbent)
          /\ u.parts[p].status = s.parts[p].status
          /\ u.parts[p].policy = s.parts[p].policy
          /\ u.parts[p].idem = s.parts[p].idem
          /\ u.parts[p].next = s.parts[p].next
          /\ Len(u.parts[p].live) = Len(s.parts[p].live) - 1
          /\ \A i \in DOMAIN u.parts[p].ring :
               \/ u.parts[p].ring[i] = incumbent
               \/ \E j \in DOMAIN s.parts[p].ring : s.parts[p].ring[j] = u.parts[p].ring[i]
          /\ \A i \in DOMAIN u.fences :
               \/ u.fences[i].participant = p /\ u.fences[i].boot = incumbent
               \/ \E j \in DOMAIN s.fences : s.fences[j] = u.fences[i]
      BY <1>1, <2>2, <3>4, FenceIncarnationSound
    <3> QED
      BY <3>5, <3>6
  <2> QED
    BY <2>1, <2>2 DEF DisplaceIncumbent
<1> HIDE DEF u
<1> QED
  BY <1>2, <1>3, <1>4, <1>5, AdmitTracks

\* A new epoch keeps the rings; no grant is of it.
LEMMA MutateEpochTracks ==
  ASSUME NEW s, Wf(s), NEW t, t = MutateEpoch(s)
  PROVE  /\ Tracks(s, t)
         /\ \A p \in Participants : t.parts[p].ring = s.parts[p].ring
<1> DEFINE parts == [p \in Participants |->
                      [s.parts[p] EXCEPT !.reval = @ \/ s.parts[p].live # << >>,
                                         !.live = << >>]]
           transitions == Retain(Append(s.transitions, [from |-> s.epoch, to |-> s.epoch + 1,
                                                        gen |-> s.gen + 1]),
                                 MaxTransitions)
<1>1. t = [s EXCEPT !.epoch = s.epoch + 1, !.gen = s.gen + 1, !.parts = parts,
                    !.transitions = transitions]
  BY DEF MutateEpoch
<1>2. ASSUME NEW p \in Participants
      PROVE  parts[p].ring = s.parts[p].ring /\ parts[p].status = s.parts[p].status
  BY PartFields DEF ParticipantRecords
<1> HIDE DEF parts, transitions
<1>3. t.epoch = s.epoch + 1 /\ t.grants = s.grants /\ t.parts = parts
  BY <1>1 DEF Wf, States
<1>4. t.epoch # s.epoch
  BY <1>3, StateFields
<1>5. \A p \in Participants : PartTracks(s, t, p)
  BY <1>2, <1>3, <1>4 DEF PartTracks, InRing, Complete
<1>6. GrantsTrack(s, t)
  BY <1>3 DEF GrantsTrack
<1> QED
  BY <1>2, <1>3, <1>5, <1>6 DEF Tracks

\* advance_epoch adds the record of its attempt.
LEMMA AdvanceTracks ==
  ASSUME NEW s, Sound(s), NEW r \in AdvanceRequests, NEW t, t = AdvanceTo(s, r)
  PROVE  Tracks(s, t)
<1> DEFINE u == MutateEpoch(s)
           control == Remember(s.control, r.attempt, AdvanceDigest(r), s.epoch + 1)
<1>1. t = [u EXCEPT !.control = control]
  BY DEF AdvanceTo
<1>2. Wf(s) /\ Wf(u)
  BY MutateEpochType DEF Sound
<1>3. Tracks(s, u)
  BY <1>2, MutateEpochTracks
<1> HIDE DEF u, control
<1>4. t.epoch = u.epoch /\ t.grants = u.grants /\ t.parts = u.parts
  BY <1>1, <1>2 DEF Wf, States
<1> QED
  BY <1>2, <1>3, <1>4, TracksAlike

\* An incarnation found current with a sequence is one of the entries.
LEMMA CurrentHolds ==
  ASSUME NEW s, NEW p, NEW b, NEW n, n # 0, EvaluateIncarnation(s, p, b, n) = "Current"
  PROVE  Holds(s.parts[p], b, n)
<1> DEFINE part == s.parts[p]
           i == Position(part, b)
<1>1. IsLive(part, b) /\ n = FindIncarnation(part, b)
  BY DEF EvaluateIncarnation
<1>2. i \in DOMAIN part.live /\ part.live[i].boot = b
  BY <1>1 DEF IsLive, Position
<1>3. part.live[i].seq = n
  BY <1>1 DEF FindIncarnation
<1> HIDE DEF i
<1> QED
  BY <1>2, <1>3 DEF Holds

\* apply_grant gives a grant to a current incarnation alone.
LEMMA GrantTracks ==
  ASSUME NEW s, Wf(s), NEW r, NEW id \in Nat,
         r.participant \in Participants, r.boot \in Boots, r.inc \in Nat,
         r.scopes \in SUBSET Scopes, r.parent \in Nat,
         GrantOutcome(s, r) = "Granted", NEW t, t = GrantTo(s, r, id)
  PROVE  Tracks(s, t)
<1> DEFINE p == r.participant
           g == [id |-> id, epoch |-> s.epoch, participant |-> p,
                 boot |-> r.boot, inc |-> r.inc, scopes |-> r.scopes,
                 parent |-> r.parent, gen |-> s.gen + 1, revokedAt |-> 0]
           grants == Append(s.grants, g)
           part == s.parts[p]
           idem == Remember(part.idem, r.attempt, GrantDigest(r), id)
           new == [part EXCEPT !.idem = idem]
<1>1. /\ s \in States /\ s.parts \in [Participants -> ParticipantRecords]
      /\ s.gen \in Nat /\ s.epoch \in Nat /\ s.grants \in Seq(GrantRecords)
  BY StateFields DEF Wf
<1>2. r.inc # 0 /\ EvaluateIncarnation(s, p, r.boot, r.inc) = "Current"
  BY DEF GrantOutcome, ReplayOutcome
<1>3. Holds(part, r.boot, r.inc)
  BY <1>2, CurrentHolds
<1>4. g \in GrantRecords /\ g.participant = p /\ g.boot = r.boot /\ g.inc = r.inc
  BY <1>1 DEF GrantRecords
<1>5. t = [s EXCEPT !.gen = s.gen + 1, !.grants = grants, !.parts[p].idem = idem]
  BY DEF GrantTo
<1> HIDE DEF g
<1>6. \A i \in DOMAIN grants :
        \/ i \in DOMAIN s.grants /\ grants[i] = s.grants[i]
        \/ grants[i] = g
  BY <1>1, <1>4
<1>7. p \in Participants /\ part \in ParticipantRecords
  BY <1>1
<1> HIDE DEF grants, idem, p
<1>8. t.epoch = s.epoch /\ t.grants = grants /\ t.parts = [s.parts EXCEPT ![p] = new]
  BY <1>1, <1>5 DEF States
<1>9. new.live = part.live /\ new.ring = part.ring /\ new.status = part.status
  <2> HIDE DEF part
  <2> QED
    BY <1>7 DEF ParticipantRecords
<1> HIDE DEF new
<1>10. t.parts[p] = new /\ \A q \in Participants : q # p => t.parts[q] = s.parts[q]
  BY <1>1, <1>7, <1>8
<1>11. \A q \in Participants : /\ t.parts[q].live = s.parts[q].live
                               /\ t.parts[q].ring = s.parts[q].ring
                               /\ t.parts[q].status = s.parts[q].status
  BY <1>9, <1>10
<1>12. \A q \in Participants : PartTracks(s, t, q)
  BY <1>8, <1>11 DEF PartTracks, Holds, InRing, Complete
<1>13. Holds(t.parts[p], g.boot, g.inc)
  BY <1>3, <1>4, <1>9, <1>10 DEF Holds
<1>14. GrantsTrack(s, t)
  <2> SUFFICES ASSUME NEW i \in DOMAIN t.grants
               PROVE  \/ \E j \in DOMAIN s.grants :
                           /\ s.grants[j].participant = t.grants[i].participant
                           /\ s.grants[j].epoch = t.grants[i].epoch
                           /\ s.grants[j].boot = t.grants[i].boot
                           /\ s.grants[j].inc = t.grants[i].inc
                      \/ Holds(t.parts[t.grants[i].participant], t.grants[i].boot, t.grants[i].inc)
    BY DEF GrantsTrack
  <2>1. CASE i \in DOMAIN s.grants /\ grants[i] = s.grants[i]
    BY <1>8, <2>1
  <2>2. CASE grants[i] = g
    BY <1>4, <1>8, <1>13, <2>2
  <2> QED
    BY <1>6, <1>8, <2>1, <2>2
<1> QED
  BY <1>12, <1>14 DEF Tracks

\* apply_revoke changes neither the holders nor the incarnations.
LEMMA RevokeTracks ==
  ASSUME NEW s, Wf(s), NEW r, NEW t, t = RevokeTo(s, r)
  PROVE  Tracks(s, t)
<1> DEFINE gs == s.grants
           marked == [i \in DOMAIN gs |->
                       [gs[i] EXCEPT !.revokedAt = IF i \in Cascade(s, r) THEN s.epoch ELSE @,
                                     !.gen = IF i \in GrantAt(s, r.grant) THEN s.gen + 1 ELSE @]]
           control == Remember(s.control, r.attempt, RevokeDigest(r), s.gen + 1)
<1>1. t = [s EXCEPT !.gen = s.gen + 1, !.grants = marked, !.control = control]
  BY DEF RevokeTo
<1>2. ASSUME NEW i \in DOMAIN gs
      PROVE  /\ gs[i].participant = marked[i].participant /\ gs[i].epoch = marked[i].epoch
             /\ gs[i].boot = marked[i].boot /\ gs[i].inc = marked[i].inc
  <2> DEFINE at == IF i \in Cascade(s, r) THEN s.epoch ELSE gs[i].revokedAt
             gen == IF i \in GrantAt(s, r.grant) THEN s.gen + 1 ELSE gs[i].gen
  <2>1. gs[i] \in GrantRecords
    BY StateFields
  <2>2. marked[i] = [gs[i] EXCEPT !.revokedAt = at, !.gen = gen]
    OBVIOUS
  <2> HIDE DEF at, gen, marked
  <2> QED
    BY <2>1, <2>2 DEF GrantRecords
<1>3. DOMAIN marked = DOMAIN gs
  OBVIOUS
<1> HIDE DEF marked, control
<1>4. t.epoch = s.epoch /\ t.grants = marked /\ t.parts = s.parts
  BY <1>1 DEF Wf, States
<1>5. \A q \in Participants : PartTracks(s, t, q)
  BY <1>4 DEF PartTracks
<1>6. GrantsTrack(s, t)
  BY <1>2, <1>3, <1>4 DEF GrantsTrack
<1> QED
  BY <1>5, <1>6 DEF Tracks

\* apply_retire leaves a retired participant and the others alone.
LEMMA RetireTracks ==
  ASSUME NEW s, Sound(s), NEW r \in RetireRequests, RetireOutcome(s, r) = "Retired",
         NEW t, t = RetireTo(s, r)
  PROVE  Tracks(s, t)
<1> DEFINE p == r.participant
           part == s.parts[p]
<1>1. /\ Sound(t) /\ Follows(s, t)
      /\ t.parts[p].live = << >>
      /\ \A q \in Participants : q # p => t.parts[q] = s.parts[q]
  BY RetireSound
<1>2. p \in Participants /\ s \in States /\ s.parts \in [Participants -> ParticipantRecords]
  BY StateFields DEF Sound, Wf, RetireRequests
<1>3. t.grants = s.grants
  BY <1>2 DEF RetireTo, States
<1>4. /\ t.parts[p].status = "retired"
      /\ \A b : InRing(t.parts[p], b) => InRing(part, b) \/ IsLive(part, b)
  <2> DEFINE victims == Select(part.live, RetireVictims(s, p))
             spared == Select(part.live, DOMAIN part.live \ RetireVictims(s, p))
             n == Len(victims)
             boots == [i \in 1..n |-> victims[i].boot]
             ring == Retain(part.ring \o boots, MaxFencedBoots)
             off == Dropped(part.ring \o boots, MaxFencedBoots)
             fences == Retain(s.fences \o [i \in 1..n |->
                                            [boot |-> victims[i].boot, participant |-> p,
                                             gen |-> s.fenceFloor + i, epoch |-> s.epoch,
                                             inc |-> victims[i].seq]],
                              MaxRecentFences)
             idem == Remember(part.idem, r.attempt, RetireDigest(r), Len(part.live))
             floor == MaxOf(part.floor, part.next - 1)
             fenceGen == IF n = 0 THEN part.fenceGen ELSE s.fenceFloor + n
             new == [part EXCEPT !.status = "retired", !.reval = FALSE, !.floor = floor,
                                 !.fenceGen = fenceGen, !.live = spared, !.ring = ring,
                                 !.idem = idem]
  <2>1. t = [s EXCEPT !.gen = s.gen + n + 1, !.fenceFloor = s.fenceFloor + n,
                      !.fences = fences, !.parts = [s.parts EXCEPT ![p] = new]]
    BY DEF RetireTo
  <2>2. part \in ParticipantRecords /\ part.live \in Seq(Incarnations) /\ part.ring \in Seq(Boots)
    BY <1>2, PartFields DEF Sound
  <2>a. n \in Nat /\ \A i \in 1..n : \E j \in DOMAIN part.live : victims[i] = part.live[j]
    <3> DEFINE I == RetireVictims(s, p)
               live == part.live
    <3>1. live \in Seq(Incarnations) /\ I \in SUBSET (DOMAIN live) /\ victims = Select(live, I)
      BY <2>2 DEF RetireVictims
    <3> HIDE DEF I, live, victims
    <3>2. /\ Cardinality(I) \in Nat
          /\ victims \in Seq(Incarnations) /\ DOMAIN victims = 1..Cardinality(I)
          /\ Len(victims) = Cardinality(I)
          /\ \A i \in DOMAIN victims : Places(I)[i] \in I /\ victims[i] = live[Places(I)[i]]
          /\ \A i, j \in DOMAIN victims : Places(I)[i] = Places(I)[j] => i = j
      BY ONLY <3>1, SelectEntries
    <3> QED
      BY <3>1, <3>2 DEF live
  <2> HIDE DEF victims, n
  <2>b. boots \in Seq(Boots) /\ DOMAIN boots = 1..n /\ \A i \in 1..n : IsLive(part, boots[i])
    <3> HIDE DEF part
    <3>1. \A j \in DOMAIN part.live : part.live[j] \in Incarnations
      BY <2>2
    <3>2. \A i \in 1..n : victims[i].boot \in Boots /\ IsLive(part, victims[i].boot)
      BY <2>a, <3>1 DEF IsLive, Incarnations
    <3>3. boots \in [1..n -> Boots]
      BY <3>2
    <3> QED
      BY <2>a, <3>2, <3>3, SequenceOfFunction
  <2>c. \A b : (\E j \in DOMAIN ring : ring[j] = b) => InRing(part, b) \/ IsLive(part, b)
    <3> DEFINE old == part.ring
    <3>1. /\ old \in Seq(Boots) /\ boots \in Seq(Boots)
          /\ ring = Retain(old \o boots, MaxFencedBoots) /\ off = Dropped(old \o boots, MaxFencedBoots)
      BY <2>2, <2>b
    <3> HIDE DEF boots, ring, off, old
    <3>2. /\ DOMAIN ring \subseteq Nat /\ off \in Nat
          /\ \A j \in DOMAIN ring :
               \/ j + off \in DOMAIN old /\ ring[j] = old[j + off]
               \/ j + off - Len(old) \in DOMAIN boots /\ ring[j] = boots[j + off - Len(old)]
      BY <3>1, RetainedConcat, LimitAssumption
    <3> HIDE DEF part
    <3> QED
      BY <2>b, <3>2 DEF InRing, old
  <2> HIDE DEF part, spared, ring, idem, floor, fenceGen, fences, boots, off
  <2>3. new.status = "retired" /\ new.ring = ring
    BY <2>2 DEF ParticipantRecords
  <2> HIDE DEF new
  <2>4. t.parts = [s.parts EXCEPT ![p] = new]
    BY <1>2, <2>1 DEF States
  <2>5. t.parts[p] = new
    BY <1>2, <2>4
  <2> QED
    BY <2>3, <2>5, <2>c DEF InRing
<1>5. PartTracks(s, t, p)
  BY <1>4 DEF PartTracks
<1> HIDE DEF p
<1> QED
  BY <1>1, <1>2, <1>3, <1>5, TracksOne

-----------------------------------------------------------------------------
(* Validation with a grant. *)

\* A validation with a grant succeeds only for the incarnation the grant was
\* given to, while the ring of its participant is complete.
LEMMA TiedIsFollowed ==
  ASSUME NEW s, Sound(s), Tied(s), NEW i \in DOMAIN s.grants, s.grants[i].id # 0,
         NEW k \in Tokens, 1 <= k.inc, NEW q, q.token = k, q.grant = s.grants[i].id,
         Validate(s, q) = "Current"
  PROVE  /\ s.parts[s.grants[i].participant].live # << >>
         /\ Complete(s.parts[s.grants[i].participant]) =>
              k.boot = s.grants[i].boot /\ k.inc = s.grants[i].inc
<1> DEFINE g == s.grants[i]
           p == g.participant
           part == s.parts[p]
<1>1. Wf(s) /\ ValidGrants(s) /\ s.grants \in Seq(GrantRecords)
  BY StateFields DEF Sound
<1>2. g \in GrantRecords
  BY <1>1
<1>3. p \in Participants
  BY <1>2 DEF GrantRecords
<1>4. (CHOOSE j \in GrantAt(s, q.grant) : TRUE) = i
  <2>1. i \in GrantAt(s, q.grant)
    BY DEF GrantAt
  <2>2. \A j \in GrantAt(s, q.grant) : j = i
    BY <1>1 DEF GrantAt, ValidGrants
  <2> QED
    BY <2>1, <2>2
<1>5. /\ g.epoch = s.epoch /\ g.boot = k.boot
      /\ EvaluateIncarnation(s, p, k.boot, k.inc) \notin {"Fenced", "RevalidationRequired"}
  BY <1>4 DEF Validate, ValidateWithGrant
<1>6. k.inc # 0
  BY DEF Tokens
<1>7. Holds(part, k.boot, k.inc)
  <2>1. EvaluateIncarnation(s, p, k.boot, k.inc) = "Current"
    BY <1>5 DEF EvaluateIncarnation
  <2> HIDE DEF p
  <2> QED
    BY <1>6, <2>1, CurrentHolds
<1>8. PartSound(s, p)
  BY <1>3 DEF Sound
<1>9. PICK j \in DOMAIN part.live : part.live[j].boot = k.boot /\ part.live[j].seq = k.inc
  BY <1>7 DEF Holds
<1>10. part.live # << >> /\ part.status # "retired" /\ ~InRing(part, k.boot)
  <2>1. part.live # << >>
    BY <1>9
  <2>2. part.status # "retired"
    BY <1>8, <2>1 DEF PartSound
  <2>3. \A l \in DOMAIN part.ring : part.ring[l] # part.live[j].boot
    BY <1>8, <1>9 DEF PartSound
  <2> QED
    BY <1>9, <2>1, <2>2, <2>3 DEF InRing
<1>11. ASSUME Complete(part) PROVE k.inc = g.inc
  <2>1. Holds(part, g.boot, g.inc)
    BY <1>5, <1>10, <1>11 DEF Tied
  <2>2. PICK l \in DOMAIN part.live : part.live[l].boot = g.boot /\ part.live[l].seq = g.inc
    BY <2>1 DEF Holds
  <2>3. l = j
    BY <1>5, <1>8, <1>9, <2>2 DEF PartSound
  <2> QED
    BY <1>9, <2>2, <2>3
<1> QED
  BY <1>5, <1>10, <1>11

=============================================================================

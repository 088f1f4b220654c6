-------------------------- MODULE IncarnationProofs --------------------------
(***************************************************************************)
(* What the coordinator promises about incarnations, tokens and grants,    *)
(* for every deployment in which no boot serves two participants and every *)
(* registration is a call of its own, over crashes and restarts at any     *)
(* moment.  The operations are those of AuthorityProofs; what is left is   *)
(* that each step of the process applies one of them to the durable image, *)
(* or none, and what the history of the issued tokens then is.             *)
(***************************************************************************)
EXTENDS GrantProofs

\* The tokens X were issued up to state s: those of its current incarnations
\* are among them, they are of deployed boots and of sequences the allocators
\* have passed, and a participant and a sequence name one of them.
Issued(X, s) ==
  /\ TokensOf(s) \subseteq X
  /\ \A k \in X : /\ 1 <= k.inc /\ k.inc < s.parts[k.participant].next
                  /\ <<k.participant, k.boot>> \in Deployment
  /\ \A k, l \in X : k.participant = l.participant /\ k.inc = l.inc => k = l

\* The grants of s have identifiers that were generated.
Numbered(s, n) == \A i \in DOMAIN s.grants : s.grants[i].id \in 1..n

\* The inductive invariant.  Memory is the image, which is sound; the tokens
\* issued and the identifiers generated are those of its history.
AInv ==
  /\ IInv
  /\ mem = IF up THEN disk ELSE InitialState
  /\ up => disk.epoch # 0
  /\ Sound(disk)
  /\ Numbered(disk, minted)
  /\ Issued(issued, disk)

\* The tokens of a state are those of the entries of its participants.
LEMMA TokenEntries ==
  ASSUME NEW s, NEW k
  PROVE  k \in TokensOf(s) <=>
           \E p \in Participants : \E i \in DOMAIN s.parts[p].live :
             k = [epoch |-> s.epoch, participant |-> p,
                  boot |-> s.parts[p].live[i].boot, inc |-> s.parts[p].live[i].seq]
<1>1. ASSUME NEW p \in Participants, NEW i \in DOMAIN s.parts[p].live,
             k = [epoch |-> s.epoch, participant |-> p,
                  boot |-> s.parts[p].live[i].boot, inc |-> s.parts[p].live[i].seq]
      PROVE  k \in TokensOf(s)
  <2> DEFINE l == <<p, s.parts[p].live[i].boot, s.parts[p].live[i].seq>>
  <2>1. l \in Live(s)
    BY DEF Live
  <2>2. l[1] = p /\ l[2] = s.parts[p].live[i].boot /\ l[3] = s.parts[p].live[i].seq
    OBVIOUS
  <2> HIDE DEF l
  <2>3. k = [epoch |-> s.epoch, participant |-> l[1], boot |-> l[2], inc |-> l[3]]
    BY <1>1, <2>2
  <2> QED
    BY <2>1, <2>3 DEF TokensOf
<1>2. ASSUME k \in TokensOf(s)
      PROVE  \E p \in Participants : \E i \in DOMAIN s.parts[p].live :
               k = [epoch |-> s.epoch, participant |-> p,
                    boot |-> s.parts[p].live[i].boot, inc |-> s.parts[p].live[i].seq]
  <2>1. PICK l \in Live(s) :
          k = [epoch |-> s.epoch, participant |-> l[1], boot |-> l[2], inc |-> l[3]]
    BY <1>2 DEF TokensOf
  <2>2. PICK p \in Participants : \E i \in DOMAIN s.parts[p].live :
          l = <<p, s.parts[p].live[i].boot, s.parts[p].live[i].seq>>
    BY DEF Live
  <2>3. PICK i \in DOMAIN s.parts[p].live :
          l = <<p, s.parts[p].live[i].boot, s.parts[p].live[i].seq>>
    BY <2>2
  <2>4. l[1] = p /\ l[2] = s.parts[p].live[i].boot /\ l[3] = s.parts[p].live[i].seq
    BY <2>3
  <2> QED
    BY <2>1, <2>4
<1> QED
  BY <1>1, <1>2

\* A later, sound state adds tokens of sequences that no issued token has.
LEMMA IssuedGrows ==
  ASSUME NEW s, NEW t, Sound(s), Sound(t), Follows(s, t),
         NEW X \in SUBSET Tokens, Issued(X, s)
  PROVE  Issued(X \cup TokensOf(t), t)
<1>1. Wf(s) /\ Wf(t)
  BY DEF Sound
<1>2. \A p \in Participants : /\ s.parts[p].next \in Nat /\ t.parts[p].next \in Nat
                              /\ t.parts[p].next >= s.parts[p].next
  BY <1>1, PartFields DEF Follows, PartFollows
<1>3. \A k \in X : k.participant \in Participants /\ k.inc \in Nat
  BY DEF Tokens
<1>4. ASSUME NEW k \in TokensOf(t)
      PROVE  /\ k.participant \in Participants /\ k.inc \in Nat
             /\ 1 <= k.inc /\ k.inc < t.parts[k.participant].next
             /\ <<k.participant, k.boot>> \in Deployment
             /\ k \in X \/ k.inc >= s.parts[k.participant].next
             /\ \A l \in TokensOf(t) : k.participant = l.participant /\ k.inc = l.inc => k = l
  <2>1. PICK p \in Participants : \E i \in DOMAIN t.parts[p].live :
          k = [epoch |-> t.epoch, participant |-> p,
               boot |-> t.parts[p].live[i].boot, inc |-> t.parts[p].live[i].seq]
    BY TokenEntries
  <2>2. PICK i \in DOMAIN t.parts[p].live :
          k = [epoch |-> t.epoch, participant |-> p,
               boot |-> t.parts[p].live[i].boot, inc |-> t.parts[p].live[i].seq]
    BY <2>1
  <2>3. /\ k.epoch = t.epoch /\ k.participant = p
        /\ k.boot = t.parts[p].live[i].boot /\ k.inc = t.parts[p].live[i].seq
    BY <2>2
  <2>4. /\ t.parts[p].live[i].seq \in Nat
        /\ 1 <= t.parts[p].live[i].seq /\ t.parts[p].live[i].seq < t.parts[p].next
        /\ <<p, t.parts[p].live[i].boot>> \in Deployment
    BY <1>1, PartFields DEF Sound, PartSound
  <2>5. k \in X \/ k.inc >= s.parts[k.participant].next
    <3>1. CASE t.parts[p].live[i].seq >= s.parts[p].next
      BY <2>3, <3>1
    <3>2. CASE t.epoch = s.epoch /\ \E j \in DOMAIN s.parts[p].live :
                 s.parts[p].live[j] = t.parts[p].live[i]
      <4>1. PICK j \in DOMAIN s.parts[p].live : s.parts[p].live[j] = t.parts[p].live[i]
        BY <3>2
      <4>2. k = [epoch |-> s.epoch, participant |-> p,
                 boot |-> s.parts[p].live[j].boot, inc |-> s.parts[p].live[j].seq]
        BY <2>2, <3>2, <4>1
      <4>3. k \in TokensOf(s)
        BY <4>2, TokenEntries
      <4> QED
        BY <4>3 DEF Issued
    <3> QED
      BY <3>1, <3>2 DEF Follows, PartFollows
  <2>6. ASSUME NEW l \in TokensOf(t), k.participant = l.participant, k.inc = l.inc
        PROVE  k = l
    <3>1. PICK q \in Participants : \E j \in DOMAIN t.parts[q].live :
            l = [epoch |-> t.epoch, participant |-> q,
                 boot |-> t.parts[q].live[j].boot, inc |-> t.parts[q].live[j].seq]
      BY TokenEntries
    <3>2. PICK j \in DOMAIN t.parts[q].live :
            l = [epoch |-> t.epoch, participant |-> q,
                 boot |-> t.parts[q].live[j].boot, inc |-> t.parts[q].live[j].seq]
      BY <3>1
    <3>3. q = p /\ t.parts[q].live[j].seq = t.parts[p].live[i].seq
      BY <2>3, <2>6, <3>2
    <3>4. i = j
      BY <3>2, <3>3 DEF Sound, PartSound
    <3> QED
      BY <2>2, <3>2, <3>3, <3>4
  <2> QED
    BY <2>3, <2>4, <2>5, <2>6
<1>5. ASSUME NEW k \in X
      PROVE  /\ 1 <= k.inc /\ k.inc < t.parts[k.participant].next
             /\ <<k.participant, k.boot>> \in Deployment
             /\ k.inc < s.parts[k.participant].next
             /\ \A l \in X : k.participant = l.participant /\ k.inc = l.inc => k = l
  <2>1. /\ 1 <= k.inc /\ k.inc < s.parts[k.participant].next
        /\ <<k.participant, k.boot>> \in Deployment
        /\ \A l \in X : k.participant = l.participant /\ k.inc = l.inc => k = l
    BY DEF Issued
  <2>2. k.inc < t.parts[k.participant].next
    BY <1>2, <1>3, <2>1
  <2> QED
    BY <2>1, <2>2
<1>6. ASSUME NEW k \in X, NEW l \in TokensOf(t), k.participant = l.participant, k.inc = l.inc
      PROVE  k = l
  <2>1. CASE l \in X
    BY <1>5, <1>6, <2>1
  <2>2. CASE l.inc >= s.parts[l.participant].next
    <3>1. /\ k.inc \in Nat /\ s.parts[k.participant].next \in Nat
          /\ k.inc < s.parts[k.participant].next
      BY <1>2, <1>3, <1>5
    <3> QED
      BY <1>6, <2>2, <3>1
  <2> QED
    BY <1>4, <2>1, <2>2
<1> QED
  BY <1>4, <1>5, <1>6 DEF Issued

-----------------------------------------------------------------------------
(* Idempotent answers. *)

\* What a replay of a participant's record asserts is so in state s, when the
\* tokens X were issued.  A fenced sequence is below the allocator, without
\* which it could become current later.
TrueRecord(s, X, p, rec) ==
  LET op == rec.sem.op IN
  /\ op = "register" => \E k \in X : /\ k.participant = p
                                     /\ k.boot = rec.sem.boot
                                     /\ k.inc = rec.value
  /\ op = "fence" => /\ rec.value < s.parts[p].next
                     /\ <<p, rec.sem.boot, rec.value>> \notin Live(s)
  /\ op = "grant" => GrantAt(s, rec.value) # {}
  /\ op = "retire" => s.parts[p].status = "retired"

\* What a replay of a control record asserts is so in state s.
TrueControl(s, rec) ==
  /\ rec.sem.op = "advance" => rec.value <= s.epoch
  /\ rec.sem.op = "revoke" => \E i \in GrantAt(s, rec.sem.grant) : Revoked(s.grants[i])

\* Every retained record answers truly.
Answers(s, X) ==
  /\ \A p \in Participants : \A i \in DOMAIN s.parts[p].idem :
       TrueRecord(s, X, p, s.parts[p].idem[i])
  /\ \A i \in DOMAIN s.control : TrueControl(s, s.control[i])

\* A record of t was one of s or is true of t.
Recalls(s, t) ==
  /\ \A p \in Participants : \A j \in DOMAIN t.parts[p].idem :
       \/ \E i \in DOMAIN s.parts[p].idem : s.parts[p].idem[i] = t.parts[p].idem[j]
       \/ TrueRecord(t, TokensOf(t), p, t.parts[p].idem[j])
  /\ \A j \in DOMAIN t.control :
       \/ \E i \in DOMAIN s.control : s.control[i] = t.control[j]
       \/ TrueControl(t, t.control[j])

\* A current incarnation is an entry of its participant.
LEMMA LiveEntries ==
  ASSUME NEW s, NEW p \in Participants, NEW b, NEW n
  PROVE  <<p, b, n>> \in Live(s) <=>
           \E i \in DOMAIN s.parts[p].live :
             s.parts[p].live[i].boot = b /\ s.parts[p].live[i].seq = n
<1>1. ASSUME NEW i \in DOMAIN s.parts[p].live,
             s.parts[p].live[i].boot = b /\ s.parts[p].live[i].seq = n
      PROVE  <<p, b, n>> \in Live(s)
  <2>1. <<p, b, n>> = <<p, s.parts[p].live[i].boot, s.parts[p].live[i].seq>>
    BY <1>1
  <2> QED
    BY <2>1 DEF Live
<1>2. ASSUME <<p, b, n>> \in Live(s)
      PROVE  \E i \in DOMAIN s.parts[p].live :
               s.parts[p].live[i].boot = b /\ s.parts[p].live[i].seq = n
  <2>1. PICK q \in Participants : \E i \in DOMAIN s.parts[q].live :
          <<p, b, n>> = <<q, s.parts[q].live[i].boot, s.parts[q].live[i].seq>>
    BY <1>2 DEF Live
  <2> QED
    BY <2>1
<1> QED
  BY <1>1, <1>2

\* What was true of a state is true of every later one: no fenced sequence is
\* current again, no grant is forgotten or un-revoked, retirement is final.
LEMMA AnswersLast ==
  ASSUME NEW s, NEW t, Sound(s), Sound(t), Follows(s, t), NEW X, NEW Y, X \subseteq Y,
         TokensOf(t) \subseteq Y, Answers(s, X), Recalls(s, t)
  PROVE  Answers(t, Y)
<1>1. Wf(s) /\ Wf(t)
  BY DEF Sound
<1>2. ASSUME NEW n, GrantAt(s, n) # {} PROVE GrantAt(t, n) # {}
  BY <1>2 DEF Follows, GrantsFollow, GrantAt
<1>3. ASSUME NEW p \in Participants, NEW i \in DOMAIN s.parts[p].idem
      PROVE  TrueRecord(t, Y, p, s.parts[p].idem[i])
  <2> DEFINE rec == s.parts[p].idem[i]
  <2>1. TrueRecord(s, X, p, rec)
    BY DEF Answers
  <2>2. rec \in IdempotencyRecords
    BY <1>1, PartFields
  <2>3. rec.value \in Nat
    BY <2>2 DEF IdempotencyRecords
  <2> HIDE DEF rec
  <2>4. PartFollows(s, t, p)
    BY DEF Follows
  <2>5. ASSUME rec.sem.op = "fence"
        PROVE  /\ rec.value < t.parts[p].next
               /\ <<p, rec.sem.boot, rec.value>> \notin Live(t)
    <3>1. /\ rec.value < s.parts[p].next
          /\ <<p, rec.sem.boot, rec.value>> \notin Live(s)
      BY <2>1, <2>5 DEF TrueRecord
    <3>2. s.parts[p].next \in Nat /\ t.parts[p].next \in Nat /\ t.parts[p].next >= s.parts[p].next
      BY <1>1, <2>4, PartFields DEF PartFollows
    <3>3. ASSUME NEW j \in DOMAIN t.parts[p].live, t.parts[p].live[j].boot = rec.sem.boot,
                 t.parts[p].live[j].seq = rec.value
          PROVE  FALSE
      <4>1. ~(t.parts[p].live[j].seq >= s.parts[p].next)
        BY <2>3, <3>1, <3>2, <3>3
      <4>2. PICK l \in DOMAIN s.parts[p].live : s.parts[p].live[l] = t.parts[p].live[j]
        BY <2>4, <4>1 DEF PartFollows
      <4>a. s.parts[p].live[l].boot = rec.sem.boot /\ s.parts[p].live[l].seq = rec.value
        BY <3>3, <4>2
      <4> DEFINE b == rec.sem.boot
                 n == rec.value
      <4> HIDE DEF b, n
      <4>b. s.parts[p].live[l].boot = b /\ s.parts[p].live[l].seq = n
        BY <4>a DEF b, n
      <4>c. <<p, b, n>> \in Live(s)
        BY <4>b, LiveEntries
      <4>3. <<p, rec.sem.boot, rec.value>> \in Live(s)
        BY <4>c DEF b, n
      <4> QED
        BY <3>1, <4>3
    <3>4. <<p, rec.sem.boot, rec.value>> \notin Live(t)
      BY <3>3, LiveEntries
    <3> QED
      BY <2>3, <3>1, <3>2, <3>4
  <2>6. rec.sem.op = "register" => \E k \in Y : /\ k.participant = p
                                                /\ k.boot = rec.sem.boot
                                                /\ k.inc = rec.value
    BY <2>1 DEF TrueRecord
  <2>7. rec.sem.op = "grant" => GrantAt(t, rec.value) # {}
    BY <1>2, <2>1 DEF TrueRecord
  <2>8. rec.sem.op = "retire" => t.parts[p].status = "retired"
    BY <2>1, <2>4 DEF TrueRecord, PartFollows
  <2>9. TrueRecord(t, Y, p, rec)
    BY <2>5, <2>6, <2>7, <2>8 DEF TrueRecord
  <2> QED
    BY <2>9 DEF rec
<1>4. ASSUME NEW i \in DOMAIN s.control PROVE TrueControl(t, s.control[i])
  <2> DEFINE rec == s.control[i]
  <2>1. TrueControl(s, rec)
    BY DEF Answers
  <2>2. rec \in IdempotencyRecords /\ s.epoch \in Nat /\ t.epoch \in Nat /\ t.epoch >= s.epoch
    BY <1>1, StateFields DEF Follows
  <2>3. rec.value \in Nat
    BY <2>2 DEF IdempotencyRecords
  <2> HIDE DEF rec
  <2>4. rec.sem.op = "advance" => rec.value <= t.epoch
    <3>1. rec.sem.op = "advance" => rec.value <= s.epoch
      BY <2>1 DEF TrueControl
    <3> QED
      BY <2>2, <2>3, <3>1
  <2>5. rec.sem.op = "revoke" => \E j \in GrantAt(t, rec.sem.grant) : Revoked(t.grants[j])
    BY <2>1 DEF TrueControl, Follows, GrantsFollow, GrantAt
  <2>6. TrueControl(t, rec)
    BY <2>4, <2>5 DEF TrueControl
  <2> QED
    BY <2>6 DEF rec
<1>5. ASSUME NEW p, NEW rec, TrueRecord(t, TokensOf(t), p, rec) PROVE TrueRecord(t, Y, p, rec)
  BY <1>5 DEF TrueRecord
<1>6. ASSUME NEW p \in Participants, NEW j \in DOMAIN t.parts[p].idem
      PROVE  TrueRecord(t, Y, p, t.parts[p].idem[j])
  <2>1. CASE \E i \in DOMAIN s.parts[p].idem : s.parts[p].idem[i] = t.parts[p].idem[j]
    <3>1. PICK i \in DOMAIN s.parts[p].idem : s.parts[p].idem[i] = t.parts[p].idem[j]
      BY <2>1
    <3>2. TrueRecord(t, Y, p, s.parts[p].idem[i])
      BY <1>3
    <3> QED
      BY <3>1, <3>2
  <2>2. CASE TrueRecord(t, TokensOf(t), p, t.parts[p].idem[j])
    BY <1>5, <2>2
  <2> QED
    BY <2>1, <2>2 DEF Recalls
<1>7. ASSUME NEW j \in DOMAIN t.control PROVE TrueControl(t, t.control[j])
  <2>1. CASE \E i \in DOMAIN s.control : s.control[i] = t.control[j]
    <3>1. PICK i \in DOMAIN s.control : s.control[i] = t.control[j]
      BY <2>1
    <3>2. TrueControl(t, s.control[i])
      BY <1>4
    <3> QED
      BY <3>1, <3>2
  <2> QED
    BY <2>1 DEF Recalls
<1> QED
  BY <1>6, <1>7 DEF Answers

\* A step that remembers nothing recalls what was remembered.
LEMMA RecallsAlike ==
  ASSUME NEW s, NEW t, t.control = s.control,
         \A p \in Participants : t.parts[p].idem = s.parts[p].idem
  PROVE  Recalls(s, t)
  BY DEF Recalls

\* One more record of a participant, which is true.
LEMMA RecallsOneMore ==
  ASSUME NEW s, Sound(s), NEW p \in Participants, NEW a \in Attempts, NEW d \in Digests,
         NEW v \in Nat, ~Attempted(s.parts[p].idem, a),
         NEW t, t.control = s.control,
         \A q \in Participants : q # p => t.parts[q].idem = s.parts[q].idem,
         t.parts[p].idem = Remember(s.parts[p].idem, a, d, v),
         TrueRecord(t, TokensOf(t), p, [attempt |-> a, sem |-> d, value |-> v])
  PROVE  Recalls(s, t)
<1> DEFINE table == s.parts[p].idem
           new == t.parts[p].idem
           rec == [attempt |-> a, sem |-> d, value |-> v]
<1>1. table \in Seq(IdempotencyRecords) /\ DistinctAttempts(table)
  BY PartFields DEF Sound, PartSound
<1>2. \A j \in DOMAIN new : \/ new[j] = rec
                            \/ \E i \in DOMAIN table : table[i] = new[j]
  <2> HIDE DEF table, new
  <2>1. new = Remember(table, a, d, v) /\ ~Attempted(table, a)
    BY DEF table, new
  <2> QED
    BY <1>1, <2>1, RememberDistinct
<1> HIDE DEF rec
<1>3. TrueRecord(t, TokensOf(t), p, rec)
  BY DEF rec
<1> QED
  BY <1>2, <1>3 DEF Recalls

\* One more control record, which is true.
LEMMA RecallsOneMoreControl ==
  ASSUME NEW s, Sound(s), NEW a \in Attempts, NEW d \in Digests,
         NEW v \in Nat, ~Attempted(s.control, a),
         NEW t, t.control = Remember(s.control, a, d, v),
         \A q \in Participants : t.parts[q].idem = s.parts[q].idem,
         TrueControl(t, [attempt |-> a, sem |-> d, value |-> v])
  PROVE  Recalls(s, t)
<1> DEFINE table == s.control
           new == t.control
           rec == [attempt |-> a, sem |-> d, value |-> v]
<1>1. table \in Seq(IdempotencyRecords) /\ DistinctAttempts(table)
  BY StateFields DEF Sound, ValidControl
<1>2. \A j \in DOMAIN new : \/ new[j] = rec
                            \/ \E i \in DOMAIN table : table[i] = new[j]
  <2> HIDE DEF table, new
  <2>1. new = Remember(table, a, d, v) /\ ~Attempted(table, a)
    BY DEF table, new
  <2> QED
    BY <1>1, <2>1, RememberDistinct
<1> HIDE DEF rec
<1>3. TrueControl(t, rec)
  BY DEF rec
<1> QED
  BY <1>2, <1>3 DEF Recalls

\* What recording a fence leaves of the records and the allocators.
LEMMA RecordFenceShape ==
  ASSUME NEW s, Wf(s), NEW p \in Participants, NEW b \in Boots, NEW t, t = RecordFence(s, p, b)
  PROVE  /\ t.control = s.control
         /\ \A q \in Participants : t.parts[q].idem = s.parts[q].idem /\ t.parts[q].next = s.parts[q].next
<1>1. CASE IsLive(s.parts[p], b)
  <2> DEFINE part == s.parts[p]
             i == Position(part, b)
             live == Without(part.live, i)
             floor == MaxOf(part.floor, part.live[i].seq)
             ring == Retain(Append(part.ring, b), MaxFencedBoots)
             new == [part EXCEPT !.live = live, !.floor = floor,
                                 !.fenceGen = s.fenceFloor + 1, !.ring = ring]
             fences == Retain(Append(s.fences, [boot |-> b, participant |-> p,
                                                gen |-> s.fenceFloor + 1, epoch |-> s.epoch,
                                                inc |-> part.live[i].seq]),
                              MaxRecentFences)
  <2>1. t = [s EXCEPT !.gen = s.gen + 1, !.fenceFloor = s.fenceFloor + 1,
                      !.parts = [s.parts EXCEPT ![p] = new], !.fences = fences]
    BY <1>1 DEF RecordFence, FenceIncarnation
  <2>2. new.idem = s.parts[p].idem /\ new.next = s.parts[p].next
    <3>1. part \in ParticipantRecords
      BY PartFields
    <3> HIDE DEF part, live, floor, ring
    <3>2. new.idem = part.idem /\ new.next = part.next
      BY <3>1 DEF ParticipantRecords
    <3> QED
      BY <3>2 DEF part
  <2> HIDE DEF new, fences
  <2>3. t.control = s.control /\ t.parts = [s.parts EXCEPT ![p] = new]
    BY <2>1 DEF Wf, States
  <2> QED
    BY <2>2, <2>3, StateFields
<1>2. CASE ~IsLive(s.parts[p], b)
  <2> DEFINE new == [s.parts[p] EXCEPT !.fenceGen = s.fenceFloor + 1]
             fences == Append(s.fences, [boot |-> b, participant |-> p, gen |-> s.fenceFloor + 1,
                                         epoch |-> s.epoch, inc |-> 0])
  <2>1. t = [s EXCEPT !.gen = s.gen + 1, !.fenceFloor = s.fenceFloor + 1,
                      !.parts = [s.parts EXCEPT ![p] = new], !.fences = fences]
    BY <1>2 DEF RecordFence, FencePreventively
  <2>2. new.idem = s.parts[p].idem /\ new.next = s.parts[p].next
    BY PartFields DEF ParticipantRecords
  <2> HIDE DEF new, fences
  <2>3. t.control = s.control /\ t.parts = [s.parts EXCEPT ![p] = new]
    BY <2>1 DEF Wf, States
  <2> QED
    BY <2>2, <2>3, StateFields
<1> QED
  BY <1>1, <1>2

\* A fence is remembered with the incarnation it closed, or with none.
LEMMA FenceRecalls ==
  ASSUME NEW s, Sound(s), NEW r \in FenceRequests, FenceOutcome(s, r) = "Fenced"
  PROVE  Recalls(s, FenceTo(s, r))
<1> DEFINE p == r.participant
           t == RecordFence(s, p, r.boot)
           v == FindIncarnation(s.parts[p], r.boot)
           d == FenceDigest(r)
           idem == Remember(s.parts[p].idem, r.attempt, d, v)
           u == FenceTo(s, r)
           rec == [attempt |-> r.attempt, sem |-> d, value |-> v]
<1>1. /\ r.attempt \in Attempts /\ p \in Participants /\ r.boot \in Boots
      /\ r.reason \in Reasons /\ Wf(s)
  BY RuntimeAssumption DEF FenceRequests, Sound
<1>2. RecordFenceOutcome(s, p, r.boot, TRUE) = "Fenced" /\ ~Attempted(s.parts[p].idem, r.attempt)
  BY DEF FenceOutcome, ReplayOutcome
<1>3. /\ Sound(t) /\ Follows(s, t)
      /\ t.parts[p].idem = s.parts[p].idem /\ t.parts[p].status # "unknown"
      /\ ~IsLive(t.parts[p], r.boot)
  <2> HIDE DEF p
  <2> QED
    BY <1>1, <1>2, RecordFenceSound
<1>4. /\ t.control = s.control
      /\ \A q \in Participants : t.parts[q].idem = s.parts[q].idem /\ t.parts[q].next = s.parts[q].next
  <2> HIDE DEF p
  <2> QED
    BY <1>1, RecordFenceShape
<1>5. v \in Nat /\ v < s.parts[p].next
  <2>1. PartSound(s, p) /\ s.parts[p].next \in Nat /\ s.parts[p].floor \in Nat
    BY <1>1, PartFields DEF Sound
  <2>2. CASE IsLive(s.parts[p], r.boot)
    <3>1. Position(s.parts[p], r.boot) \in DOMAIN s.parts[p].live
      BY <2>2 DEF IsLive, Position
    <3>2. v = s.parts[p].live[Position(s.parts[p], r.boot)].seq
      BY <2>2 DEF FindIncarnation
    <3>3. v < s.parts[p].next
      BY <2>1, <3>1, <3>2 DEF PartSound
    <3> QED
      BY <1>1, <3>3, PartFields, FindIncarnationType
  <2>3. CASE ~IsLive(s.parts[p], r.boot)
    <3>1. v = 0
      BY <2>3 DEF FindIncarnation
    <3>2. s.parts[p].floor < s.parts[p].next
      BY <2>1 DEF PartSound
    <3> QED
      BY <2>1, <3>1, <3>2
  <2> QED
    BY <2>2, <2>3
<1>6. d \in Digests /\ d.op = "fence" /\ d.boot = r.boot
  BY <1>1 DEF FenceDigest, Digests
<1>7. u = [t EXCEPT !.parts[p].idem = idem]
  BY DEF FenceTo
<1>8. rec.sem = d /\ rec.value = v
  OBVIOUS
<1> HIDE DEF t, u, v, p, d, rec, idem
<1>9. /\ u.control = t.control
      /\ u.parts[p].idem = idem /\ u.parts[p].next = t.parts[p].next
      /\ u.parts[p].live = t.parts[p].live
      /\ \A q \in Participants : q # p => u.parts[q] = t.parts[q]
  <2>1. t \in States /\ t.parts \in [Participants -> ParticipantRecords]
    BY <1>3, StateFields DEF Sound, Wf
  <2>2. t.parts[p] \in ParticipantRecords
    BY <1>1, <2>1
  <2>3. u.control = t.control /\ u.parts = [t.parts EXCEPT ![p].idem = idem]
    BY <1>7, <2>1 DEF States
  <2>4. u.parts[p] = [t.parts[p] EXCEPT !.idem = idem]
    BY <1>1, <2>1, <2>3
  <2>5. /\ u.parts[p].idem = idem /\ u.parts[p].next = t.parts[p].next
        /\ u.parts[p].live = t.parts[p].live
    BY <2>2, <2>4 DEF ParticipantRecords
  <2> QED
    BY <1>1, <2>1, <2>3, <2>5
<1>10. <<p, r.boot, v>> \notin Live(u)
  <2>1. ~\E i \in DOMAIN u.parts[p].live :
           u.parts[p].live[i].boot = r.boot /\ u.parts[p].live[i].seq = v
    BY <1>3, <1>9 DEF IsLive
  <2> DEFINE b == r.boot
  <2>2. ~\E i \in DOMAIN u.parts[p].live :
           u.parts[p].live[i].boot = b /\ u.parts[p].live[i].seq = v
    BY <2>1
  <2> HIDE DEF b
  <2>a. p \in Participants
    BY <1>1
  <2>b. <<p, b, v>> \in Live(u) <=>
          \E i \in DOMAIN u.parts[p].live :
            u.parts[p].live[i].boot = b /\ u.parts[p].live[i].seq = v
    BY <2>a, LiveEntries
  <2>3. <<p, b, v>> \notin Live(u)
    BY <2>2, <2>b
  <2> QED
    BY <2>3 DEF b
<1>11. TrueRecord(u, TokensOf(u), p, rec)
  BY <1>1, <1>4, <1>5, <1>6, <1>8, <1>9, <1>10 DEF TrueRecord
<1>12. /\ u.control = s.control
       /\ \A q \in Participants : q # p => u.parts[q].idem = s.parts[q].idem
       /\ u.parts[p].idem = Remember(s.parts[p].idem, r.attempt, d, v)
  BY <1>4, <1>9 DEF idem
<1>13. TrueRecord(u, TokensOf(u), p, [attempt |-> r.attempt, sem |-> d, value |-> v])
  BY <1>11 DEF rec
<1>14. Recalls(s, u)
  BY <1>1, <1>2, <1>5, <1>6, <1>12, <1>13, RecallsOneMore
<1> QED
  BY <1>14 DEF u

\* Displacing an incumbent leaves the records alone.
LEMMA DisplaceShape ==
  ASSUME NEW s, Wf(s), NEW r \in RegisterRequests, NEW t, t = DisplaceIncumbent(s, s.fences, r)
  PROVE  /\ Wf(t) /\ t.control = s.control
         /\ \A q \in Participants : t.parts[q].idem = s.parts[q].idem
<1> DEFINE p == r.participant
           old == s.parts[p]
           incumbent == old.live[1].boot
<1>1. Wf(t)
  BY DisplaceIncumbentType
<1>2. CASE t = s
  BY <1>1, <1>2
<1>3. CASE HasIncumbent(s, r) /\ t = FenceIncarnation(s, p, incumbent)
  <2>1. p \in Participants
    BY RegisterRequestType
  <2>2. old.live \in Seq(Incarnations)
    BY <2>1, PartFields
  <2>3. old.live # << >>
    BY <1>3 DEF HasIncumbent
  <2>4. 1 \in DOMAIN old.live /\ old.live[1] \in Incarnations
    BY <2>2, <2>3, NonEmptyHead
  <2>5. IsLive(old, incumbent) /\ incumbent \in Boots
    BY <2>4 DEF IsLive, Incarnations
  <2>6. t = RecordFence(s, p, incumbent)
    BY <1>3, <2>5 DEF RecordFence
  <2> HIDE DEF incumbent, p
  <2>7. /\ t.control = s.control
        /\ \A q \in Participants : t.parts[q].idem = s.parts[q].idem /\ t.parts[q].next = s.parts[q].next
    BY <2>1, <2>5, <2>6, RecordFenceShape
  <2> QED
    BY <1>1, <2>7
<1> QED
  BY <1>2, <1>3 DEF DisplaceIncumbent

\* What admitting an incarnation leaves: the record, and a token of it.
LEMMA AdmitShape ==
  ASSUME NEW s, Wf(s), NEW r \in RegisterRequests, NEW p, p = r.participant,
         NEW v, v = s.parts[p].next, NEW t, t = AdmitIncarnation(s, r)
  PROVE  /\ v \in Nat /\ t.control = s.control
         /\ \A q \in Participants : q # p => t.parts[q].idem = s.parts[q].idem
         /\ t.parts[p].idem = Remember(s.parts[p].idem, r.attempt, RegisterDigest(r), v)
         /\ \E k \in TokensOf(t) : k.participant = p /\ k.boot = r.boot /\ k.inc = v
<1> DEFINE part == s.parts[p]
           idem == Remember(part.idem, r.attempt, RegisterDigest(r), v)
           entry == [boot |-> r.boot, seq |-> v]
           live == Append(part.live, entry)
           new == [part EXCEPT !.status = "registered", !.regGen = s.regFloor + 1,
                               !.next = v + 1, !.policy = r.policy, !.scopes = r.scopes,
                               !.reval = FALSE, !.live = live, !.idem = idem]
<1>1. p \in Participants /\ r.boot \in Boots
  BY RegisterRequestType
<1>2. part \in ParticipantRecords /\ part.live \in Seq(Incarnations) /\ v \in Nat
  BY <1>1, PartFields
<1>3. t = [s EXCEPT !.gen = s.gen + 1, !.regFloor = s.regFloor + 1,
                    !.parts = [s.parts EXCEPT ![p] = new]]
  BY DEF AdmitIncarnation
<1>4. new.live = live /\ new.idem = idem
  <2> HIDE DEF part, live, idem
  <2> QED
    BY <1>2 DEF ParticipantRecords
<1>5. entry \in Incarnations /\ entry.boot = r.boot /\ entry.seq = v
  BY <1>1, <1>2 DEF Incarnations
<1> HIDE DEF entry
<1>6. Len(part.live) + 1 \in DOMAIN live /\ live[Len(part.live) + 1] = entry
  <2> HIDE DEF part
  <2> QED
    BY <1>2, <1>5
<1> HIDE DEF new, live
<1>7. t.control = s.control /\ t.parts = [s.parts EXCEPT ![p] = new]
  BY <1>3 DEF Wf, States
<1>8. t.parts[p] = new /\ \A q \in Participants : q # p => t.parts[q] = s.parts[q]
  BY <1>1, <1>7, StateFields
<1> DEFINE i == Len(part.live) + 1
           k == [epoch |-> t.epoch, participant |-> p,
                 boot |-> t.parts[p].live[i].boot, inc |-> t.parts[p].live[i].seq]
<1>9. i \in DOMAIN t.parts[p].live /\ t.parts[p].live[i] = entry
  <2> HIDE DEF part
  <2> QED
    BY <1>4, <1>6, <1>8
<1> HIDE DEF i
<1>10. k \in TokensOf(t)
  BY <1>1, <1>9, TokenEntries
<1>11. k.participant = p /\ k.boot = r.boot /\ k.inc = v
  BY <1>5, <1>9
<1> HIDE DEF k
<1> QED
  BY <1>2, <1>4, <1>7, <1>8, <1>10, <1>11

\* A registration is remembered with the incarnation it issued.
LEMMA RegisterRecalls ==
  ASSUME NEW s, Sound(s), NEW r \in RegisterRequests, RegisterOutcome(s, r) = "Registered"
  PROVE  Recalls(s, RegisterTo(s, r))
<1> DEFINE p == r.participant
           old == s.parts[p]
           u == DisplaceIncumbent(s, s.fences, r)
           t == RegisterTo(s, r)
           v == u.parts[p].next
           d == RegisterDigest(r)
           rec == [attempt |-> r.attempt, sem |-> d, value |-> v]
<1>1. p \in Participants /\ r.attempt \in Attempts /\ d \in Digests
  BY RegisterRequestType
<1>2. Wf(s) /\ PartSound(s, p)
  BY <1>1 DEF Sound
<1>3. ~Attempted(old.idem, r.attempt)
  <2>1. CASE old.status = "unknown"
    <3>1. old.idem = << >>
      BY <1>2, <2>1 DEF PartSound, FreshParticipant
    <3> QED
      BY <3>1 DEF Attempted
  <2>2. CASE old.status # "unknown"
    BY <2>2 DEF RegisterOutcome, RegistrationOutcome, ReplayOutcome
  <2> QED
    BY <2>1, <2>2
<1>4. /\ Wf(u) /\ u.control = s.control
      /\ \A q \in Participants : u.parts[q].idem = s.parts[q].idem
  BY <1>2, DisplaceShape
<1>5. t = AdmitIncarnation(u, r)
  BY DEF RegisterTo
<1> HIDE DEF u, t
<1>6. /\ v \in Nat /\ t.control = u.control
      /\ \A q \in Participants : q # p => t.parts[q].idem = u.parts[q].idem
      /\ t.parts[p].idem = Remember(u.parts[p].idem, r.attempt, RegisterDigest(r), v)
      /\ \E k \in TokensOf(t) : k.participant = p /\ k.boot = r.boot /\ k.inc = v
  BY <1>4, <1>5, AdmitShape
<1>7. d.op = "register" /\ d.boot = r.boot
  BY DEF RegisterDigest
<1>8. rec.sem = d /\ rec.value = v
  OBVIOUS
<1> HIDE DEF v, rec
<1>9. /\ t.control = s.control
      /\ \A q \in Participants : q # p => t.parts[q].idem = s.parts[q].idem
      /\ t.parts[p].idem = Remember(s.parts[p].idem, r.attempt, d, v)
  BY <1>1, <1>4, <1>6
<1> HIDE DEF d, p
<1>10. TrueRecord(t, TokensOf(t), p, rec)
  BY <1>6, <1>7, <1>8 DEF TrueRecord
<1>11. TrueRecord(t, TokensOf(t), p, [attempt |-> r.attempt, sem |-> d, value |-> v])
  BY <1>10 DEF rec
<1>12. v \in Nat /\ ~Attempted(s.parts[p].idem, r.attempt)
  BY <1>3, <1>6
<1>13. Recalls(s, t)
  BY <1>1, <1>9, <1>11, <1>12, RecallsOneMore
<1> QED
  BY <1>13 DEF t

\* An advancement is remembered with the epoch it reached.
LEMMA AdvanceRecalls ==
  ASSUME NEW s, Sound(s), NEW r \in AdvanceRequests, AdvanceOutcome(s, r) = "Advanced"
  PROVE  Recalls(s, AdvanceTo(s, r))
<1> DEFINE m == MutateEpoch(s)
           t == AdvanceTo(s, r)
           v == s.epoch + 1
           d == AdvanceDigest(r)
           rec == [attempt |-> r.attempt, sem |-> d, value |-> v]
           control == Remember(s.control, r.attempt, d, v)
<1>1. /\ Sound(m) /\ Follows(s, m)
      /\ m.epoch = s.epoch + 1 /\ m.control = s.control /\ m.grants = s.grants
      /\ \A p \in Participants : /\ m.parts[p].live = << >>
                                 /\ m.parts[p].idem = s.parts[p].idem
                                 /\ m.parts[p].status = s.parts[p].status
                                 /\ m.parts[p].next = s.parts[p].next
  BY MutateEpochSound
<1>2. t = [m EXCEPT !.control = control]
  BY DEF AdvanceTo
<1>3. r.attempt \in Attempts /\ d \in Digests /\ d.op = "advance"
  BY DEF AdvanceRequests, AdvanceDigest, Digests
<1>4. ~Attempted(s.control, r.attempt)
  BY DEF AdvanceOutcome, ReplayOutcome
<1>5. s.epoch \in Nat
  BY StateFields DEF Sound
<1>6. v \in Nat /\ v <= v
  BY <1>5
<1>7. rec.sem = d /\ rec.value = v
  OBVIOUS
<1> HIDE DEF m, t, d, rec, control
<1>8. t.control = control /\ t.parts = m.parts /\ t.epoch = v
  BY <1>1, <1>2 DEF Sound, Wf, States
<1> HIDE DEF v
<1>9. TrueControl(t, rec)
  BY <1>3, <1>6, <1>7, <1>8 DEF TrueControl
<1>10. TrueControl(t, [attempt |-> r.attempt, sem |-> d, value |-> v])
  BY <1>9 DEF rec
<1>11. /\ t.control = Remember(s.control, r.attempt, d, v)
       /\ \A q \in Participants : t.parts[q].idem = s.parts[q].idem
  BY <1>1, <1>8 DEF control
<1>12. Recalls(s, t)
  BY <1>3, <1>4, <1>6, <1>10, <1>11, RecallsOneMoreControl
<1> QED
  BY <1>12 DEF t

\* A grant is remembered with its identifier.
LEMMA GrantRecalls ==
  ASSUME NEW s, Sound(s), NEW r, NEW id \in Nat,
         r.attempt \in Attempts, r.participant \in Participants, r.boot \in Boots,
         r.inc \in Nat, r.scopes \in SUBSET Scopes, r.parent \in Nat,
         GrantOutcome(s, r) = "Granted",
         NEW t, t = GrantTo(s, r, id)
  PROVE  Recalls(s, t)
<1> DEFINE p == r.participant
           d == GrantDigest(r)
           g == [id |-> id, epoch |-> s.epoch, participant |-> p,
                 boot |-> r.boot, inc |-> r.inc, scopes |-> r.scopes,
                 parent |-> r.parent, gen |-> s.gen + 1, revokedAt |-> 0]
           grants == Append(s.grants, g)
           idem == Remember(s.parts[p].idem, r.attempt, d, id)
           rec == [attempt |-> r.attempt, sem |-> d, value |-> id]
           n == Len(s.grants) + 1
<1>1. /\ Wf(s) /\ s \in States /\ s.parts \in [Participants -> ParticipantRecords]
      /\ s.gen \in Nat /\ s.epoch \in Nat /\ s.grants \in Seq(GrantRecords)
  BY StateFields DEF Sound, Wf
<1>2. ~Attempted(s.parts[p].idem, r.attempt)
  BY DEF GrantOutcome, ReplayOutcome
<1>3. g \in GrantRecords /\ g.id = id
  BY <1>1 DEF GrantRecords
<1>4. d \in Digests /\ d.op = "grant"
  BY DEF GrantDigest, Digests
<1>5. t = [s EXCEPT !.gen = s.gen + 1, !.grants = grants, !.parts[p].idem = idem]
  BY DEF GrantTo
<1>6. rec.sem = d /\ rec.value = id
  OBVIOUS
<1> HIDE DEF g
<1>7. n \in DOMAIN grants /\ grants[n] = g
  BY <1>1, <1>3
<1>8. p \in Participants /\ s.parts[p] \in ParticipantRecords
  BY <1>1
<1> HIDE DEF grants, idem, d, rec, n, p
<1>9. /\ t.grants = grants /\ t.control = s.control
      /\ t.parts = [s.parts EXCEPT ![p].idem = idem]
  BY <1>1, <1>5 DEF States
<1>10. t.parts[p] = [s.parts[p] EXCEPT !.idem = idem]
  BY <1>1, <1>8, <1>9
<1>11. t.parts[p].idem = idem /\ \A q \in Participants : q # p => t.parts[q].idem = s.parts[q].idem
  <2>1. t.parts[p].idem = idem
    BY <1>8, <1>10 DEF ParticipantRecords
  <2> QED
    BY <1>1, <1>9, <2>1
<1>12. n \in GrantAt(t, id)
  BY <1>3, <1>7, <1>9 DEF GrantAt
<1>13. TrueRecord(t, TokensOf(t), p, rec)
  BY <1>4, <1>6, <1>12 DEF TrueRecord
<1>14. TrueRecord(t, TokensOf(t), p, [attempt |-> r.attempt, sem |-> d, value |-> id])
  BY <1>13 DEF rec
<1>15. t.parts[p].idem = Remember(s.parts[p].idem, r.attempt, d, id)
  BY <1>11 DEF idem
<1>16. /\ p \in Participants /\ t.control = s.control
       /\ \A q \in Participants : q # p => t.parts[q].idem = s.parts[q].idem
       /\ t.parts[p].idem = Remember(s.parts[p].idem, r.attempt, d, id)
  BY <1>8, <1>9, <1>11, <1>15
<1> QED
  BY <1>2, <1>4, <1>14, <1>16, RecallsOneMore

\* A revocation is remembered only with the grant it revoked.
LEMMA RevokeRecalls ==
  ASSUME NEW s, Sound(s), s.epoch # 0, NEW r,
         r.attempt \in Attempts, r.grant \in Nat, r.reason \in Reasons,
         RevokeOutcome(s, r) = "Revoked",
         NEW t, t = RevokeTo(s, r)
  PROVE  Recalls(s, t)
<1> DEFINE gs == s.grants
           root == GrantAt(s, r.grant)
           down == Cascade(s, r)
           marked == [i \in DOMAIN gs |->
                       [gs[i] EXCEPT !.revokedAt = IF i \in down THEN s.epoch ELSE @,
                                     !.gen = IF i \in root THEN s.gen + 1 ELSE @]]
           d == RevokeDigest(r)
           v == s.gen + 1
           control == Remember(s.control, r.attempt, d, v)
           rec == [attempt |-> r.attempt, sem |-> d, value |-> v]
<1>1. /\ Wf(s) /\ s \in States /\ s.gen \in Nat /\ s.epoch \in Nat
      /\ s.grants \in Seq(GrantRecords)
  BY StateFields DEF Sound, Wf
<1>2. root # {} /\ ~Attempted(s.control, r.attempt)
  BY DEF RevokeOutcome, ReplayOutcome
<1>3. PICK i \in root : TRUE
  BY <1>2
<1>4. i \in DOMAIN gs /\ gs[i] \in GrantRecords /\ gs[i].id = r.grant
  BY <1>1, <1>3 DEF GrantAt
<1>5. i \in down
  BY <1>3, <1>4 DEF Cascade, Descend
<1>6. marked[i].id = r.grant /\ marked[i].revokedAt = s.epoch
  <2>1. marked[i] = [gs[i] EXCEPT !.revokedAt = s.epoch, !.gen = s.gen + 1]
    BY <1>3, <1>4, <1>5
  <2> HIDE DEF marked
  <2> QED
    BY <1>4, <2>1 DEF GrantRecords
<1>7. DOMAIN marked = DOMAIN gs
  OBVIOUS
<1>8. d \in Digests /\ d.op = "revoke" /\ d.grant = r.grant
  BY DEF RevokeDigest, Digests
<1>9. t = [s EXCEPT !.gen = v, !.grants = marked, !.control = control]
  BY DEF RevokeTo
<1>10. rec.sem = d /\ rec.value = v /\ v \in Nat
  BY <1>1
<1> HIDE DEF marked, d, v, control, rec
<1>11. t.grants = marked /\ t.control = control /\ t.parts = s.parts
  BY <1>1, <1>9 DEF States
<1>12. i \in GrantAt(t, r.grant) /\ Revoked(t.grants[i])
  BY <1>4, <1>6, <1>7, <1>11 DEF GrantAt, Revoked
<1>13. TrueControl(t, rec)
  BY <1>8, <1>10, <1>12 DEF TrueControl
<1>14. TrueControl(t, [attempt |-> r.attempt, sem |-> d, value |-> v])
  BY <1>13 DEF rec
<1>15. t.control = Remember(s.control, r.attempt, d, v)
  BY <1>11 DEF control
<1> QED
  BY <1>2, <1>8, <1>10, <1>11, <1>14, <1>15, RecallsOneMoreControl

\* A retirement is remembered by a participant that is retired.
LEMMA RetireRecalls ==
  ASSUME NEW s, Sound(s), NEW r \in RetireRequests, RetireOutcome(s, r) = "Retired",
         NEW t, t = RetireTo(s, r)
  PROVE  Recalls(s, t)
<1> DEFINE p == r.participant
           part == s.parts[p]
           d == RetireDigest(r)
           v == Len(part.live)
           rec == [attempt |-> r.attempt, sem |-> d, value |-> v]
<1>1. /\ Wf(s) /\ s \in States /\ s.parts \in [Participants -> ParticipantRecords]
      /\ r.attempt \in Attempts /\ p \in Participants
  BY StateFields DEF Sound, Wf, RetireRequests
<1>2. part \in ParticipantRecords /\ part.live \in Seq(Incarnations) /\ v \in Nat
  <2>1. part \in ParticipantRecords /\ part.live \in Seq(Incarnations)
    BY <1>1, PartFields
  <2> HIDE DEF part
  <2> QED
    BY <2>1
<1>3. ~Attempted(part.idem, r.attempt)
  BY DEF RetireOutcome, ReplayOutcome
<1>4. d \in Digests /\ d.op = "retire"
  BY <1>1 DEF RetireDigest, Digests
<1>5. /\ t.control = s.control
      /\ \A q \in Participants : q # p => t.parts[q] = s.parts[q]
      /\ t.parts[p].status = "retired"
      /\ t.parts[p].idem = Remember(part.idem, r.attempt, d, v)
  <2> DEFINE victims == Select(part.live, RetireVictims(s, p))
             spared == Select(part.live, DOMAIN part.live \ RetireVictims(s, p))
             n == Len(victims)
             ring == Retain(part.ring \o [i \in 1..n |-> victims[i].boot], MaxFencedBoots)
             fences == Retain(s.fences \o [i \in 1..n |->
                                            [boot |-> victims[i].boot, participant |-> p,
                                             gen |-> s.fenceFloor + i, epoch |-> s.epoch,
                                             inc |-> victims[i].seq]],
                              MaxRecentFences)
             idem == Remember(part.idem, r.attempt, d, v)
             floor == MaxOf(part.floor, part.next - 1)
             fenceGen == IF n = 0 THEN part.fenceGen ELSE s.fenceFloor + n
             new == [part EXCEPT !.status = "retired", !.reval = FALSE, !.floor = floor,
                                 !.fenceGen = fenceGen, !.live = spared, !.ring = ring,
                                 !.idem = idem]
  <2>1. t = [s EXCEPT !.gen = s.gen + n + 1, !.fenceFloor = s.fenceFloor + n,
                      !.fences = fences, !.parts = [s.parts EXCEPT ![p] = new]]
    BY DEF RetireTo
  <2> HIDE DEF part, spared, ring, idem, floor, fenceGen, n, fences
  <2>2. new.status = "retired" /\ new.idem = idem
    BY <1>2 DEF ParticipantRecords
  <2> HIDE DEF new
  <2>3. t.control = s.control /\ t.parts = [s.parts EXCEPT ![p] = new]
    BY <1>1, <2>1 DEF States
  <2>4. t.parts[p] = new /\ \A q \in Participants : q # p => t.parts[q] = s.parts[q]
    BY <1>1, <2>3
  <2> QED
    BY <2>2, <2>3, <2>4 DEF idem
<1>6. rec.sem = d /\ rec.value = v
  OBVIOUS
<1> HIDE DEF d, v, rec
<1>7. TrueRecord(t, TokensOf(t), p, rec)
  BY <1>4, <1>5, <1>6 DEF TrueRecord
<1>8. TrueRecord(t, TokensOf(t), p, [attempt |-> r.attempt, sem |-> d, value |-> v])
  BY <1>7 DEF rec
<1>9. ~Attempted(s.parts[p].idem, r.attempt) /\ t.parts[p].idem = Remember(s.parts[p].idem, r.attempt, d, v)
  BY <1>3, <1>5
<1>10. \A q \in Participants : q # p => t.parts[q].idem = s.parts[q].idem
  BY <1>5
<1> HIDE DEF p, part
<1> QED
  BY <1>1, <1>2, <1>4, <1>5, <1>8, <1>9, <1>10, RecallsOneMore

-----------------------------------------------------------------------------
(* Steps of the process. *)

\* The step from one state of the process to the next, as the properties see
\* it: the invariant, a durable image that loses nothing, remembers only what
\* is so and keeps track of the incarnations that have grants, and no session
\* lost without the fence of its incarnation.
Keeps ==
  /\ AInv'
  /\ Follows(disk, disk') /\ Recalls(disk, disk') /\ Tracks(disk, disk')
  /\ issued \subseteq issued'
  /\ (issued' = issued /\ disk' = disk) \/ TokensOf(disk') \subseteq issued'
  /\ \A b \in sessions \ sessions' :
       FenceOnSessionLoss /\ up' =>
         <<b.token.participant, b.token.boot, b.token.inc>> \notin Live(mem')

\* The invariant holds of a store that was never established.
LEMMA InitAuthority == Init => AInv
<1> SUFFICES ASSUME Init PROVE AInv
  OBVIOUS
<1>1. Sound(InitialState)
  BY InitialIsSound
<1>2. IInv
  BY InitInv
<1>3. \A p \in Participants : InitialState.parts[p].live = << >>
  BY DEF InitialState, FreshParticipant
<1>4. InitialState.grants = << >>
  BY DEF InitialState
<1>5. TokensOf(InitialState) = {}
  <2> SUFFICES ASSUME NEW k \in TokensOf(InitialState) PROVE FALSE
    OBVIOUS
  <2>1. \E p \in Participants : \E i \in DOMAIN InitialState.parts[p].live : TRUE
    BY TokenEntries
  <2> QED
    BY <1>3, <2>1
<1>6. Issued(issued, disk) /\ Numbered(disk, minted)
  BY <1>4, <1>5 DEF Init, Issued, Numbered
<1> QED
  BY <1>1, <1>2, <1>6 DEF Init, AInv

\* What is durable after a step, when it is sound and follows the image before.
LEMMA ImageKept ==
  ASSUME AInv, IInv', Sound(disk'), Follows(disk, disk'), up' => disk'.epoch # 0,
         mem' = (IF up' THEN disk' ELSE InitialState),
         Numbered(disk', minted'),
         issued' = issued \cup TokensOf(disk') \/ (issued' = issued /\ disk' = disk)
  PROVE  AInv'
<1>1. Sound(disk) /\ Issued(issued, disk) /\ issued \in SUBSET Tokens
  BY DEF AInv, IInv, TypeOK
<1>2. Issued(issued', disk')
  <2>1. CASE issued' = issued /\ disk' = disk
    BY <1>1, <2>1
  <2>2. CASE issued' = issued \cup TokensOf(disk')
    <3> DEFINE t == disk'
    <3>1. Sound(t) /\ Follows(disk, t)
      OBVIOUS
    <3> HIDE DEF t
    <3>2. Issued(issued \cup TokensOf(t), t)
      BY <1>1, <3>1, IssuedGrows
    <3> QED
      BY <2>2, <3>2 DEF t
  <2> QED
    BY <2>1, <2>2
<1> QED
  BY <1>2 DEF AInv

\* The durability barrier keeps the invariant when the process lives through
\* the save or dies in it: durable validation accepts what a sound operation
\* built, so that the undo log never runs.
LEMMA SaveAuthority ==
  ASSUME OneByOne, AInv, IInv', up, NEW io \in {"ok", "crash"},
         NEW t, Sound(t), Follows(mem, t), Recalls(mem, t) /\ Tracks(mem, t), NEW undone, NEW kept,
         Save(t, undone, kept, io), Numbered(t, minted')
  PROVE  /\ AInv' /\ Follows(disk, disk') /\ Recalls(disk, disk') /\ Tracks(disk, disk')
         /\ issued' = issued \cup TokensOf(disk')
         /\ up' => mem' = t /\ sessions' = kept
<1>1. mem = disk /\ disk.epoch # 0 /\ disk.epoch \in Nat
  BY StateFields DEF AInv, Sound
<1>2. t.epoch \in Nat /\ t.epoch # 0
  <2>1. t.epoch \in Nat /\ t.epoch >= disk.epoch
    BY <1>1, StateFields DEF Sound, Follows
  <2> QED
    BY <1>1, <2>1
<1>3. Valid(t)
  BY <1>2, SoundIsValid
<1>4. /\ Show
      /\ Commit(t, kept) \/ DieInSave(t)
  BY <1>3 DEF Save
<1>5. CASE Commit(t, kept)
  <2>1. mem' = t /\ disk' = t /\ sessions' = kept /\ up'
    BY <1>5 DEF Commit
  <2>2. issued' = issued \cup TokensOf(disk')
    BY <1>4, <2>1 DEF Show
  <2>3. AInv'
    BY <1>1, <1>2, <2>1, <2>2, ImageKept
  <2> QED
    BY <1>1, <2>1, <2>2, <2>3
<1>6. CASE DieInSave(t)
  <2>1. mem' = InitialState /\ disk' = t /\ ~up'
    BY <1>6 DEF DieInSave
  <2>2. issued' = issued \cup TokensOf(disk')
    BY <1>4, <2>1 DEF Show
  <2>3. AInv'
    BY <1>1, <1>2, <2>1, <2>2, ImageKept
  <2> QED
    BY <1>1, <2>1, <2>2, <2>3
<1> QED
  BY <1>4, <1>5, <1>6

\* Registering, fencing and retiring leave the grants alone.
LEMMA GrantsUntouched ==
  ASSUME NEW s, Wf(s)
  PROVE  /\ \A p \in Participants, b \in Boots : RecordFence(s, p, b).grants = s.grants
         /\ \A r \in RegisterRequests : RegisterTo(s, r).grants = s.grants
         /\ \A r \in FenceRequests : FenceTo(s, r).grants = s.grants
         /\ \A r \in RetireRequests : RetireTo(s, r).grants = s.grants
         /\ \A r \in AdvanceRequests : AdvanceTo(s, r).grants = s.grants
<1>1. \A u, p, b : u \in States => FenceIncarnation(u, p, b).grants = u.grants
  BY DEF FenceIncarnation, States
<1>2. \A u, p, b : u \in States => FencePreventively(u, p, b).grants = u.grants
  BY DEF FencePreventively, States
<1>3. \A u, p, b : u \in States => RecordFence(u, p, b).grants = u.grants
  BY <1>1, <1>2 DEF RecordFence
<1>4. \A u, r : u \in States => AdmitIncarnation(u, r).grants = u.grants
  BY DEF AdmitIncarnation, States
<1>5. s \in States
  BY DEF Wf
<1>6. \A r \in RegisterRequests : RegisterTo(s, r).grants = s.grants
  <2> SUFFICES ASSUME NEW r \in RegisterRequests PROVE RegisterTo(s, r).grants = s.grants
    OBVIOUS
  <2> DEFINE d == DisplaceIncumbent(s, s.fences, r)
  <2>1. d \in States
    BY DisplaceIncumbentType DEF Wf
  <2>2. d.grants = s.grants
    BY <1>1, <1>5 DEF DisplaceIncumbent
  <2> HIDE DEF d
  <2> QED
    BY <1>4, <2>1, <2>2 DEF RegisterTo, d
<1>7. \A r \in FenceRequests : FenceTo(s, r).grants = s.grants
  BY <1>3, <1>5 DEF FenceTo
<1>8. \A r \in RetireRequests : RetireTo(s, r).grants = s.grants
  BY <1>5 DEF RetireTo, States
<1>9. \A r \in AdvanceRequests : AdvanceTo(s, r).grants = s.grants
  BY <1>5 DEF AdvanceTo, MutateEpoch, States
<1> QED
  BY <1>3, <1>5, <1>6, <1>7, <1>8, <1>9

\* Each operation the runtime accepts builds a sound, later state, with the
\* grants it had and at most the one whose identifier was just generated.
LEMMA OperationsSound ==
  ASSUME AInv, up
  PROVE  /\ \A r \in RegisterRequests : RegisterOutcome(mem, r) = "Registered" =>
              LET t == RegisterTo(mem, r) IN
              Sound(t) /\ Follows(mem, t) /\ Recalls(mem, t) /\ Tracks(mem, t) /\ Numbered(t, minted)
         /\ \A r \in FenceRequests : FenceOutcome(mem, r) = "Fenced" =>
              LET t == FenceTo(mem, r) IN
              Sound(t) /\ Follows(mem, t) /\ Recalls(mem, t) /\ Tracks(mem, t) /\ Numbered(t, minted)
         /\ \A r \in AdvanceRequests : AdvanceOutcome(mem, r) = "Advanced" =>
              LET t == AdvanceTo(mem, r) IN
              Sound(t) /\ Follows(mem, t) /\ Recalls(mem, t) /\ Tracks(mem, t) /\ Numbered(t, minted)
         /\ \A r \in GrantRequests : GrantOutcome(mem, r) = "Granted" =>
              LET t == GrantTo(mem, r, minted + 1) IN
              Sound(t) /\ Follows(mem, t) /\ Recalls(mem, t) /\ Tracks(mem, t) /\ Numbered(t, minted + 1)
         /\ \A r \in RevokeRequests : RevokeOutcome(mem, r) = "Revoked" =>
              LET t == RevokeTo(mem, r) IN
              Sound(t) /\ Follows(mem, t) /\ Recalls(mem, t) /\ Tracks(mem, t) /\ Numbered(t, minted)
         /\ \A r \in RetireRequests : RetireOutcome(mem, r) = "Retired" =>
              LET t == RetireTo(mem, r) IN
              Sound(t) /\ Follows(mem, t) /\ Recalls(mem, t) /\ Tracks(mem, t) /\ Numbered(t, minted)
<1>1. /\ mem = disk /\ Sound(mem) /\ Wf(mem) /\ mem.epoch # 0 /\ Numbered(mem, minted)
      /\ minted \in Nat /\ issued \in SUBSET Tokens
  BY DEF AInv, IInv, TypeOK, Sound
<1>2. ASSUME NEW t, t.grants = mem.grants PROVE Numbered(t, minted)
  BY <1>1, <1>2 DEF Numbered
<1>3. ASSUME NEW r \in RegisterRequests, RegisterOutcome(mem, r) = "Registered"
      PROVE  LET t == RegisterTo(mem, r) IN
             Sound(t) /\ Follows(mem, t) /\ Recalls(mem, t) /\ Tracks(mem, t) /\ Numbered(t, minted)
  <2>1. RegisterTo(mem, r).grants = mem.grants
    BY <1>1, GrantsUntouched
  <2>2. Numbered(RegisterTo(mem, r), minted)
    BY <1>2, <2>1
  <2> QED
    BY <1>1, <1>3, <2>2, RegisterSound, RegisterRecalls, RegisterTracks
<1>4. ASSUME NEW r \in FenceRequests, FenceOutcome(mem, r) = "Fenced"
      PROVE  LET t == FenceTo(mem, r) IN
             Sound(t) /\ Follows(mem, t) /\ Recalls(mem, t) /\ Tracks(mem, t) /\ Numbered(t, minted)
  <2>1. FenceTo(mem, r).grants = mem.grants
    BY <1>1, GrantsUntouched
  <2>2. Numbered(FenceTo(mem, r), minted)
    BY <1>2, <2>1
  <2> QED
    BY <1>1, <1>4, <2>2, FenceSound, FenceRecalls, FenceTracks
<1>5. ASSUME NEW r \in AdvanceRequests, AdvanceOutcome(mem, r) = "Advanced"
      PROVE  LET t == AdvanceTo(mem, r) IN
             Sound(t) /\ Follows(mem, t) /\ Recalls(mem, t) /\ Tracks(mem, t) /\ Numbered(t, minted)
  <2>1. AdvanceTo(mem, r).grants = mem.grants
    BY <1>1, GrantsUntouched
  <2>2. Numbered(AdvanceTo(mem, r), minted)
    BY <1>2, <2>1
  <2> QED
    BY <1>1, <1>5, <2>2, AdvanceSound, AdvanceRecalls, AdvanceTracks
<1>6. ASSUME NEW r \in GrantRequests, GrantOutcome(mem, r) = "Granted"
      PROVE  LET t == GrantTo(mem, r, minted + 1) IN
             Sound(t) /\ Follows(mem, t) /\ Recalls(mem, t) /\ Tracks(mem, t) /\ Numbered(t, minted + 1)
  <2> DEFINE id == minted + 1
             t == GrantTo(mem, r, id)
  <2>1. /\ r.attempt \in Attempts /\ r.participant \in Participants /\ r.boot \in Boots
        /\ r.inc \in Nat /\ r.scopes \in SUBSET Scopes /\ r.parent \in 0..minted
    <3>1. PICK a \in Attempts, k \in issued, sc \in OfferedScopes, e \in Epochs, g \in 0..minted :
            r = [attempt |-> a, participant |-> k.participant, boot |-> k.boot, inc |-> k.inc,
                 scopes |-> sc, epoch |-> e, parent |-> g]
      BY DEF GrantRequests
    <3>2. k.participant \in Participants /\ k.boot \in Boots /\ k.inc \in Nat
      BY <1>1 DEF Tokens
    <3>3. sc \in SUBSET Scopes
      BY RuntimeAssumption
    <3> QED
      BY <3>1, <3>2, <3>3
  <2>2. r.parent \in Nat /\ id \in Nat /\ r.parent # id
    BY <1>1, <2>1
  <2>3. \A i \in DOMAIN mem.grants : mem.grants[i].id \in 1..minted /\ mem.grants[i].id # id
    BY <1>1 DEF Numbered
  <2>4. 1..minted \subseteq 1..id /\ id \in 1..id
    BY <1>1
  <2>5. t = GrantTo(mem, r, id)
    OBVIOUS
  <2> HIDE DEF id, t
  <2>6. /\ Sound(t) /\ Follows(mem, t)
        /\ \A i \in DOMAIN t.grants :
             t.grants[i].id = id \/ \E j \in DOMAIN mem.grants : mem.grants[j].id = t.grants[i].id
    BY <1>1, <1>6, <2>1, <2>2, <2>3, <2>5, GrantSound
  <2>7. Numbered(t, id)
    BY <2>3, <2>4, <2>6 DEF Numbered
  <2>8. Recalls(mem, t) /\ Tracks(mem, t)
    BY <1>1, <1>6, <2>1, <2>2, <2>5, GrantRecalls, GrantTracks
  <2> QED
    BY <2>6, <2>7, <2>8 DEF t, id
<1>7. ASSUME NEW r \in RevokeRequests, RevokeOutcome(mem, r) = "Revoked"
      PROVE  LET t == RevokeTo(mem, r) IN
             Sound(t) /\ Follows(mem, t) /\ Recalls(mem, t) /\ Tracks(mem, t) /\ Numbered(t, minted)
  <2> DEFINE t == RevokeTo(mem, r)
  <2>1. r.attempt \in Attempts /\ r.grant \in Nat /\ r.reason \in Reasons
    BY <1>1 DEF RevokeRequests
  <2>2. t = RevokeTo(mem, r)
    OBVIOUS
  <2> HIDE DEF t
  <2>3. /\ Sound(t) /\ Follows(mem, t)
        /\ \A i \in DOMAIN t.grants : \E j \in DOMAIN mem.grants : mem.grants[j].id = t.grants[i].id
    BY <1>1, <1>7, <2>1, <2>2, RevokeSound
  <2>4. Numbered(t, minted)
    BY <1>1, <2>3 DEF Numbered
  <2>5. Recalls(mem, t) /\ Tracks(mem, t)
    BY <1>1, <1>7, <2>1, <2>2, RevokeRecalls, RevokeTracks
  <2> QED
    BY <2>3, <2>4, <2>5 DEF t
<1>8. ASSUME NEW r \in RetireRequests, RetireOutcome(mem, r) = "Retired"
      PROVE  LET t == RetireTo(mem, r) IN
             Sound(t) /\ Follows(mem, t) /\ Recalls(mem, t) /\ Tracks(mem, t) /\ Numbered(t, minted)
  <2>1. RetireTo(mem, r).grants = mem.grants
    BY <1>1, GrantsUntouched
  <2>2. Numbered(RetireTo(mem, r), minted)
    BY <1>2, <2>1
  <2> QED
    BY <1>1, <1>8, <2>2, RetireSound, RetireRecalls, RetireTracks
<1> QED
  BY <1>3, <1>4, <1>5, <1>6, <1>7, <1>8

\* Every step of a process whose saves do not fail keeps the invariant and
\* loses nothing that is durable.  One step per action; an operation is
\* reduced to SaveAuthority by OperationsSound.
LEMMA StepAuthority ==
  ASSUME OneByOne, AInv, Next \/ UNCHANGED vars
  PROVE  Keeps
<1>1. /\ Sound(disk) /\ Wf(disk) /\ Numbered(disk, minted) /\ Issued(issued, disk)
      /\ (up => disk.epoch # 0) /\ mem = (IF up THEN disk ELSE InitialState)
      /\ minted \in Nat /\ sessions \in SUBSET Bindings
      /\ Follows(disk, disk) /\ Recalls(disk, disk) /\ Tracks(disk, disk)
  <2>1. Sound(disk) /\ Wf(disk)
    BY DEF AInv, Sound
  <2>2. Follows(disk, disk)
    BY <2>1, FollowsItself
  <2>3. Recalls(disk, disk) /\ Tracks(disk, disk)
    BY RecallsAlike, TracksItself
  <2> QED
    BY <2>1, <2>2, <2>3 DEF AInv, IInv, TypeOK
<1>2. IInv'
  BY StepInv DEF AInv, Next
<1>3. ASSUME UNCHANGED vars PROVE Keeps
  BY <1>1, <1>2, <1>3 DEF vars, Keeps, AInv
<1>4. ASSUME up, NEW io \in {"ok", "crash"}, NEW t, Sound(t), Follows(mem, t), Recalls(mem, t) /\ Tracks(mem, t),
             NEW undone, Save(t, undone, sessions, io), Numbered(t, minted')
      PROVE  Keeps
  <2>1. /\ AInv' /\ Follows(disk, disk') /\ Recalls(disk, disk') /\ Tracks(disk, disk')
        /\ issued' = issued \cup TokensOf(disk')
        /\ up' => mem' = t /\ sessions' = sessions
    BY <1>2, <1>4, SaveAuthority
  <2> QED
    BY <2>1 DEF Keeps
<1>5. ASSUME Crash PROVE Keeps
  <2>1. /\ ~up' /\ mem' = InitialState /\ disk' = disk /\ issued' = issued /\ minted' = minted
    BY <1>5 DEF Crash
  <2> QED
    BY <1>1, <1>2, <2>1 DEF Keeps, AInv
<1>6. ASSUME NEW id \in SessionIds, NEW k \in issued, BindSession(id, k) PROVE Keeps
  <2>1. CASE UNCHANGED vars
    BY <1>3, <2>1
  <2>2. CASE /\ sessions' = sessions \cup {[id |-> id, token |-> k]}
             /\ UNCHANGED <<up, mem, disk, watermark, minted, issued, exposed>>
    <3>1. sessions \ sessions' = {}
      BY <2>2
    <3> QED
      BY <1>1, <1>2, <2>2, <3>1 DEF Keeps, AInv
  <2> QED
    BY <1>6, <2>1, <2>2 DEF BindSession
<1>7. ASSUME NEW io \in {"ok", "crash"}, NEW r \in RegisterRequests, Register(r, io) PROVE Keeps
  <2>1. CASE Answer(io)
    BY <1>3, <2>1 DEF Answer
  <2>2. CASE /\ up /\ RegisterOutcome(mem, r) = "Registered"
             /\ Save(RegisterTo(mem, r), RegisterUndo(mem, r), sessions, io)
             /\ UNCHANGED minted
    BY <1>4, <2>2, OperationsSound
  <2> QED
    BY <1>7, <2>1, <2>2 DEF Register
<1>8. ASSUME NEW io, NEW batch \in BatchRequests, RegisterBatch(batch, io) PROVE Keeps
  BY DEF OneByOne, BatchRequests
<1>9. ASSUME NEW io \in {"ok", "crash"}, NEW r \in FenceRequests, FenceWorker(r, io) PROVE Keeps
  <2>1. CASE Answer(io)
    BY <1>3, <2>1 DEF Answer
  <2>2. CASE /\ up /\ FenceOutcome(mem, r) = "Fenced"
             /\ Save(FenceTo(mem, r), FenceUndo(mem, r), sessions, io)
             /\ UNCHANGED minted
    BY <1>4, <2>2, OperationsSound
  <2> QED
    BY <1>9, <2>1, <2>2 DEF FenceWorker
<1>10. ASSUME NEW io \in {"ok", "crash"}, NEW r \in AdvanceRequests, AdvanceEpoch(r, io) PROVE Keeps
  <2>1. CASE Answer(io)
    BY <1>3, <2>1 DEF Answer
  <2>2. CASE /\ up /\ AdvanceOutcome(mem, r) = "Advanced"
             /\ Save(AdvanceTo(mem, r), AdvanceUndo(mem, r), sessions, io)
             /\ UNCHANGED minted
    BY <1>4, <2>2, OperationsSound
  <2> QED
    BY <1>10, <2>1, <2>2 DEF AdvanceEpoch
<1>11. ASSUME NEW io \in {"ok", "crash"}, NEW r \in GrantRequests, GrantAuthority(r, io) PROVE Keeps
  <2>1. CASE Answer(io)
    BY <1>3, <2>1 DEF Answer
  <2>2. CASE /\ up /\ GrantOutcome(mem, r) = "Granted"
             /\ Save(GrantTo(mem, r, minted + 1), GrantUndo(mem, r, minted + 1), sessions, io)
             /\ minted' = minted + 1
    BY <1>4, <2>2, OperationsSound
  <2> QED
    BY <1>11, <2>1, <2>2 DEF GrantAuthority
<1>12. ASSUME NEW io \in {"ok", "crash"}, NEW r \in RevokeRequests, RevokeAuthority(r, io)
       PROVE  Keeps
  <2>1. CASE Answer(io)
    BY <1>3, <2>1 DEF Answer
  <2>2. CASE /\ up /\ RevokeOutcome(mem, r) = "Revoked"
             /\ Save(RevokeTo(mem, r), RevokeUndo(mem, r), sessions, io)
             /\ UNCHANGED minted
    BY <1>4, <2>2, OperationsSound
  <2> QED
    BY <1>12, <2>1, <2>2 DEF RevokeAuthority
<1>13. ASSUME NEW io \in {"ok", "crash"}, NEW r \in RetireRequests, RetireParticipant(r, io)
       PROVE  Keeps
  <2>1. CASE Answer(io)
    BY <1>3, <2>1 DEF Answer
  <2>2. CASE /\ up /\ RetireOutcome(mem, r) = "Retired"
             /\ Save(RetireTo(mem, r), RetireUndo(mem, r), sessions, io)
             /\ UNCHANGED minted
    BY <1>4, <2>2, OperationsSound
  <2> QED
    BY <1>13, <2>1, <2>2 DEF RetireParticipant
<1>14. ASSUME NEW io \in {"ok", "crash"}, NEW b \in sessions, CloseSession(b, io) PROVE Keeps
  <2> DEFINE p == b.token.participant
             boot == b.token.boot
             t == RecordFence(mem, p, boot)
             undone == [mem EXCEPT !.fences = Truncate(t.fences, Len(mem.fences))]
             kept == sessions \ {b}
             fences == /\ FenceOnSessionLoss
                       /\ IsLive(mem.parts[p], boot)
                       /\ RecordFenceOutcome(mem, p, boot, FALSE) = "Fenced"
  <2>1. up /\ mem = disk /\ p \in Participants /\ boot \in Boots
    BY <1>1, <1>14 DEF CloseSession, Bindings, Tokens
  <2>2. ASSUME NEW s, ~IsLive(s.parts[p], boot) PROVE <<p, boot, b.token.inc>> \notin Live(s)
    <3> SUFFICES ASSUME <<p, boot, b.token.inc>> \in Live(s) PROVE FALSE
      OBVIOUS
    <3>1. PICK q \in Participants : \E i \in DOMAIN s.parts[q].live :
            <<p, boot, b.token.inc>> = <<q, s.parts[q].live[i].boot, s.parts[q].live[i].seq>>
      BY DEF Live
    <3> QED
      BY <2>2, <3>1 DEF IsLive
  <2>3. CASE /\ fences
             /\ Save(t, undone, kept, io)
             /\ UNCHANGED minted
    <3>1. /\ Sound(t) /\ Follows(mem, t)
          /\ t.parts[p].idem = mem.parts[p].idem
          /\ t.parts[p].status # "unknown"
          /\ ~IsLive(t.parts[p], boot)
      BY <1>1, <2>1, <2>3, RecordFenceSound
    <3>2. t.grants = mem.grants
      BY <1>1, <2>1, GrantsUntouched
    <3> HIDE DEF t, undone, kept, p, boot
    <3>3. Numbered(t, minted')
      BY <1>1, <2>1, <2>3, <3>2 DEF Numbered
    <3>3a. Recalls(mem, t) /\ Tracks(mem, t)
      <4>1. /\ t.control = mem.control
            /\ \A q \in Participants : /\ t.parts[q].idem = mem.parts[q].idem
                                        /\ t.parts[q].next = mem.parts[q].next
        BY <1>1, <2>1, RecordFenceShape DEF t
      <4>2. Tracks(mem, t) /\ t.epoch = mem.epoch /\ t.grants = mem.grants
        BY <1>1, <2>1, RecordFenceTracks DEF t
      <4> QED
        BY <4>1, <4>2, RecallsAlike
    <3>4. /\ AInv' /\ Follows(disk, disk') /\ Recalls(disk, disk') /\ Tracks(disk, disk')
          /\ issued' = issued \cup TokensOf(disk')
          /\ up' => mem' = t /\ sessions' = kept
      BY <1>2, <2>1, <2>3, <3>1, <3>3, <3>3a, SaveAuthority
    <3>5. ASSUME NEW c \in sessions \ sessions', up' PROVE c = b /\ mem' = t
      BY <3>4, <3>5 DEF kept
    <3>6. <<p, boot, b.token.inc>> \notin Live(t)
      BY <2>2, <3>1
    <3> QED
      BY <3>4, <3>5, <3>6 DEF Keeps, p, boot
  <2>4. CASE /\ ~fences
             /\ sessions' = kept
             /\ UNCHANGED <<up, mem, disk, watermark, minted, issued, exposed>>
    <3>1. /\ AInv' /\ Follows(disk, disk') /\ Recalls(disk, disk') /\ Tracks(disk, disk')
          /\ issued' = issued /\ disk' = disk
      BY <1>1, <1>2, <2>4 DEF AInv
    <3>2. ASSUME FenceOnSessionLoss PROVE ~IsLive(mem.parts[p], boot)
      <4> SUFFICES ASSUME IsLive(mem.parts[p], boot) PROVE FALSE
        OBVIOUS
      <4>1. PartSound(mem, p) /\ NoFencedLive(mem)
        BY <1>1, <2>1, SoundIsFenced DEF Sound
      <4>2. PICK i \in DOMAIN mem.parts[p].live : mem.parts[p].live[i].boot = boot
        BY DEF IsLive
      <4>3. ~LookupFence(mem, p, boot)
        BY <2>1, <4>1, <4>2 DEF NoFencedLive
      <4>4. mem.parts[p].status # "unknown"
        <5>1. FreshParticipant.live = << >>
          BY DEF FreshParticipant
        <5>2. mem.parts[p].live # << >>
          BY <4>2
        <5> QED
          BY <4>1, <5>1, <5>2 DEF PartSound
      <4>5. RecordFenceOutcome(mem, p, boot, FALSE) = "Fenced"
        BY <4>3, <4>4 DEF RecordFenceOutcome
      <4> QED
        BY <2>4, <3>2, <4>5
    <3>3. ASSUME FenceOnSessionLoss PROVE <<p, boot, b.token.inc>> \notin Live(mem)
      BY <2>2, <3>2, <3>3
    <3>4. \A c \in sessions \ sessions' : c = b
      BY <2>4
    <3> QED
      BY <2>4, <3>1, <3>3, <3>4 DEF Keeps
  <2> QED
    BY <1>14, <2>3, <2>4 DEF CloseSession
<1>15. ASSUME NEW io \in {"ok", "crash"}, Open(io) PROVE Keeps
  <2>1. CASE OpenRefused
    BY <1>3, <2>1 DEF OpenRefused
  <2> DEFINE t == MutateEpoch(disk)
  <2>2. /\ Sound(t) /\ Follows(disk, t)
        /\ t.epoch = disk.epoch + 1 /\ t.control = disk.control /\ t.grants = disk.grants
        /\ \A p \in Participants : /\ t.parts[p].live = << >>
                                   /\ t.parts[p].idem = disk.parts[p].idem
                                   /\ t.parts[p].status = disk.parts[p].status
                                   /\ t.parts[p].next = disk.parts[p].next
    BY <1>1, MutateEpochSound
  <2>3. Numbered(t, minted)
    BY <1>1, <2>2 DEF Numbered
  <2>4. t.epoch # 0
    <3>1. disk.epoch \in Nat
      BY <1>1, StateFields
    <3> QED
      BY <2>2, <3>1
  <2> HIDE DEF t
  <2>4a. Recalls(disk, t) /\ Tracks(disk, t)
    <3>1. Tracks(disk, t) /\ \A p \in Participants : t.parts[p].ring = disk.parts[p].ring
      BY <1>1, MutateEpochTracks DEF t
    <3> QED
      BY <2>2, <3>1, RecallsAlike
  <2>5. CASE OpenKeeping /\ Show /\ UNCHANGED minted /\ ~up
    <3>1. /\ up' = TRUE /\ mem' = disk /\ disk' = disk /\ sessions' = sessions /\ disk.epoch # 0
      BY <2>5 DEF OpenKeeping
    <3>2. issued' = issued \cup TokensOf(disk')
      BY <2>5, <3>1 DEF Show
    <3>3. AInv'
      BY <1>1, <1>2, <2>5, <3>1, <3>2, ImageKept
    <3> QED
      BY <1>1, <3>1, <3>2, <3>3 DEF Keeps
  <2>6. CASE OpenAdvancing(io) /\ Show /\ UNCHANGED minted /\ ~up
    <3>1. CASE up' = TRUE /\ mem' = t /\ disk' = t /\ UNCHANGED sessions
      <4>1. issued' = issued \cup TokensOf(disk')
        BY <2>6, <3>1 DEF Show
      <4>2. AInv'
        BY <1>2, <2>2, <2>3, <2>4, <2>6, <3>1, <4>1, ImageKept
      <4> QED
        BY <2>2, <2>4a, <3>1, <4>1, <4>2 DEF Keeps
    <3>2. CASE DieInSave(t)
      <4>1. up' = FALSE /\ disk' = t /\ mem' = InitialState
        BY <3>2 DEF DieInSave
      <4>2. issued' = issued \cup TokensOf(disk')
        BY <2>6, <4>1 DEF Show
      <4>3. AInv'
        BY <1>2, <2>2, <2>3, <2>4, <2>6, <4>1, <4>2, ImageKept
      <4> QED
        BY <2>2, <2>4a, <4>1, <4>2, <4>3 DEF Keeps
    <3> QED
      BY <2>6, <3>1, <3>2 DEF OpenAdvancing, t
  <2> QED
    BY <1>15, <2>1, <2>5, <2>6 DEF Open
<1>16. ASSUME NEW io \in {"ok", "crash"}, Flush(io) PROVE Keeps
  <2>1. up /\ Save(mem, mem, sessions, io) /\ minted' = minted
    BY <1>16 DEF Flush
  <2>2. mem = disk
    BY <1>1, <2>1
  <2> QED
    BY <1>1, <1>4, <2>1, <2>2
<1>17. ASSUME Next PROVE Keeps
  <2> DEFINE Outcomes == {"ok", "crash"}
  <2>1. CASE Crash
    BY <1>5, <2>1
  <2>2. CASE \E id \in SessionIds, k \in issued : BindSession(id, k)
    BY <1>6, <2>2
  <2>3. CASE \E io \in Outcomes :
               \/ \E r \in RegisterRequests : Register(r, io)
               \/ \E batch \in BatchRequests : RegisterBatch(batch, io)
               \/ \E r \in FenceRequests : FenceWorker(r, io)
               \/ \E r \in AdvanceRequests : AdvanceEpoch(r, io)
               \/ \E r \in GrantRequests : GrantAuthority(r, io)
               \/ \E r \in RevokeRequests : RevokeAuthority(r, io)
               \/ \E r \in RetireRequests : RetireParticipant(r, io)
               \/ \E b \in sessions : CloseSession(b, io)
               \/ Open(io)
               \/ Flush(io)
    BY <1>7, <1>8, <1>9, <1>10, <1>11, <1>12, <1>13, <1>14, <1>15, <1>16, <2>3
  <2> QED
    BY <1>17, <2>1, <2>2, <2>3 DEF Next, Step
<1> QED
  BY <1>3, <1>17

-----------------------------------------------------------------------------
(* Tokens. *)

\* In a sound state the runtime accepts a token with a sequence exactly when
\* it is of the current epoch and of a current incarnation.
LEMMA AcceptedIsCurrent ==
  ASSUME NEW s, Sound(s), NEW k \in Tokens, 1 <= k.inc
  PROVE  Accepts(s, k) <=>
           /\ Scopes # {}
           /\ k.epoch = s.epoch
           /\ \E i \in DOMAIN s.parts[k.participant].live :
                /\ s.parts[k.participant].live[i].boot = k.boot
                /\ s.parts[k.participant].live[i].seq = k.inc
<1> DEFINE part == s.parts[k.participant]
           q(sc) == [token |-> k, scope |-> sc, gen |-> 0]
           Answer1(sc) == ValidateToken(s, q(sc))
           standing == EvaluateIncarnation(s, k.participant, k.boot, k.inc)
<1>1. k.participant \in Participants /\ k.inc \in Nat /\ k.inc # 0
  BY DEF Tokens
<1>2. PartSound(s, k.participant) /\ Wf(s)
  BY <1>1 DEF Sound
<1>3. \A sc : q(sc).token = k /\ q(sc).scope = sc /\ q(sc).gen = 0
  OBVIOUS
<1>4. ASSUME NEW sc
      PROVE  Answer1(sc) \in {"Current", "UnauthorizedScope"} <=>
               /\ k.epoch = s.epoch /\ part.status \notin {"unknown", "retired"}
               /\ standing = "Current"
  <2>1. standing \in {"Current", "Fenced", "RevalidationRequired"}
    BY DEF EvaluateIncarnation
  <2> HIDE DEF standing, part
  <2> QED
    BY <1>3, <2>1 DEF ValidateToken, standing, part
<1>5. standing = "Current" <=> \E i \in DOMAIN part.live : part.live[i].boot = k.boot /\ part.live[i].seq = k.inc
  <2>1. \A i, j \in DOMAIN part.live : part.live[i].boot = part.live[j].boot => i = j
    BY <1>2 DEF PartSound
  <2>2. standing = "Current" <=> IsLive(part, k.boot) /\ k.inc = FindIncarnation(part, k.boot)
    BY <1>1 DEF EvaluateIncarnation
  <2> HIDE DEF part, standing
  <2>3. ASSUME IsLive(part, k.boot)
        PROVE  /\ Position(part, k.boot) \in DOMAIN part.live
               /\ part.live[Position(part, k.boot)].boot = k.boot
    BY <2>3 DEF IsLive, Position
  <2>4. ASSUME NEW i \in DOMAIN part.live, part.live[i].boot = k.boot, part.live[i].seq = k.inc
        PROVE  standing = "Current"
    <3>1. IsLive(part, k.boot)
      BY <2>4 DEF IsLive
    <3>2. Position(part, k.boot) = i
      BY <2>1, <2>3, <2>4, <3>1
    <3> QED
      BY <2>2, <2>4, <3>1, <3>2 DEF FindIncarnation
  <2>5. ASSUME standing = "Current"
        PROVE  \E i \in DOMAIN part.live : part.live[i].boot = k.boot /\ part.live[i].seq = k.inc
    BY <2>2, <2>3, <2>5 DEF FindIncarnation
  <2> QED
    BY <2>4, <2>5
<1>6. part.live # << >> => part.status \notin {"unknown", "retired"}
  <2>1. FreshParticipant.live = << >>
    BY DEF FreshParticipant
  <2> QED
    BY <1>2, <2>1 DEF PartSound
<1>7. (\E i \in DOMAIN part.live : TRUE) => part.live # << >>
  OBVIOUS
<1>8. Accepts(s, k) <=> \E sc \in Scopes : Answer1(sc) \in {"Current", "UnauthorizedScope"}
  BY DEF Accepts
<1> HIDE DEF part, standing, Answer1, q
<1> QED
  BY <1>4, <1>5, <1>6, <1>7, <1>8 DEF part

\* A token that was issued before the step and is accepted after it was
\* accepted before it.
LEMMA NothingComesBack ==
  ASSUME NEW s, NEW t, Sound(s), Sound(t), Follows(s, t), NEW k \in Tokens,
         1 <= k.inc, k.inc < s.parts[k.participant].next, Accepts(t, k)
  PROVE  Accepts(s, k)
<1> DEFINE p == k.participant
<1>1. p \in Participants /\ k.inc \in Nat
  BY DEF Tokens
<1>2. s.parts[p].next \in Nat
  BY <1>1, PartFields DEF Sound
<1>3. /\ Scopes # {} /\ k.epoch = t.epoch
      /\ \E i \in DOMAIN t.parts[p].live :
           t.parts[p].live[i].boot = k.boot /\ t.parts[p].live[i].seq = k.inc
  BY AcceptedIsCurrent
<1>4. PICK i \in DOMAIN t.parts[p].live :
        t.parts[p].live[i].boot = k.boot /\ t.parts[p].live[i].seq = k.inc
  BY <1>3
<1>5. PartFollows(s, t, p)
  BY <1>1 DEF Follows
<1>6. t.epoch = s.epoch /\ \E j \in DOMAIN s.parts[p].live : s.parts[p].live[j] = t.parts[p].live[i]
  <2>1. ~(t.parts[p].live[i].seq >= s.parts[p].next)
    BY <1>1, <1>2, <1>4
  <2> QED
    BY <1>5, <2>1 DEF PartFollows
<1> QED
  BY <1>3, <1>4, <1>6, AcceptedIsCurrent

\* A token that validates, alone or with a grant, is of the current epoch.
LEMMA CurrentIsOfEpoch ==
  ASSUME OneByOne, NEW s, Sound(s), NEW X \in SUBSET Tokens, Issued(X, s),
         NEW k \in X, NEW q, q.token = k, Validate(s, q) = "Current"
  PROVE  k.epoch = s.epoch
<1>1. CASE q.grant = 0
  BY <1>1 DEF Validate, ValidateToken
<1>2. CASE q.grant # 0
  <2> DEFINE g == s.grants[CHOOSE i \in GrantAt(s, q.grant) : TRUE]
             p == g.participant
             part == s.parts[p]
  <2>1. /\ GrantAt(s, q.grant) # {} /\ g.boot = k.boot
        /\ EvaluateIncarnation(s, p, k.boot, k.inc) \notin {"Fenced", "RevalidationRequired"}
    BY <1>2 DEF Validate, ValidateWithGrant
  <2>2. p \in Participants
    <3>1. s.grants \in Seq(GrantRecords)
      BY StateFields DEF Sound
    <3>2. (CHOOSE i \in GrantAt(s, q.grant) : TRUE) \in DOMAIN s.grants
      BY <2>1 DEF GrantAt
    <3>3. g \in GrantRecords
      BY <3>1, <3>2
    <3> HIDE DEF g
    <3> QED
      BY <3>3 DEF GrantRecords
  <2>3. /\ k \in Tokens /\ k.inc \in Nat /\ 1 <= k.inc
        /\ <<k.participant, k.boot>> \in Deployment
    BY DEF Issued, Tokens
  <2> HIDE DEF p
  <2>4. IsLive(part, k.boot) /\ k.inc = FindIncarnation(part, k.boot)
    <3>1. k.inc # 0
      BY <2>3
    <3> QED
      BY <2>1, <3>1 DEF EvaluateIncarnation
  <2> DEFINE i == Position(part, k.boot)
  <2>5. i \in DOMAIN part.live /\ part.live[i].boot = k.boot
    BY <2>4 DEF IsLive, Position
  <2>6. part.live[i].seq = k.inc
    BY <2>4 DEF FindIncarnation
  <2> HIDE DEF i
  <2>7. <<p, k.boot>> \in Deployment
    BY <2>2, <2>5 DEF Sound, PartSound
  <2>8. p = k.participant
    BY <2>3, <2>7 DEF OneByOne
  <2> DEFINE l == [epoch |-> s.epoch, participant |-> p, boot |-> part.live[i].boot,
                   inc |-> part.live[i].seq]
  <2>9. l \in TokensOf(s)
    BY <2>2, <2>5, TokenEntries
  <2>10. l \in X /\ l.participant = k.participant /\ l.inc = k.inc /\ l.epoch = s.epoch
    BY <2>6, <2>8, <2>9 DEF Issued
  <2> HIDE DEF l
  <2> QED
    BY <2>10 DEF Issued
<1> QED
  BY <1>1, <1>2

-----------------------------------------------------------------------------
(* Theorems. *)

\* The invariant holds throughout, and every step keeps what is durable.
LEMMA AuthorityInvariant ==
  ASSUME OneByOne
  PROVE  Spec => []AInv /\ [][Keeps]_vars
<1>1. AInv /\ [Next]_vars => AInv'
  BY StepAuthority DEF Keeps
<1>2. AInv /\ [Next]_vars => [Keeps]_vars
  BY StepAuthority
<1> QED
  BY InitAuthority, <1>1, <1>2, PTL DEF Spec

\* apply_registration and record_fence keep retained fences and current
\* incarnations apart: no boot that a fence on record names is current.
THEOREM FencedIsNeverLive ==
  ASSUME OneByOne
  PROVE  Spec => []FencedNotLive
<1>1. AInv => FencedNotLive
  BY SoundIsFenced, InitialIsSound DEF AInv, FencedNotLive
<1> QED
  BY AuthorityInvariant, <1>1, PTL

\* A participant with the single policy has at most one current incarnation:
\* the incumbent is displaced, or the newcomer refused.
THEOREM OneIncarnationAtATime ==
  ASSUME OneByOne
  PROVE  Spec => []OneIncarnation
<1>1. AInv => OneIncarnation
  <2> SUFFICES ASSUME AInv PROVE OneIncarnation
    OBVIOUS
  <2>1. Sound(mem)
    BY InitialIsSound DEF AInv
  <2> QED
    BY <2>1 DEF Sound, PartSound, OneIncarnation
<1> QED
  BY AuthorityInvariant, <1>1, PTL

\* A participant and an incarnation sequence name one boot and one epoch for
\* ever, over pruned fences, new epochs, crashes and restarts.
THEOREM SequencesAreUnique ==
  ASSUME OneByOne
  PROVE  Spec => []NeverReissued
<1>1. AInv => NeverReissued
  BY DEF AInv, Issued, NeverReissued
<1> QED
  BY AuthorityInvariant, <1>1, PTL

\* validate_durable_state accepts every image an accepted operation builds, so
\* that no operation is undone for a state of the runtime's own making.
THEOREM EverySaveIsAccepted ==
  ASSUME OneByOne
  PROVE  Spec => []SavesAccepted
<1>1. AInv => SavesAccepted
  <2> SUFFICES ASSUME AInv, up PROVE SavesAccepted
    BY DEF SavesAccepted
  <2>1. ASSUME NEW t, Sound(t), Follows(mem, t) PROVE Valid(t)
    <3>1. mem.epoch \in Nat /\ mem.epoch # 0 /\ t.epoch \in Nat /\ t.epoch >= mem.epoch
      BY <2>1, StateFields DEF AInv, Sound, Follows
    <3>2. t.epoch # 0
      BY <3>1
    <3> QED
      BY <2>1, <3>2, SoundIsValid
  <2> QED
    BY <2>1, OperationsSound DEF SavesAccepted
<1> QED
  BY AuthorityInvariant, <1>1, PTL

\* The durable history of a participant only grows: no record disappears,
\* retirement is final, floors, allocators and generations never fall.
THEOREM DurableHistoryGrows ==
  ASSUME OneByOne
  PROVE  Spec => HistoryGrows
<1>1. [Keeps]_vars => [\A p \in Participants :
                         LET old == disk.parts[p] new == disk'.parts[p] IN
                         /\ old.status # "unknown" => new.status # "unknown"
                         /\ old.status = "retired" => new.status = "retired"
                         /\ new.floor >= old.floor
                         /\ new.next >= old.next
                         /\ new.regGen >= old.regGen
                         /\ new.fenceGen >= old.fenceGen]_vars
  BY DEF Keeps, Follows, PartFollows
<1> QED
  BY AuthorityInvariant, <1>1, PTL DEF HistoryGrows

\* A token the runtime once stopped accepting is never accepted again.
THEOREM FencingIsFinal ==
  ASSUME OneByOne
  PROVE  Spec => NoResurrection
<1>1. AInv /\ [Keeps]_vars => [\A k \in issued : Accepts(disk', k) => Accepts(disk, k)]_vars
  <2> SUFFICES ASSUME AInv, Keeps, NEW k \in issued, Accepts(disk', k)
               PROVE  Accepts(disk, k)
    OBVIOUS
  <2>1. Sound(disk) /\ Sound(disk') /\ Follows(disk, disk')
    BY DEF AInv, Keeps
  <2>2. k \in Tokens /\ 1 <= k.inc /\ k.inc < disk.parts[k.participant].next
    BY DEF AInv, IInv, TypeOK, Issued
  <2> DEFINE t == disk'
  <2>3. Sound(t) /\ Follows(disk, t) /\ Accepts(t, k)
    BY <2>1
  <2> HIDE DEF t
  <2> QED
    BY <2>1, <2>2, <2>3, NothingComesBack
<1> QED
  BY AuthorityInvariant, <1>1, PTL DEF NoResurrection

\* A durable grant is never forgotten and never un-revoked.
THEOREM RevocationsAreFinal ==
  ASSUME OneByOne
  PROVE  Spec => RevocationFinal
<1>1. [Keeps]_vars => [\A i \in DOMAIN disk.grants :
                         /\ i \in DOMAIN disk'.grants
                         /\ disk'.grants[i].id = disk.grants[i].id
                         /\ Revoked(disk.grants[i]) => Revoked(disk'.grants[i])]_vars
  BY DEF Keeps, Follows, GrantsFollow
<1> QED
  BY AuthorityInvariant, <1>1, PTL DEF RevocationFinal

\* No token of an earlier epoch validates, with whatever grant it is presented.
\* validate_with_grant does not compare the token's epoch: that its sequence
\* names one epoch only is what the proof rests on.
THEOREM OldTokensAreStale ==
  ASSUME OneByOne
  PROVE  Spec => []OldEpochsAreStale
<1>1. AInv => OldEpochsAreStale
  <2> SUFFICES ASSUME AInv, up, NEW k \in issued, NEW sc \in Scopes, NEW g \in 0..minted,
                      Validate(mem, [token |-> k, scope |-> sc, gen |-> 0, grant |-> g]) = "Current"
               PROVE  k.epoch = mem.epoch
    BY DEF OldEpochsAreStale
  <2> DEFINE q == [token |-> k, scope |-> sc, gen |-> 0, grant |-> g]
  <2>1. Sound(mem) /\ Issued(issued, mem) /\ issued \in SUBSET Tokens
    BY DEF AInv, IInv, TypeOK
  <2>2. q.token = k /\ Validate(mem, q) = "Current"
    OBVIOUS
  <2> HIDE DEF q
  <2> QED
    BY <2>1, <2>2, CurrentIsOfEpoch
<1> QED
  BY AuthorityInvariant, <1>1, PTL

\* With fence_on_session_loss, no incarnation outlives the close of its session.
THEOREM LostSessionsAreFenced ==
  ASSUME OneByOne
  PROVE  Spec => LostSessionIsFenced
<1>1. [Keeps]_vars => [\A b \in sessions \ sessions' :
                         FenceOnSessionLoss /\ up' =>
                           <<b.token.participant, b.token.boot, b.token.inc>> \notin Live(mem')]_vars
  BY DEF Keeps
<1> QED
  BY AuthorityInvariant, <1>1, PTL DEF LostSessionIsFenced

\* A retained idempotency record only answers for what happened, through
\* crashes, restarts, the pruning of the tables and every later operation: a
\* replay never reports a fence of what is current or a grant that is gone.
THEOREM ReplaysAnswerTruly ==
  ASSUME OneByOne
  PROVE  Spec => []AnswersAreTrue
<1> DEFINE AnswersHold == Answers(disk, issued)
<1>1. Init => AnswersHold
  <2>1. InitialState.control = << >> /\ \A p \in Participants : InitialState.parts[p].idem = << >>
    BY DEF InitialState, FreshParticipant
  <2> QED
    BY <2>1 DEF Init, Answers
<1>2. AInv /\ AnswersHold /\ [Next]_vars => AnswersHold'
  <2> SUFFICES ASSUME AInv, AnswersHold, [Next]_vars PROVE AnswersHold'
    OBVIOUS
  <2>1. Keeps
    BY StepAuthority
  <2>2. Sound(disk) /\ Sound(disk')
    BY <2>1 DEF Keeps, AInv
  <2>3. CASE issued' = issued /\ disk' = disk
    BY <2>3
  <2>4. CASE TokensOf(disk') \subseteq issued'
    <3> DEFINE t == disk'
               Y == issued'
    <3>1. /\ Sound(t) /\ Follows(disk, t) /\ issued \subseteq Y /\ TokensOf(t) \subseteq Y
          /\ Recalls(disk, t)
      BY <2>1, <2>2, <2>4 DEF Keeps
    <3> HIDE DEF t, Y
    <3>2. Answers(t, Y)
      BY <2>2, <3>1, AnswersLast
    <3> QED
      BY <3>2 DEF t, Y
  <2> QED
    BY <2>1, <2>3, <2>4 DEF Keeps
<1>3. AInv /\ AnswersHold => AnswersAreTrue
  <2> SUFFICES ASSUME AInv, AnswersHold, up PROVE AnswersAreTrue
    BY DEF AnswersAreTrue
  <2>1. Answers(mem, issued)
    BY DEF AInv
  <2>2. ASSUME NEW p, NEW rec, TrueRecord(mem, issued, p, rec) PROVE TrueOfParticipant(p, rec)
    BY <2>2 DEF TrueRecord, TrueOfParticipant
  <2>3. ASSUME NEW rec, TrueControl(mem, rec) PROVE TrueOfControl(rec)
    BY <2>3 DEF TrueControl, TrueOfControl
  <2> QED
    BY <2>1, <2>2, <2>3 DEF Answers, AnswersAreTrue
<1> HIDE DEF AnswersHold
<1> QED
  BY AuthorityInvariant, <1>1, <1>2, <1>3, PTL DEF Spec

\* What the grants rest on, besides AInv.
GInv == Tied(disk)

\* Grants stay tied to their incarnations.
LEMMA GrantInvariant ==
  ASSUME OneByOne
  PROVE  Spec => [](AInv /\ GInv)
<1>1. Init => GInv
  <2>1. InitialState.grants = << >> /\ \A p \in Participants : InitialState.parts[p].ring = << >>
    BY DEF InitialState, FreshParticipant
  <2> QED
    BY <2>1 DEF Init, GInv, Tied
<1>2. AInv /\ GInv /\ [Next]_vars => GInv'
  <2> SUFFICES ASSUME AInv, GInv, [Next]_vars PROVE GInv'
    OBVIOUS
  <2> DEFINE t == disk'
  <2>1. Sound(disk) /\ Sound(t) /\ Follows(disk, t) /\ Tracks(disk, t)
    BY StepAuthority DEF Keeps, AInv
  <2> HIDE DEF t
  <2>2. Tied(t)
    BY <2>1, TiedLasts DEF GInv
  <2> QED
    BY <2>2 DEF GInv, t
<1> QED
  BY AuthorityInvariant, <1>1, <1>2, PTL DEF Spec

\* What a successful validation with a grant shows of the grant's participant.
LEMMA ValidatedGrant ==
  ASSUME AInv, GInv, up, NEW i \in DOMAIN mem.grants, NEW k \in issued, NEW sc \in Scopes,
         Validate(mem, [token |-> k, scope |-> sc, gen |-> 0,
                        grant |-> mem.grants[i].id]) = "Current"
  PROVE  /\ mem.grants[i].participant \in Participants
         /\ mem.parts[mem.grants[i].participant].live # << >>
         /\ Complete(mem.parts[mem.grants[i].participant]) =>
              k.boot = mem.grants[i].boot /\ k.inc = mem.grants[i].inc
<1> DEFINE q == [token |-> k, scope |-> sc, gen |-> 0, grant |-> mem.grants[i].id]
<1>1. /\ Sound(mem) /\ Tied(mem) /\ Numbered(mem, minted) /\ Issued(issued, mem)
      /\ issued \in SUBSET Tokens /\ minted \in Nat
  BY DEF AInv, GInv, IInv, TypeOK
<1>2. mem.grants[i].id # 0
  BY <1>1 DEF Numbered
<1>3. k \in Tokens /\ 1 <= k.inc
  BY <1>1 DEF Issued
<1>4. q.token = k /\ q.grant = mem.grants[i].id /\ Validate(mem, q) = "Current"
  OBVIOUS
<1> HIDE DEF q
<1>5. /\ mem.parts[mem.grants[i].participant].live # << >>
      /\ Complete(mem.parts[mem.grants[i].participant]) =>
           k.boot = mem.grants[i].boot /\ k.inc = mem.grants[i].inc
  BY <1>1, <1>2, <1>3, <1>4, TiedIsFollowed
<1>6. mem.grants[i] \in GrantRecords
  BY <1>1, StateFields DEF Sound
<1> QED
  BY <1>5, <1>6 DEF GrantRecords

\* validate compares the boot of a grant and not its incarnation.  A grant is
\* nevertheless of use to its own incarnation alone for as long as the ring of
\* its participant has dropped no boot: the others of its boot are refused.
THEOREM RetainedGrantsFollow ==
  ASSUME OneByOne
  PROVE  Spec => []GrantsFollowWhileRetained
<1>1. AInv /\ GInv => GrantsFollowWhileRetained
  BY ValidatedGrant DEF GrantsFollowWhileRetained
<1> QED
  BY GrantInvariant, <1>1, PTL

=============================================================================

----------------------------- MODULE FaultProofs -----------------------------
(***************************************************************************)
(* What saves that throw leave of the promises about grants.  The undo log *)
(* loses records and revives grants, memory and the image part, batches    *)
(* and shared boots are allowed: delegation stays bounded nevertheless.    *)
(***************************************************************************)
EXTENDS IncarnationProofs

\* The grants of s have identifiers of their own, which were generated, and
\* every delegated grant is within its parent and revoked with it.
Derived(s, n) ==
  /\ \A i, j \in DOMAIN s.grants : s.grants[i].id = s.grants[j].id => i = j
  /\ Numbered(s, n)
  /\ Delegated(s)

\* The inductive invariant: memory and the image may differ, and each has to be
\* in order, since a later save replaces the image by memory.
FInv == IInv /\ Derived(mem, minted) /\ Derived(disk, minted)

-----------------------------------------------------------------------------
(* What the operations and their undos do to the grants. *)

\* Whether grants are in order depends on the grants alone.
LEMMA DerivedAlike ==
  ASSUME NEW s, NEW t, NEW n \in Nat, NEW m \in Nat, n <= m, t.grants = s.grants, Derived(s, n)
  PROVE  Derived(t, m)
<1>1. Numbered(t, m)
  BY DEF Derived, Numbered
<1>2. Delegated(t)
  BY DEF Derived, Delegated, GrantAt
<1> QED
  BY <1>1, <1>2 DEF Derived

\* A store that was never established has no grants.
LEMMA InitialDerived == Derived(InitialState, 0)
  BY DEF InitialState, Derived, Numbered, Delegated

\* A batch of registrations leaves the grants alone.
LEMMA BatchKeepsGrants ==
  ASSUME NEW s, Wf(s), NEW batch \in BatchRequests
  PROVE  BatchTo(s, batch).grants = s.grants
<1>1. batch[1] \in RegisterRequests /\ batch[2] \in RegisterRequests
  BY RuntimeAssumption DEF BatchRequests, RegisterRequests
<1>2. ASSUME NEW u, Wf(u), NEW indexed, NEW r \in RegisterRequests
      PROVE  ApplyInBatch(u, indexed, r).grants = u.grants
  <2> DEFINE d == DisplaceIncumbent(u, indexed, r)
             a == AdmitIncarnation(d, r)
  <2>1. u \in States /\ d \in States
    BY <1>2, DisplaceIncumbentType DEF Wf
  <2>2. d.grants = u.grants
    BY <2>1 DEF DisplaceIncumbent, FenceIncarnation, States
  <2> HIDE DEF d
  <2>3. a.grants = d.grants
    BY <2>1 DEF AdmitIncarnation, States
  <2>4. [a EXCEPT !.gen = d.gen].grants = a.grants
    OBVIOUS
  <2>5. ApplyInBatch(u, indexed, r) = [a EXCEPT !.gen = d.gen] \/ ApplyInBatch(u, indexed, r) = u
    BY DEF ApplyInBatch, d
  <2> QED
    BY <2>2, <2>3, <2>4, <2>5
<1> DEFINE u == ApplyInBatch(s, s.fences, batch[1])
           v == ApplyInBatch(u, s.fences, batch[2])
<1>3. Wf(u) /\ u.grants = s.grants
  BY <1>1, <1>2, ApplyInBatchType
<1> HIDE DEF u
<1>4. v.grants = u.grants
  BY <1>1, <1>2, <1>3
<1>5. BatchTo(s, batch) = [v EXCEPT !.gen = @ + 1]
  BY DEF BatchTo, u
<1> HIDE DEF v
<1> QED
  BY <1>3, <1>4, <1>5

\* Every undo but that of a revocation leaves the grants as they were before
\* the operation.
LEMMA UndosKeepGrants ==
  ASSUME NEW s, Wf(s)
  PROVE  /\ \A r : RegisterUndo(s, r).grants = s.grants
         /\ \A b : BatchUndo(s, b).grants = s.grants
         /\ \A r : FenceUndo(s, r).grants = s.grants
         /\ \A r : AdvanceUndo(s, r).grants = s.grants
         /\ \A r, id : GrantUndo(s, r, id).grants = s.grants
         /\ \A r : RetireUndo(s, r).grants = s.grants
         /\ \A fences : [s EXCEPT !.fences = fences].grants = s.grants
<1>1. s \in States
  BY DEF Wf
<1>2. \A fences, parts : [s EXCEPT !.fences = fences, !.parts = parts].grants = s.grants
  BY <1>1 DEF States
<1>3. \A r : RegisterUndo(s, r).grants = s.grants
  BY <1>2 DEF RegisterUndo
<1>4. \A b : BatchUndo(s, b).grants = s.grants
  BY <1>2 DEF BatchUndo
<1>5. \A fences, p, idem : [s EXCEPT !.fences = fences, !.parts[p].idem = idem].grants = s.grants
  BY <1>1 DEF States
<1>6. \A r : FenceUndo(s, r).grants = s.grants
  BY <1>5 DEF FenceUndo
<1>7. \A r : RetireUndo(s, r).grants = s.grants
  BY <1>5 DEF RetireUndo
<1>8. \A transitions, control :
        [s EXCEPT !.transitions = transitions, !.control = control].grants = s.grants
  BY <1>1 DEF States
<1>9. \A r : AdvanceUndo(s, r).grants = s.grants
  BY <1>8 DEF AdvanceUndo
<1>10. \A p, idem : [s EXCEPT !.parts[p].idem = idem].grants = s.grants
  BY <1>1 DEF States
<1>11. \A r, id : GrantUndo(s, r, id).grants = s.grants
  BY <1>10 DEF GrantUndo
<1>12. \A fences : [s EXCEPT !.fences = fences].grants = s.grants
  BY <1>1 DEF States
<1> QED
  BY <1>3, <1>4, <1>6, <1>7, <1>9, <1>11, <1>12

\* apply_grant appends one grant with a fresh identifier, which is within an
\* unrevoked parent if it has one.
LEMMA GrantDerives ==
  ASSUME NEW s, Wf(s), NEW n \in Nat, Derived(s, n), NEW r,
         GrantOutcome(s, r) = "Granted",
         NEW t, t = GrantTo(s, r, n + 1)
  PROVE  Derived(t, n + 1)
<1> DEFINE id == n + 1
           g == [id |-> id, epoch |-> s.epoch, participant |-> r.participant,
                 boot |-> r.boot, inc |-> r.inc, scopes |-> r.scopes,
                 parent |-> r.parent, gen |-> s.gen + 1, revokedAt |-> 0]
           grants == Append(s.grants, g)
<1>1. s \in States /\ s.grants \in Seq(GrantRecords)
  BY StateFields DEF Wf
<1>2. r.parent # 0 => \E i \in GrantAt(s, r.parent) : MayDelegate(s, s.grants[i], r.scopes)
  BY DEF GrantOutcome, ReplayOutcome
<1>3. t.grants = grants
  BY <1>1 DEF GrantTo, States
<1>4. /\ g.id = id /\ g.epoch = s.epoch /\ g.scopes = r.scopes /\ g.parent = r.parent
      /\ g.revokedAt = 0
  OBVIOUS
<1>5. /\ \A i \in 1..n : i \in 1..id /\ i # id
      /\ id \in 1..id
  OBVIOUS
<1> HIDE DEF g, id
<1>6. /\ \A i \in DOMAIN grants : \/ i \in DOMAIN s.grants /\ grants[i] = s.grants[i]
                                  \/ i = Len(s.grants) + 1 /\ grants[i] = g
      /\ \A i \in DOMAIN s.grants : i \in DOMAIN grants /\ grants[i] = s.grants[i]
  BY <1>1
<1> HIDE DEF grants
<1>7. \A i \in DOMAIN s.grants : s.grants[i].id \in 1..id /\ s.grants[i].id # id
  BY <1>5 DEF Derived, Numbered
<1>8. Numbered(t, id)
  BY <1>3, <1>4, <1>5, <1>6, <1>7 DEF Numbered
<1>9. \A i, j \in DOMAIN grants : grants[i].id = grants[j].id => i = j
  <2>1. \A k, l \in DOMAIN s.grants : s.grants[k].id = s.grants[l].id => k = l
    BY DEF Derived
  <2> QED
    BY <1>4, <1>6, <1>7, <2>1
<1>10. ASSUME NEW k, NEW i \in GrantAt(s, k) PROVE i \in GrantAt(t, k) /\ grants[i] = s.grants[i]
  BY <1>3, <1>6, <1>10 DEF GrantAt
<1>11. Delegated(t)
  <2> SUFFICES ASSUME NEW i \in DOMAIN grants, grants[i].parent # 0
               PROVE  \E j \in GrantAt(t, grants[i].parent) :
                        /\ grants[i].scopes \subseteq grants[j].scopes
                        /\ grants[i].epoch = grants[j].epoch
                        /\ Revoked(grants[j]) => Revoked(grants[i])
    BY <1>3 DEF Delegated
  <2>1. CASE i \in DOMAIN s.grants /\ grants[i] = s.grants[i]
    <3>1. PICK j \in GrantAt(s, s.grants[i].parent) :
             /\ s.grants[i].scopes \subseteq s.grants[j].scopes
             /\ s.grants[i].epoch = s.grants[j].epoch
             /\ Revoked(s.grants[j]) => Revoked(s.grants[i])
      BY <2>1 DEF Derived, Delegated
    <3> QED
      BY <1>10, <2>1, <3>1
  <2>2. CASE grants[i] = g
    <3>1. PICK j \in GrantAt(s, r.parent) : MayDelegate(s, s.grants[j], r.scopes)
      BY <1>2, <1>4, <2>2
    <3> QED
      BY <1>4, <1>10, <2>2, <3>1 DEF MayDelegate
  <2> QED
    BY <1>6, <2>1, <2>2
<1> QED
  BY <1>3, <1>8, <1>9, <1>11 DEF Derived, id

\* A change of the grants' revocations keeps them in order if no grant that
\* stays revoked, or becomes so, has a child that is not revoked.
LEMMA RemarkDerives ==
  ASSUME NEW s, NEW n, Derived(s, n), NEW t, DOMAIN t.grants = DOMAIN s.grants,
         \A i \in DOMAIN s.grants :
           /\ t.grants[i].id = s.grants[i].id /\ t.grants[i].epoch = s.grants[i].epoch
           /\ t.grants[i].scopes = s.grants[i].scopes /\ t.grants[i].parent = s.grants[i].parent,
         \A i, j \in DOMAIN s.grants :
           s.grants[i].parent = s.grants[j].id /\ (Revoked(s.grants[j]) => Revoked(s.grants[i])) =>
             (Revoked(t.grants[j]) => Revoked(t.grants[i]))
  PROVE  Derived(t, n)
<1>1. Numbered(t, n) /\ \A i, j \in DOMAIN t.grants : t.grants[i].id = t.grants[j].id => i = j
  BY DEF Derived, Numbered
<1>2. ASSUME NEW i \in DOMAIN t.grants, t.grants[i].parent # 0
      PROVE  \E j \in GrantAt(t, t.grants[i].parent) :
               /\ t.grants[i].scopes \subseteq t.grants[j].scopes
               /\ t.grants[i].epoch = t.grants[j].epoch
               /\ Revoked(t.grants[j]) => Revoked(t.grants[i])
  <2>1. PICK j \in GrantAt(s, s.grants[i].parent) :
           /\ s.grants[i].scopes \subseteq s.grants[j].scopes
           /\ s.grants[i].epoch = s.grants[j].epoch
           /\ Revoked(s.grants[j]) => Revoked(s.grants[i])
    BY <1>2 DEF Derived, Delegated
  <2>2. j \in DOMAIN s.grants /\ s.grants[j].id = s.grants[i].parent
    BY <2>1 DEF GrantAt
  <2>3. j \in GrantAt(t, t.grants[i].parent)
    BY <1>2, <2>2 DEF GrantAt
  <2>4. Revoked(t.grants[j]) => Revoked(t.grants[i])
    BY <1>2, <2>1, <2>2
  <2> QED
    BY <1>2, <2>1, <2>2, <2>3, <2>4
<1> QED
  BY <1>1, <1>2 DEF Derived, Delegated

\* apply_revoke revokes with a grant everything that is derived from it.
LEMMA RevokeDerives ==
  ASSUME NEW s, Wf(s), NEW n, Derived(s, n), s.epoch # 0, NEW r,
         NEW t, t = RevokeTo(s, r)
  PROVE  Derived(t, n)
<1> DEFINE gs == s.grants
           down == Cascade(s, r)
           root == GrantAt(s, r.grant)
           marked == [i \in DOMAIN gs |->
                       [gs[i] EXCEPT !.revokedAt = IF i \in down THEN s.epoch ELSE @,
                                     !.gen = IF i \in root THEN s.gen + 1 ELSE @]]
<1>1. s \in States /\ gs \in Seq(GrantRecords)
  BY StateFields DEF Wf
<1>2. t.grants = marked
  BY <1>1 DEF RevokeTo, States
<1>3. DOMAIN marked = DOMAIN gs
  OBVIOUS
<1>4. ASSUME NEW i \in DOMAIN gs
      PROVE  /\ marked[i].id = gs[i].id /\ marked[i].epoch = gs[i].epoch
             /\ marked[i].scopes = gs[i].scopes /\ marked[i].parent = gs[i].parent
             /\ Revoked(marked[i]) <=> i \in down \/ Revoked(gs[i])
  <2> DEFINE g == gs[i]
             a == i \in down
             b == i \in root
             m == [g EXCEPT !.revokedAt = IF a THEN s.epoch ELSE g.revokedAt,
                            !.gen = IF b THEN s.gen + 1 ELSE g.gen]
  <2>1. g \in GrantRecords
    BY <1>1
  <2>2. marked[i] = m
    OBVIOUS
  <2> HIDE DEF g, a, b, marked
  <2>3. /\ m.id = g.id /\ m.epoch = g.epoch /\ m.scopes = g.scopes /\ m.parent = g.parent
        /\ a => m.revokedAt = s.epoch
        /\ ~a => m.revokedAt = g.revokedAt
    BY <2>1 DEF GrantRecords
  <2> HIDE DEF m
  <2> QED
    BY <2>2, <2>3 DEF g, a, Revoked
<1> HIDE DEF marked, down
<1>5. ASSUME NEW i \in DOMAIN gs, NEW j \in DOMAIN gs, gs[i].parent = gs[j].id,
             Revoked(gs[j]) => Revoked(gs[i]), Revoked(marked[j])
      PROVE  Revoked(marked[i])
  <2>1. j \in down => i \in down \/ Revoked(gs[i])
    BY <1>5, CascadeCloses DEF down
  <2> QED
    BY <1>4, <1>5, <2>1
<1> QED
  BY <1>2, <1>3, <1>4, <1>5, RemarkDerives

\* restore_revocations visits, besides the grant itself, only grants whose
\* parent it visits: the worklist holds nothing that is not derived from it.
LEMMA DescentIsDerived ==
  ASSUME NEW gs, NEW root \in SUBSET (DOMAIN gs),
         \A i, j \in DOMAIN gs : gs[i].id = gs[j].id => i = j
  PROVE  \A i \in Descend(gs, root, DOMAIN gs), j \in DOMAIN gs :
           i \notin root /\ gs[i].parent = gs[j].id => j \in Descend(gs, root, DOMAIN gs)
<1> DEFINE D == DOMAIN gs
           Closed(C) == \A i \in C, j \in D : gs[j].parent = gs[i].id => j \in C
           below == Descend(gs, root, D)
<1>1. below = {i \in D : \A C \in SUBSET D : root \subseteq C /\ Closed(C) => i \in C}
  BY DEF Descend
<1> SUFFICES ASSUME NEW i \in below, NEW j \in D, i \notin root, gs[i].parent = gs[j].id,
                    j \notin below
             PROVE  FALSE
  OBVIOUS
<1> DEFINE C == below \ {i}
<1>2. i \in D /\ C \in SUBSET D
  BY <1>1
<1>3. root \subseteq C
  BY <1>1
<1>4. Closed(C)
  <2> SUFFICES ASSUME NEW k \in C, NEW l \in D, gs[l].parent = gs[k].id
               PROVE  l \in C
    OBVIOUS
  <2>1. l \in below
    <3> SUFFICES ASSUME NEW B \in SUBSET D, root \subseteq B, Closed(B)
                 PROVE  l \in B
      BY <1>1
    <3>1. k \in B
      BY <1>1
    <3> QED
      BY <3>1
  <2>2. l # i
    <3>1. k \in below /\ k \in D
      BY <1>2
    <3> QED
      BY <3>1
  <2> QED
    BY <2>1, <2>2
<1>5. i \in C
  <2> HIDE DEF C
  <2> QED
    BY <1>1, <1>2, <1>3, <1>4
<1> QED
  BY <1>5

\* The undo of a revocation revives everything derived from the grant, also
\* what was revoked before, and so leaves no revoked parent above a grant it
\* revives: the grant itself was not revoked, and with it no grant above it.
LEMMA RevokeUndoDerives ==
  ASSUME NEW s, Wf(s), NEW n, Derived(s, n), NEW r, RevokeOutcome(s, r) = "Revoked",
         NEW t, t = RevokeUndo(s, r)
  PROVE  Derived(t, n)
<1> DEFINE gs == s.grants
           root == GrantAt(s, r.grant)
           below == Descend(gs, root, DOMAIN gs)
           cleared == [i \in DOMAIN gs |->
                        [gs[i] EXCEPT !.revokedAt = IF i \in below THEN 0 ELSE @]]
<1>1. s \in States /\ gs \in Seq(GrantRecords)
  BY StateFields DEF Wf
<1>2. t.grants = cleared
  BY <1>1 DEF RevokeUndo, States
<1>3. DOMAIN cleared = DOMAIN gs
  OBVIOUS
<1>4. ASSUME NEW i \in DOMAIN gs
      PROVE  /\ cleared[i].id = gs[i].id /\ cleared[i].epoch = gs[i].epoch
             /\ cleared[i].scopes = gs[i].scopes /\ cleared[i].parent = gs[i].parent
             /\ Revoked(cleared[i]) <=> i \notin below /\ Revoked(gs[i])
  <2> DEFINE g == gs[i]
             a == i \in below
             m == [g EXCEPT !.revokedAt = IF a THEN 0 ELSE g.revokedAt]
  <2>1. g \in GrantRecords
    BY <1>1
  <2>2. cleared[i] = m
    OBVIOUS
  <2> HIDE DEF g, a, cleared
  <2>3. /\ m.id = g.id /\ m.epoch = g.epoch /\ m.scopes = g.scopes /\ m.parent = g.parent
        /\ a => m.revokedAt = 0
        /\ ~a => m.revokedAt = g.revokedAt
    BY <2>1 DEF GrantRecords
  <2> HIDE DEF m
  <2> QED
    BY <2>2, <2>3 DEF g, a, Revoked
<1>5. root \in SUBSET (DOMAIN gs) /\ \A i \in root : ~Revoked(gs[i])
  BY DEF GrantAt, RevokeOutcome, ReplayOutcome
<1>6. \A i, j \in DOMAIN gs : gs[i].id = gs[j].id => i = j
  BY DEF Derived
<1> HIDE DEF cleared
<1>7. \A i \in below, j \in DOMAIN gs :
        i \notin root /\ gs[i].parent = gs[j].id => j \in below
  <2> HIDE DEF gs, root
  <2> QED
    BY <1>5, <1>6, DescentIsDerived
<1> HIDE DEF below, root
<1>8. ASSUME NEW i \in DOMAIN gs, NEW j \in DOMAIN gs, gs[i].parent = gs[j].id,
             Revoked(gs[j]) => Revoked(gs[i]), Revoked(cleared[j])
      PROVE  Revoked(cleared[i])
  BY <1>4, <1>5, <1>7, <1>8
<1> QED
  BY <1>2, <1>3, <1>4, <1>8, RemarkDerives

-----------------------------------------------------------------------------
(* The process. *)

\* However a save ends, memory and the image are each the state before, the
\* operation's result, its undo, or empty.
LEMMA SaveDerives ==
  ASSUME FInv, NEW t, NEW undone, NEW kept, NEW io, Save(t, undone, kept, io),
         minted' \in Nat, minted <= minted', Derived(t, minted'), Derived(undone, minted')
  PROVE  Derived(mem', minted') /\ Derived(disk', minted')
<1>1. minted \in Nat /\ Derived(disk, minted) /\ 0 <= minted'
  BY DEF FInv, IInv, TypeOK
<1>2. Derived(disk, minted') /\ Derived(InitialState, minted')
  BY <1>1, DerivedAlike, InitialDerived
<1>3. mem' \in {t, undone, InitialState} /\ disk' \in {disk, t}
  BY DEF Save, Commit, RollBack, RollBackUnmarked, DieInSave
<1> QED
  BY <1>2, <1>3

\* Every step keeps the grants of memory and of the image in order, whatever
\* its save comes to.  One step per action, each reduced to SaveDerives.
LEMMA StepDerives ==
  ASSUME FInv, NEW Outcomes, Step(Outcomes) \/ UNCHANGED vars
  PROVE  Derived(mem', minted') /\ Derived(disk', minted')
<1> DEFINE Goal == Derived(mem', minted') /\ Derived(disk', minted')
<1>1. /\ Wf(mem) /\ Wf(disk) /\ minted \in Nat /\ minted <= minted
      /\ Derived(mem, minted) /\ Derived(disk, minted) /\ sessions \in SUBSET Bindings
      /\ issued \in SUBSET Tokens
  BY DEF FInv, IInv, TypeOK, Wf
<1>2. Derived(InitialState, minted)
  BY <1>1, DerivedAlike, InitialDerived
<1>3. ASSUME NEW t, t.grants = mem.grants PROVE Derived(t, minted)
  BY <1>1, <1>3, DerivedAlike
<1>4. ASSUME NEW t, NEW undone, NEW kept, NEW io, Save(t, undone, kept, io), minted' = minted,
             Derived(t, minted), Derived(undone, minted)
      PROVE  Goal
  BY <1>1, <1>4, SaveDerives
<1>5. ASSUME UNCHANGED <<mem, disk, minted>> PROVE Goal
  BY <1>1, <1>5
<1> HIDE DEF Goal
<1>6. ASSUME NEW io, Answer(io) PROVE Goal
  BY <1>5, <1>6 DEF Answer, vars
<1>7. ASSUME Crash PROVE Goal
  BY <1>1, <1>2, <1>7 DEF Crash, Goal
<1>8. ASSUME NEW id \in SessionIds, NEW k \in issued, BindSession(id, k) PROVE Goal
  BY <1>5, <1>8 DEF BindSession, vars
<1>9. ASSUME NEW io, NEW r \in RegisterRequests, Register(r, io) PROVE Goal
  <2>1. /\ Derived(RegisterTo(mem, r), minted)
        /\ Derived(RegisterUndo(mem, r), minted)
    BY <1>1, <1>3, GrantsUntouched, UndosKeepGrants
  <2> QED
    BY <1>4, <1>6, <1>9, <2>1 DEF Register
<1>10. ASSUME NEW io, NEW batch \in BatchRequests, RegisterBatch(batch, io) PROVE Goal
  <2>1. /\ Derived(BatchTo(mem, batch), minted)
        /\ Derived(BatchUndo(mem, batch), minted)
    BY <1>1, <1>3, BatchKeepsGrants, UndosKeepGrants
  <2> QED
    BY <1>4, <1>6, <1>10, <2>1 DEF RegisterBatch
<1>11. ASSUME NEW io, NEW r \in FenceRequests, FenceWorker(r, io) PROVE Goal
  <2>1. /\ Derived(FenceTo(mem, r), minted)
        /\ Derived(FenceUndo(mem, r), minted)
    BY <1>1, <1>3, GrantsUntouched, UndosKeepGrants
  <2> QED
    BY <1>4, <1>6, <1>11, <2>1 DEF FenceWorker
<1>12. ASSUME NEW io, NEW r \in AdvanceRequests, AdvanceEpoch(r, io) PROVE Goal
  <2>1. /\ Derived(AdvanceTo(mem, r), minted)
        /\ Derived(AdvanceUndo(mem, r), minted)
    BY <1>1, <1>3, GrantsUntouched, UndosKeepGrants
  <2> QED
    BY <1>4, <1>6, <1>12, <2>1 DEF AdvanceEpoch
<1>13. ASSUME NEW io, NEW r \in GrantRequests, GrantAuthority(r, io) PROVE Goal
  <2> DEFINE id == minted + 1
  <2>1. CASE GrantOutcome(mem, r) # "Granted" /\ Answer(io)
    BY <1>6, <2>1
  <2>2. CASE /\ GrantOutcome(mem, r) = "Granted" /\ minted' = id
             /\ Save(GrantTo(mem, r, id), GrantUndo(mem, r, id), sessions, io)
    <3>1. Derived(GrantTo(mem, r, id), id)
      BY <1>1, <2>2, GrantDerives
    <3>2. id \in Nat /\ minted <= id
      BY <1>1
    <3> HIDE DEF id
    <3>3. Derived(GrantUndo(mem, r, id), id)
      BY <1>1, <3>2, DerivedAlike, UndosKeepGrants
    <3> QED
      BY <2>2, <3>1, <3>2, <3>3, SaveDerives DEF Goal
  <2> QED
    BY <1>13, <2>1, <2>2 DEF GrantAuthority
<1>14. ASSUME NEW io, NEW r \in RevokeRequests, RevokeAuthority(r, io) PROVE Goal
  <2>1. CASE RevokeOutcome(mem, r) # "Revoked" /\ Answer(io)
    BY <1>6, <2>1
  <2>2. CASE /\ RevokeOutcome(mem, r) = "Revoked" /\ minted' = minted
             /\ Save(RevokeTo(mem, r), RevokeUndo(mem, r), sessions, io)
    <3>1. mem.epoch # 0
      <4>1. r.epoch \in 1..MaxEpoch
        BY DEF RevokeRequests, Epochs
      <4>2. r.epoch = mem.epoch
        BY <2>2 DEF RevokeOutcome, ReplayOutcome
      <4> QED
        BY <4>1, <4>2
    <3>2. Derived(RevokeTo(mem, r), minted) /\ Derived(RevokeUndo(mem, r), minted)
      BY <1>1, <2>2, <3>1, RevokeDerives, RevokeUndoDerives
    <3> QED
      BY <1>4, <2>2, <3>2
  <2> QED
    BY <1>14, <2>1, <2>2 DEF RevokeAuthority
<1>15. ASSUME NEW io, NEW r \in RetireRequests, RetireParticipant(r, io) PROVE Goal
  <2>1. /\ Derived(RetireTo(mem, r), minted)
        /\ Derived(RetireUndo(mem, r), minted)
    BY <1>1, <1>3, GrantsUntouched, UndosKeepGrants
  <2> QED
    BY <1>4, <1>6, <1>15, <2>1 DEF RetireParticipant
<1>16. ASSUME NEW io, NEW b \in sessions, CloseSession(b, io) PROVE Goal
  <2> DEFINE p == b.token.participant
             boot == b.token.boot
             t == RecordFence(mem, p, boot)
             undone == [mem EXCEPT !.fences = Truncate(t.fences, Len(mem.fences))]
             kept == sessions \ {b}
  <2>1. p \in Participants /\ boot \in Boots
    BY <1>1 DEF Bindings, Tokens
  <2>2. Derived(t, minted) /\ Derived(undone, minted)
    BY <1>1, <1>3, <2>1, GrantsUntouched, UndosKeepGrants
  <2>3. \/ Save(t, undone, kept, io) /\ minted' = minted
        \/ UNCHANGED <<mem, disk, minted>>
    BY <1>16 DEF CloseSession
  <2> HIDE DEF t, undone, kept
  <2> QED
    BY <1>4, <1>5, <2>2, <2>3
<1>17. ASSUME NEW io, Open(io) PROVE Goal
  <2> DEFINE t == MutateEpoch(disk)
  <2>1. t.grants = disk.grants
    BY <1>1 DEF MutateEpoch, Wf, States
  <2> HIDE DEF t
  <2>2. Derived(t, minted)
    BY <1>1, <2>1, DerivedAlike
  <2>3. CASE OpenRefused
    BY <1>5, <2>3 DEF OpenRefused, vars
  <2>4. CASE minted' = minted /\ OpenKeeping
    BY <1>1, <2>4 DEF OpenKeeping, Goal
  <2>5. CASE minted' = minted /\ OpenAdvancing(io)
    <3>1. disk' = t /\ mem' \in {t, InitialState}
      BY <2>5 DEF OpenAdvancing, DieInSave, t
    <3> QED
      BY <1>2, <2>2, <2>5, <3>1 DEF Goal
  <2> QED
    BY <1>17, <2>3, <2>4, <2>5 DEF Open
<1>18. ASSUME NEW io, Flush(io) PROVE Goal
  BY <1>1, <1>4, <1>18 DEF Flush
<1>19. ASSUME Step(Outcomes) PROVE Goal
  BY <1>7, <1>8, <1>9, <1>10, <1>11, <1>12, <1>13, <1>14, <1>15, <1>16, <1>17, <1>18, <1>19
     DEF Step
<1>20. Goal
  BY <1>5, <1>19 DEF vars
<1> QED
  BY <1>20 DEF Goal

\* A delegated grant never has more scopes than its parent, is of its epoch and
\* is revoked with it, in every durable image: with batches, shared boots and
\* saves that fail anywhere, although the undo of a failed revocation revives
\* grants that were revoked before.
THEOREM DelegationSurvivesFailures == FaultySpec => []DelegationBounded
<1>1. Init => FInv
  <2>1. Init => IInv
    BY InitInv
  <2>2. Init => Derived(mem, minted) /\ Derived(disk, minted)
    BY InitialDerived DEF Init
  <2> QED
    BY <2>1, <2>2 DEF FInv
<1>2. FInv /\ [FaultyNext]_vars => FInv'
  <2> SUFFICES ASSUME FInv, [FaultyNext]_vars PROVE FInv'
    OBVIOUS
  <2>1. IInv'
    BY StepInv DEF FInv, FaultyNext
  <2>2. (Derived(mem, minted) /\ Derived(disk, minted))'
    BY StepDerives DEF FaultyNext
  <2> QED
    BY <2>1, <2>2 DEF FInv
<1>3. FInv => DelegationBounded
  BY DEF FInv, Derived, Delegated, DelegationBounded
<1> QED
  BY <1>1, <1>2, <1>3, PTL DEF FaultySpec

=============================================================================

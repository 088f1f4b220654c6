-------------------------- MODULE RuntimeProperties --------------------------
(***************************************************************************)
(* What the coordinator promises about incarnations, epochs, idempotent    *)
(* answers, grants and sessions, stated on the behaviours of EpochRuntime. *)
(***************************************************************************)
EXTENDS EpochRuntime

Bindings == [id: SessionIds, token: Tokens]

\* The bounded tables of a state are within their limits.
WithinLimits(s) ==
  /\ Len(s.fences) <= MaxRecentFences
  /\ Len(s.transitions) <= MaxTransitions
  /\ Len(s.control) <= MaxIdempotency
  /\ Len(s.grants) <= MaxGrants
  /\ \A p \in Participants : /\ Len(s.parts[p].ring) <= MaxFencedBoots
                             /\ Len(s.parts[p].idem) <= MaxIdempotency

\* Type invariant: every table holds records of its kind and is within its
\* limit, in memory and in the durable image.
TypeOK ==
  /\ up \in BOOLEAN
  /\ mem \in States /\ WithinLimits(mem)
  /\ disk \in States /\ WithinLimits(disk)
  /\ watermark \in Nat
  /\ sessions \in SUBSET Bindings
  /\ minted \in Nat
  /\ issued \in SUBSET Tokens
  /\ exposed \in Nat

-----------------------------------------------------------------------------
(* Incarnations and fences. *)

\* A boot that a retained fence names, in the recent fences or in its
\* participant's ring, holds no current incarnation of that participant: the
\* checks of apply_registration and the removal in record_fence together keep
\* the two kinds of record apart, over pruning, epochs and restarts.
NoFencedLive(s) ==
  \A p \in Participants : \A i \in DOMAIN s.parts[p].live :
    ~LookupFence(s, p, s.parts[p].live[i].boot)

FencedNotLive == NoFencedLive(mem) /\ NoFencedLive(disk)

\* A participant and an incarnation sequence name one boot and one epoch for
\* ever: the allocator never hands a sequence out twice, not even after the
\* fence that closed it has been pruned or the process has been restarted.
NeverReissued ==
  \A k, l \in issued :
    k.participant = l.participant /\ k.inc = l.inc => k = l

\* Once the runtime stops accepting a token that was shown, it never accepts
\* it again: fencing, retirement and epoch change are final for the token,
\* whatever is pruned, re-registered or restarted afterwards.
NoResurrection ==
  [][\A k \in issued : Accepts(disk', k) => Accepts(disk, k)]_vars

\* A single-incarnation participant never has two current incarnations.
OneIncarnation ==
  \A p \in Participants :
    mem.parts[p].policy = "single" => Len(mem.parts[p].live) <= 1

\* The durable history of a participant only grows: a record never
\* disappears, retirement is final, and the fencing floor, the allocator and
\* the generations never fall.
HistoryGrows ==
  [][\A p \in Participants :
       LET old == disk.parts[p] new == disk'.parts[p] IN
       /\ old.status # "unknown" => new.status # "unknown"
       /\ old.status = "retired" => new.status = "retired"
       /\ new.floor >= old.floor
       /\ new.next >= old.next
       /\ new.regGen >= old.regGen
       /\ new.fenceGen >= old.fenceGen]_vars

-----------------------------------------------------------------------------
(* Epochs and restarts. *)

\* No epoch the coordinator shows is below one it showed before, across failed
\* saves, failed advancements, crashes and restarts.
EpochMonotone ==
  [][up' => mem'.epoch >= exposed]_vars

\* A new process shows an epoch higher than any process showed before it.
RestartAdvances ==
  [][~up /\ up' => mem'.epoch > exposed]_vars

\* The image is always an admissible one, and never behind what callers were
\* shown: persist orders the save before the answer, and save orders the image
\* before the watermark, so the epoch in memory is the highest that was shown
\* and the watermark does not pass it.
Durable ==
  /\ Admissible
  /\ disk.epoch >= exposed
  /\ up => mem.epoch = exposed /\ watermark <= mem.epoch

\* Whatever step of a save a crash or a throw interrupted, the state that the
\* next process decodes passes validate_durable_state and is not taken for one
\* that was rolled back: the image is replaced before the watermark is raised.
\* That its bytes decode is ImageLoads.
RestartAdmitted == ~up => Admissible

\* With one owner per boot, no operation the runtime accepts builds an image
\* its own durable validation rejects.
SavesAccepted ==
  up =>
    /\ \A r \in RegisterRequests :
         RegisterOutcome(mem, r) = "Registered" => Valid(RegisterTo(mem, r))
    /\ \A r \in FenceRequests :
         FenceOutcome(mem, r) = "Fenced" => Valid(FenceTo(mem, r))
    /\ \A r \in AdvanceRequests :
         AdvanceOutcome(mem, r) = "Advanced" => Valid(AdvanceTo(mem, r))
    /\ \A r \in GrantRequests :
         GrantOutcome(mem, r) = "Granted" => Valid(GrantTo(mem, r, minted + 1))
    /\ \A r \in RevokeRequests :
         RevokeOutcome(mem, r) = "Revoked" => Valid(RevokeTo(mem, r))
    /\ \A r \in RetireRequests :
         RetireOutcome(mem, r) = "Retired" => Valid(RetireTo(mem, r))

-----------------------------------------------------------------------------
(* Idempotent answers. *)

\* What a replay of a participant's record would assert is still so.
TrueOfParticipant(p, rec) ==
  LET op == rec.sem.op IN
  /\ op = "register" => \E k \in issued : /\ k.participant = p
                                          /\ k.boot = rec.sem.boot
                                          /\ k.inc = rec.value
  /\ op = "fence" => <<p, rec.sem.boot, rec.value>> \notin Live(mem)
  /\ op = "grant" => GrantAt(mem, rec.value) # {}
  /\ op = "retire" => mem.parts[p].status = "retired"

\* What a replay of a control record would assert is still so.
TrueOfControl(rec) ==
  /\ rec.sem.op = "advance" => rec.value <= mem.epoch
  /\ rec.sem.op = "revoke" =>
       \E i \in GrantAt(mem, rec.sem.grant) : Revoked(mem.grants[i])

\* A retained idempotency record only answers for what happened: the
\* incarnation was issued, the fenced one is not current, the grant exists or
\* is revoked, the participant is retired, the epoch was reached.
AnswersAreTrue ==
  up => /\ \A p \in Participants : \A i \in DOMAIN mem.parts[p].idem :
             TrueOfParticipant(p, mem.parts[p].idem[i])
        /\ \A i \in DOMAIN mem.control : TrueOfControl(mem.control[i])

-----------------------------------------------------------------------------
(* Grants. *)

\* A delegated grant never has a scope its parent lacks, and never outlives
\* it: when a parent is revoked, so is everything derived from it.
DelegationBounded ==
  \A i \in DOMAIN disk.grants :
    disk.grants[i].parent # 0 =>
      \E j \in GrantAt(disk, disk.grants[i].parent) :
        /\ disk.grants[i].scopes \subseteq disk.grants[j].scopes
        /\ disk.grants[i].epoch = disk.grants[j].epoch
        /\ Revoked(disk.grants[j]) => Revoked(disk.grants[i])

\* A grant is never forgotten and never un-revoked.
RevocationFinal ==
  [][\A i \in DOMAIN disk.grants :
       /\ i \in DOMAIN disk'.grants
       /\ disk'.grants[i].id = disk.grants[i].id
       /\ Revoked(disk.grants[i]) => Revoked(disk'.grants[i])]_vars

\* The ring has never been full, and so has dropped no boot.
Complete(part) == Len(part.ring) < MaxFencedBoots

\* A validation that presents a grant succeeds only for the incarnation the
\* grant was given to, although validate compares its boot and not its
\* incarnation: for as long as the ring of the grant's participant has room, and
\* so has every boot that was fenced.  Once the ring has dropped the boot, an
\* incarnation the boot registers later validates with the old grant.
GrantsFollowWhileRetained ==
  up => \A i \in DOMAIN mem.grants, k \in issued, sc \in Scopes :
          LET g == mem.grants[i] IN
          /\ Complete(mem.parts[g.participant])
          /\ Validate(mem, [token |-> k, scope |-> sc, gen |-> 0, grant |-> g.id]) = "Current"
          => k.boot = g.boot /\ k.inc = g.inc

\* A token of another epoch than the current one is never accepted, with
\* whatever grant it is presented.
OldEpochsAreStale ==
  up => \A k \in issued, sc \in Scopes, g \in 0..minted :
          Validate(mem, [token |-> k, scope |-> sc, gen |-> 0, grant |-> g]) = "Current"
            => k.epoch = mem.epoch

-----------------------------------------------------------------------------
(* Sessions. *)

\* With fence_on_session_loss, an incarnation whose session is closed is no
\* longer current when the close returns.
LostSessionIsFenced ==
  [][\A b \in sessions \ sessions' :
       FenceOnSessionLoss /\ up' =>
         <<b.token.participant, b.token.boot, b.token.inc>> \notin Live(mem')]_vars

=============================================================================

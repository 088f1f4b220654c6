------------------------------ MODULE MCRuntime ------------------------------
(***************************************************************************)
(* Small instances of the coordinator for TLC.  Participants are 1 and 2;  *)
(* a deployment says which worker boots present themselves for which.      *)
(***************************************************************************)
EXTENDS RuntimeProperties, TLC

\* Participant 1 alone, reincarnated on two boots.
TwoBoots == {<<1, 11>>, <<1, 12>>}

\* Two participants with a boot each, or the first with a spare one.
OneBootEach == {<<1, 11>>, <<2, 21>>}

SpareBoot == {<<1, 11>>, <<1, 12>>, <<2, 21>>}

\* One boot identifier presented for both participants.
SharedBoot == {<<1, 11>>, <<2, 11>>}

\* Two participants with two boots each, registered one by one or by a batch
\* for a new boot of the second and an old one of the first.
TwoBootsEach == {<<1, 11>>, <<1, 12>>, <<2, 21>>, <<2, 22>>}

NewcomerAndFenced == {<<<<2, 22>>, <<1, 11>>>>}

\* The two boots of participant 1 in one batch.
NewBootFirst == {<<<<1, 12>>, <<1, 11>>>>}

\* Attempt and session identifiers are only compared for equality, so they
\* are interchangeable.
Symmetry == Permutations(Attempts) \cup Permutations(SessionIds)

=============================================================================

------------------------------ MODULE MCServer ------------------------------
(***************************************************************************)
(* EpochServer for TLC: the workers that the connections register.         *)
(***************************************************************************)
EXTENDS EpochServer

\* One worker that connects again, and again.
SameWorker == [c \in Connections |-> [participant |-> "p1", boot |-> "b1"]]

\* Participants of their own that share one boot.
SharedBoot == [c \in Connections |-> [participant |-> c, boot |-> "b1"]]

=============================================================================

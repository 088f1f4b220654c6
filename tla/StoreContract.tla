--------------------------- MODULE StoreContract ---------------------------
(***************************************************************************)
(* What a coordinator relies on its durable store for: an image that is    *)
(* replaced in one step and never by an older one, a watermark that        *)
(* follows the image and never passes it, and acknowledgements that are    *)
(* only given for the image that is in place.                              *)
(***************************************************************************)
EXTENDS Naturals

CONSTANT Images     \* records with an epoch and a revision

VARIABLES
  image,   \* the durable image
  mark,    \* the durable epoch watermark
  acked    \* the last image a save was acknowledged for

vars == <<image, mark, acked>>

Init ==
  /\ image = [epoch |-> 0, rev |-> 0]
  /\ mark = 0
  /\ acked = image

\* A newer image takes the place of the old one.  Its epoch may be lower than
\* that of an image whose save failed, never lower than the watermark.
Replace(t) ==
  /\ t.rev > image.rev
  /\ t.epoch >= mark
  /\ image' = t
  /\ UNCHANGED <<mark, acked>>

Raise ==
  /\ mark' = image.epoch
  /\ mark' > mark
  /\ UNCHANGED <<image, acked>>

Acknowledge ==
  /\ mark >= image.epoch
  /\ acked' = image
  /\ UNCHANGED <<image, mark>>

Next == (\E t \in Images : Replace(t)) \/ Raise \/ Acknowledge

Spec == Init /\ [][Next]_vars

=============================================================================

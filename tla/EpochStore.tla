----------------------------- MODULE EpochStore -----------------------------
(***************************************************************************)
(* The durable store, one file operation at a time.                        *)
(*                                                                         *)
(* A store is an image file and a watermark file.  A save reads the        *)
(* watermark, writes the image to a temporary file of its own, renames it  *)
(* over the image and, when the epoch is higher than the watermark it      *)
(* read, does the same for the watermark.  Any of these may throw, and the *)
(* process may die between any two of them.  The store is used by the      *)
(* coordinator processes pointed at it; each holds the state it last saved *)
(* or loaded.  An image is abstracted to its epoch and to a revision that  *)
(* tells every save apart.                                                 *)
(***************************************************************************)
EXTENDS Integers, FiniteSets

CONSTANTS
  Processes,     \* coordinator processes pointed at this store
  MaxEpoch,      \* the largest CoordinatorEpoch (UINT64_MAX in the code)
  MaxRev,        \* bound of the model on saves
  Mishaps        \* what may happen around the processes

ASSUME StoreAssumption ==
  /\ MaxEpoch \in Nat /\ MaxRev \in Nat
  /\ Mishaps \subseteq {"error", "power", "restored", "removed"}

VARIABLES
  image,    \* the file at options.path
  mark,     \* the epoch in the watermark file, 0 when there is none
  backup,   \* a copy of the image file an operator keeps
  settled,  \* the image and the watermark a power loss is sure to leave
  temps,    \* the temporary files, named by their save and their kind
  pc,       \* where each process is
  own,      \* the state each process holds in memory
  next,     \* the state each process is saving
  prev,     \* the watermark each save read first
  opened,   \* the processes whose constructor has finished
  revs,     \* how many saves were begun
  died,     \* history: the saves whose process died
  acked,    \* history: the last image a save was acknowledged for
  void,     \* history: whether a process found a watermark and no image, or a
            \* power loss took back a rename
  upheld    \* history: the image, the watermark and the acknowledgement the
            \* processes left, up to one of these

vars == <<image, mark, backup, settled, temps, pc, own, next, prev, opened, revs, died, acked, void, upheld>>

Epochs == 0..MaxEpoch

Images == [epoch: Epochs, rev: 0..MaxRev]

\* No image file; initial_state() has the same epoch.
NoImage == [epoch |-> 0, rev |-> 0]

Saving == {"encoded", "written", "replaced", "marking", "saved"}

Init ==
  /\ image = NoImage
  /\ mark = 0
  /\ backup = NoImage
  /\ settled = [image |-> NoImage, mark |-> 0]
  /\ temps = {}
  /\ pc = [p \in Processes |-> "down"]
  /\ own = [p \in Processes |-> NoImage]
  /\ next = [p \in Processes |-> NoImage]
  /\ prev = [p \in Processes |-> 0]
  /\ opened = {}
  /\ revs = 0
  /\ died = {}
  /\ acked = NoImage
  /\ void = FALSE
  /\ upheld = [image |-> NoImage, mark |-> 0, acked |-> NoImage]

\* What a process leaves counts for upheld.
Uphold(left) == upheld' = IF void THEN upheld ELSE left

-----------------------------------------------------------------------------
(* load: the image first, the watermark after it. *)

\* A missing image is a fresh start, whatever the watermark says.
ReadImage(p) ==
  /\ pc[p] = "down"
  /\ own' = [own EXCEPT ![p] = image]
  /\ pc' = [pc EXCEPT ![p] = IF image = NoImage THEN "ready" ELSE "loaded"]
  /\ void' = (void \/ (image = NoImage /\ mark > 0))
  /\ UNCHANGED <<image, mark, backup, settled, temps, next, prev, opened, revs, died, acked, upheld>>

\* A fault of CheckMark: the watermark is not compared.
TrustImage(p) ==
  /\ pc[p] = "loaded"
  /\ pc' = [pc EXCEPT ![p] = "ready"]
  /\ UNCHANGED <<image, mark, backup, settled, temps, own, next, prev, opened, revs, died, acked, void, upheld>>

\* An image below the watermark is refused as a rollback.
CheckMark(p) ==
  /\ pc[p] = "loaded"
  /\ pc' = [pc EXCEPT ![p] = IF own[p].epoch < mark THEN "down" ELSE "ready"]
  /\ UNCHANGED <<image, mark, backup, settled, temps, own, next, prev, opened, revs, died, acked, void, upheld>>

-----------------------------------------------------------------------------
(* save. *)

\* A fault of BeginSave: the exhausted epoch is incremented.
BeginSaveUnchecked(p, e) ==
  /\ pc[p] = "ready"
  /\ e = own[p].epoch
  /\ revs < MaxRev
  /\ revs' = revs + 1
  /\ next' = [next EXCEPT ![p] = [epoch |-> e + 1, rev |-> revs']]
  /\ prev' = [prev EXCEPT ![p] = mark]
  /\ pc' = [pc EXCEPT ![p] = "encoded"]
  /\ UNCHANGED <<image, mark, backup, settled, temps, own, opened, died, acked, void, upheld>>

\* The watermark is read and the image encoded.  A constructor saves the next
\* epoch; afterwards a save keeps the epoch or advances it.
BeginSave(p, e) ==
  /\ pc[p] = "ready"
  /\ e = own[p].epoch + 1 \/ (p \in opened /\ e = own[p].epoch)
  /\ e <= MaxEpoch
  /\ revs < MaxRev
  /\ revs' = revs + 1
  /\ next' = [next EXCEPT ![p] = [epoch |-> e, rev |-> revs']]
  /\ prev' = [prev EXCEPT ![p] = mark]
  /\ pc' = [pc EXCEPT ![p] = "encoded"]
  /\ UNCHANGED <<image, mark, backup, settled, temps, own, opened, died, acked, void, upheld>>

Temp(p, kind) == <<next[p].rev, kind>>

\* write_all_durable on the image's temporary file.
WriteTemp(p) ==
  /\ pc[p] = "encoded"
  /\ temps' = temps \cup {Temp(p, "image")}
  /\ pc' = [pc EXCEPT ![p] = "written"]
  /\ UNCHANGED <<image, mark, backup, settled, own, next, prev, opened, revs, died, acked, void, upheld>>

\* A fault of ReplaceImage: the watermark goes first.
ReplaceMarkFirst(p) ==
  /\ pc[p] = "written"
  /\ mark' = IF next[p].epoch > prev[p] THEN next[p].epoch ELSE mark
  /\ image' \in {image, next[p]}
  /\ temps' = temps \ {Temp(p, "image")}
  /\ pc' = [pc EXCEPT ![p] = IF image' = image THEN "down" ELSE "saved"]
  /\ upheld' = IF void THEN upheld ELSE [upheld EXCEPT !.image = image', !.mark = mark']
  /\ UNCHANGED <<backup, settled, own, next, prev, opened, revs, died, acked, void>>

\* atomic_replace.
ReplaceImage(p) ==
  /\ pc[p] = "written"
  /\ image' = next[p]
  /\ temps' = temps \ {Temp(p, "image")}
  /\ pc' = [pc EXCEPT ![p] = IF next[p].epoch > prev[p] THEN "replaced" ELSE "saved"]
  /\ Uphold([upheld EXCEPT !.image = next[p]])
  /\ UNCHANGED <<mark, backup, settled, own, next, prev, opened, revs, died, acked, void>>

\* write_watermark, in two steps of the same kind.
WriteMarkTemp(p) ==
  /\ pc[p] = "replaced"
  /\ temps' = temps \cup {Temp(p, "mark")}
  /\ pc' = [pc EXCEPT ![p] = "marking"]
  /\ UNCHANGED <<image, mark, backup, settled, own, next, prev, opened, revs, died, acked, void, upheld>>

ReplaceMark(p) ==
  /\ pc[p] = "marking"
  /\ mark' = next[p].epoch
  /\ temps' = temps \ {Temp(p, "mark")}
  /\ pc' = [pc EXCEPT ![p] = "saved"]
  /\ Uphold([upheld EXCEPT !.mark = next[p].epoch])
  /\ UNCHANGED <<image, backup, settled, own, next, prev, opened, revs, died, acked, void>>

\* A fault of Acknowledge: it does not wait for the image to be replaced.
AcknowledgeEarly(p) ==
  /\ pc[p] \in {"written", "saved"}
  /\ own' = [own EXCEPT ![p] = next[p]]
  /\ acked' = next[p]
  /\ opened' = opened \cup {p}
  /\ pc' = [pc EXCEPT ![p] = "ready"]
  /\ Uphold([upheld EXCEPT !.acked = next[p]])
  /\ UNCHANGED <<image, mark, backup, settled, temps, next, prev, revs, died, void>>

\* save returns, and the operation it belongs to is acknowledged.
Acknowledge(p) ==
  /\ pc[p] = "saved"
  /\ own' = [own EXCEPT ![p] = next[p]]
  /\ acked' = next[p]
  /\ opened' = opened \cup {p}
  /\ pc' = [pc EXCEPT ![p] = "ready"]
  /\ Uphold([upheld EXCEPT !.acked = next[p]])
  /\ UNCHANGED <<image, mark, backup, settled, temps, next, prev, revs, died, void>>

\* A fault of Throw: the temporary file stays.
ThrowLeaving(p) ==
  /\ pc[p] \in Saving \ {"saved"}
  /\ pc' = [pc EXCEPT ![p] = IF p \in opened THEN "ready" ELSE "down"]
  /\ UNCHANGED <<image, mark, backup, settled, temps, own, next, prev, opened, revs, died, acked, void, upheld>>

\* A file operation throws: TempFileGuard removes the temporary file and the
\* runtime keeps its old state, or the constructor throws.
Throw(p) ==
  /\ "error" \in Mishaps
  /\ pc[p] \in Saving \ {"saved"}
  /\ temps' = temps \ {Temp(p, "image"), Temp(p, "mark")}
  /\ pc' = [pc EXCEPT ![p] = IF p \in opened THEN "ready" ELSE "down"]
  /\ UNCHANGED <<image, mark, backup, settled, own, next, prev, opened, revs, died, acked, void, upheld>>

-----------------------------------------------------------------------------
(* What happens to processes and files. *)

Die(dying) ==
  /\ died' = died \cup {next[p].rev : p \in {q \in dying : pc[q] \in Saving}}
  /\ pc' = [p \in Processes |-> IF p \in dying THEN "down" ELSE pc[p]]
  /\ opened' = opened \ dying

Crash(p) ==
  /\ pc[p] # "down"
  /\ Die({p})
  /\ UNCHANGED <<image, mark, backup, settled, temps, own, next, prev, revs, acked, void, upheld>>

\* The file system writes its directory out in its own time, at once where
\* the rename asks for it (MOVEFILE_WRITE_THROUGH; POSIX rename does not).
Settle ==
  /\ settled # [image |-> image, mark |-> mark]
  /\ settled' = [image |-> image, mark |-> mark]
  /\ UNCHANGED <<image, mark, backup, temps, pc, own, next, prev, opened, revs, died, acked, void, upheld>>

\* A rename that was not written out may be lost with the power.
PowerLoss ==
  /\ "power" \in Mishaps
  /\ \E p \in Processes : pc[p] # "down"
  /\ image' \in {image, settled.image}
  /\ mark' \in {mark, settled.mark}
  /\ settled' = [image |-> image', mark |-> mark']
  /\ Die(Processes)
  /\ void' = (void \/ image' # image \/ mark' # mark)
  /\ UNCHANGED <<backup, temps, own, next, prev, revs, acked, upheld>>

\* While no process runs, an operator copies the image file, puts the copy
\* back, or the image file is lost; the watermark file stays.
NoneRunning == \A p \in Processes : pc[p] = "down"

Backup ==
  /\ "restored" \in Mishaps
  /\ NoneRunning
  /\ backup # image
  /\ backup' = image
  /\ UNCHANGED <<image, mark, settled, temps, pc, own, next, prev, opened, revs, died, acked, void, upheld>>

PutInPlace(file) ==
  /\ NoneRunning
  /\ image # file
  /\ image' = file
  /\ settled' = [settled EXCEPT !.image = file]
  /\ UNCHANGED <<mark, backup, temps, pc, own, next, prev, opened, revs, died, acked, void, upheld>>

Restore == "restored" \in Mishaps /\ backup # NoImage /\ PutInPlace(backup)

Remove == "removed" \in Mishaps /\ PutInPlace(NoImage)

-----------------------------------------------------------------------------

Next ==
  \/ \E p \in Processes :
       \/ ReadImage(p) \/ CheckMark(p)
       \/ \E e \in Epochs : BeginSave(p, e)
       \/ WriteTemp(p) \/ ReplaceImage(p) \/ WriteMarkTemp(p) \/ ReplaceMark(p)
       \/ Acknowledge(p) \/ Throw(p) \/ Crash(p)
  \/ Backup \/ Restore \/ Remove
  \/ Settle
  \/ PowerLoss

Spec == Init /\ [][Next]_vars

\* Bound: a store whose contract is void is not followed further.
Followed == ~void

-----------------------------------------------------------------------------
(* Properties. *)

\* Type invariant.
TypeOK ==
  /\ image \in Images
  /\ mark \in Epochs
  /\ backup \in Images
  /\ settled \in [image: Images, mark: Epochs]
  /\ temps \subseteq (0..MaxRev) \X {"image", "mark"}
  /\ pc \in [Processes -> Saving \cup {"down", "loaded", "ready"}]
  /\ own \in [Processes -> Images]
  /\ next \in [Processes -> Images]
  /\ prev \in [Processes -> Epochs]
  /\ opened \subseteq Processes
  /\ revs \in 0..MaxRev
  /\ died \subseteq 0..MaxRev
  /\ void \in BOOLEAN
  /\ acked \in Images
  /\ upheld \in [image: Images, mark: Epochs, acked: Images]

\* The store keeps the contract coordinators rely on: whatever throws or dies
\* between two file operations of a save, and whichever image an operator puts
\* in place, the image is replaced whole and never by an older one, the
\* watermark never passes it, and only what is in place is acknowledged.  The
\* contract ends with a start beside a watermark whose image is missing, and
\* with a power loss that takes back a rename not yet written out.
Contract == INSTANCE StoreContract WITH
  image <- upheld.image, mark <- upheld.mark, acked <- upheld.acked

KeepsContract == Contract!Spec

\* The image is the one the processes left, not one an operator put in place.
Untouched == ~void /\ image = upheld.image

\* A temporary file outlives its save only when the process died in it; a
\* save that throws leaves nothing behind.
NoDebris ==
  \A f \in temps :
    f[1] \in died \/ \E p \in Processes : pc[p] \in Saving /\ next[p].rev = f[1]

\* An acknowledged save is the state of the store until a newer one is begun
\* and replaces it.
AckedSurvives == Untouched => image.rev >= acked.rev

\* A coordinator that works on an image it has loaded does so at an epoch no
\* lower than any the watermark has recorded: the comparison in load detects
\* an image that was put back, also when saves throw in between.
EstablishesAboveMark ==
  ~void => \A p \in opened : pc[p] = "ready" => own[p].epoch >= mark

=============================================================================

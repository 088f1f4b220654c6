---------------------------- MODULE StoreProofs ----------------------------
(***************************************************************************)
(* Theorems about the durable store, for any number of saves, epochs and   *)
(* mishaps.  Types and temporary files are right with any number of        *)
(* processes on the store.  The contract is a promise to a single          *)
(* coordinator: the store has no lock, and two processes on it break the   *)
(* contract, so the theorems about it assume that there is one.            *)
(***************************************************************************)
EXTENDS EpochStore, TLAPS

USE StoreAssumption DEF StoreAssumption

\* At most one coordinator process is pointed at the store.
SingleProcess == \A p, q \in Processes : p = q


-----------------------------------------------------------------------------
(* Types. *)

\* A process that dies leaves the variables in their types.
LEMMA DieType ==
  ASSUME TypeOK, NEW dying \in SUBSET Processes, Die(dying)
  PROVE  /\ died' \subseteq 0..MaxRev
         /\ pc' \in [Processes -> Saving \cup {"down", "loaded", "ready"}]
         /\ opened' \subseteq Processes
<1>1. \A p \in Processes : next[p].rev \in 0..MaxRev
  BY DEF TypeOK, Images
<1> QED
  BY <1>1 DEF TypeOK, Die

\* What a save leaves keeps upheld a record of an image, a mark and an image;
\* the step that renames the image sets the first field.
LEMMA UpholdImage ==
  ASSUME TypeOK, NEW t \in Images, Uphold([upheld EXCEPT !.image = t])
  PROVE  /\ upheld' \in [image: Images, mark: Epochs, acked: Images]
         /\ upheld' = IF void THEN upheld
                      ELSE [image |-> t, mark |-> upheld.mark, acked |-> upheld.acked]
BY DEF TypeOK, Uphold

\* The step that renames the watermark sets the second field.
LEMMA UpholdMark ==
  ASSUME TypeOK, NEW e \in Epochs, Uphold([upheld EXCEPT !.mark = e])
  PROVE  /\ upheld' \in [image: Images, mark: Epochs, acked: Images]
         /\ upheld' = IF void THEN upheld
                      ELSE [image |-> upheld.image, mark |-> e, acked |-> upheld.acked]
BY DEF TypeOK, Uphold

\* The step that acknowledges a save sets the third field.
LEMMA UpholdAcked ==
  ASSUME TypeOK, NEW t \in Images, Uphold([upheld EXCEPT !.acked = t])
  PROVE  /\ upheld' \in [image: Images, mark: Epochs, acked: Images]
         /\ upheld' = IF void THEN upheld
                      ELSE [image |-> upheld.image, mark |-> upheld.mark, acked |-> t]
BY DEF TypeOK, Uphold

\* Every step keeps the types.
LEMMA TypeStep == TypeOK /\ [Next]_vars => TypeOK'
<1> SUFFICES ASSUME TypeOK, [Next]_vars PROVE TypeOK'
  OBVIOUS
<1>0. NoImage \in Images
  BY DEF NoImage, Images, Epochs
<1>1. ASSUME NEW p \in Processes, ReadImage(p) PROVE TypeOK'
  BY <1>1 DEF TypeOK, ReadImage
<1>2. ASSUME NEW p \in Processes, CheckMark(p) PROVE TypeOK'
  BY <1>2 DEF TypeOK, CheckMark
<1>3. ASSUME NEW p \in Processes, NEW e \in Epochs, BeginSave(p, e) PROVE TypeOK'
  <2>1. revs' \in 0..MaxRev /\ [epoch |-> e, rev |-> revs'] \in Images
    BY <1>3 DEF TypeOK, BeginSave, Images
  <2> QED
    BY <1>3, <2>1 DEF TypeOK, BeginSave, Saving
<1>4. ASSUME NEW p \in Processes, WriteTemp(p) PROVE TypeOK'
  <2>1. Temp(p, "image") \in (0..MaxRev) \X {"image", "mark"}
    BY DEF Temp, TypeOK, Images
  <2> QED
    BY <1>4, <2>1 DEF TypeOK, WriteTemp, Saving
<1>5. ASSUME NEW p \in Processes, ReplaceImage(p) PROVE TypeOK'
  <2>1. upheld' \in [image: Images, mark: Epochs, acked: Images]
    BY <1>5, UpholdImage DEF ReplaceImage, TypeOK
  <2> QED
    BY <1>5, <2>1 DEF TypeOK, ReplaceImage, Saving
<1>6. ASSUME NEW p \in Processes, WriteMarkTemp(p) PROVE TypeOK'
  <2>1. Temp(p, "mark") \in (0..MaxRev) \X {"image", "mark"}
    BY DEF Temp, TypeOK, Images
  <2> QED
    BY <1>6, <2>1 DEF TypeOK, WriteMarkTemp, Saving
<1>7. ASSUME NEW p \in Processes, ReplaceMark(p) PROVE TypeOK'
  <2>1. next[p].epoch \in Epochs
    BY DEF TypeOK, Images
  <2>2. upheld' \in [image: Images, mark: Epochs, acked: Images]
    BY <1>7, <2>1, UpholdMark DEF ReplaceMark
  <2> QED
    BY <1>7, <2>1, <2>2 DEF TypeOK, ReplaceMark, Saving
<1>8. ASSUME NEW p \in Processes, Acknowledge(p) PROVE TypeOK'
  <2>1. upheld' \in [image: Images, mark: Epochs, acked: Images]
    BY <1>8, UpholdAcked DEF Acknowledge, TypeOK
  <2> QED
    BY <1>8, <2>1 DEF TypeOK, Acknowledge
<1>9. ASSUME NEW p \in Processes, Throw(p) PROVE TypeOK'
  BY <1>9 DEF TypeOK, Throw
<1>10. ASSUME NEW p \in Processes, Crash(p) PROVE TypeOK'
  BY <1>10, DieType DEF TypeOK, Crash
<1>11. CASE Backup
  BY <1>11 DEF TypeOK, Backup
<1>12. ASSUME NEW file \in Images, PutInPlace(file) PROVE TypeOK'
  BY <1>12 DEF TypeOK, PutInPlace
<1>13. CASE Restore
  BY <1>12, <1>13 DEF Restore, TypeOK
<1>14. CASE Remove
  BY <1>0, <1>12, <1>14 DEF Remove
<1>15. CASE Settle
  BY <1>15 DEF TypeOK, Settle
<1>16. CASE PowerLoss
  BY <1>16, DieType DEF TypeOK, PowerLoss
<1>17. CASE UNCHANGED vars
  BY <1>17 DEF TypeOK, vars
<1> QED
  BY <1>1, <1>2, <1>3, <1>4, <1>5, <1>6, <1>7, <1>8, <1>9, <1>10, <1>11, <1>13, <1>14,
     <1>15, <1>16, <1>17 DEF Next

\* The initial store is well typed.
LEMMA TypeInit == Init => TypeOK
<1>1. NoImage \in Images /\ 0 \in Epochs
  BY DEF NoImage, Images, Epochs
<1>2. 0 \in 0..MaxRev
  OBVIOUS
<1>3. Init => /\ settled \in [image: Images, mark: Epochs]
              /\ upheld \in [image: Images, mark: Epochs, acked: Images]
  BY <1>1 DEF Init
<1>4. Init => /\ pc \in [Processes -> Saving \cup {"down", "loaded", "ready"}]
              /\ own \in [Processes -> Images] /\ next \in [Processes -> Images]
              /\ prev \in [Processes -> Epochs]
  BY <1>1 DEF Init
<1> QED
  BY <1>1, <1>2, <1>3, <1>4 DEF Init, TypeOK

\* The files and what the processes hold keep their types through every save,
\* throw, crash, power loss and restored backup, whatever the bounds are.
THEOREM StoreTypeCorrect == Spec => []TypeOK
BY TypeInit, TypeStep, PTL DEF Spec

-----------------------------------------------------------------------------
(* Temporary files. *)

\* The temporary file a save is working on, when it has one.
TempsAccounted ==
  \A f \in temps :
    \/ f[1] \in died
    \/ \E p \in Processes : \/ pc[p] = "written" /\ f = Temp(p, "image")
                            \/ pc[p] = "marking" /\ f = Temp(p, "mark")

\* A file that is accounted for is no debris.
LEMMA AccountedIsNoDebris == TempsAccounted => NoDebris
BY DEF TempsAccounted, NoDebris, Temp, Saving

\* What dying processes were saving is accounted for as theirs.
LEMMA DieAccounted ==
  ASSUME TypeOK, TempsAccounted, NEW dying \in SUBSET Processes, Die(dying),
         UNCHANGED <<temps, next>>
  PROVE  TempsAccounted'
<1> SUFFICES ASSUME NEW f \in temps
             PROVE  \/ f[1] \in died'
                    \/ \E p \in Processes : \/ pc'[p] = "written" /\ f = Temp(p, "image")'
                                            \/ pc'[p] = "marking" /\ f = Temp(p, "mark")'
  BY DEF TempsAccounted
<1>1. CASE f[1] \in died
  BY <1>1 DEF Die
<1>2. ASSUME NEW p \in Processes,
             \/ pc[p] = "written" /\ f = Temp(p, "image")
             \/ pc[p] = "marking" /\ f = Temp(p, "mark")
      PROVE  f[1] \in died' \/ (pc'[p] = pc[p] /\ p \in Processes)
  <2>1. CASE p \in dying
    <3>1. f[1] = next[p].rev /\ pc[p] \in Saving
      BY <1>2 DEF Temp, Saving
    <3> QED
      BY <2>1, <3>1 DEF Die
  <2>2. CASE p \notin dying
    BY <2>2 DEF Die
  <2> QED
    BY <2>1, <2>2
<1> QED
  BY <1>1, <1>2 DEF TempsAccounted, Temp

\* Every step keeps the temporary files accounted for.
LEMMA AccountedStep == TypeOK /\ TempsAccounted /\ [Next]_vars => TempsAccounted'
<1> SUFFICES ASSUME TypeOK, TempsAccounted, [Next]_vars PROVE TempsAccounted'
  OBVIOUS
<1> USE DEF TempsAccounted, Temp
<1>1. ASSUME NEW p \in Processes, ReadImage(p) PROVE TempsAccounted'
  BY <1>1 DEF ReadImage, TypeOK
<1>2. ASSUME NEW p \in Processes, CheckMark(p) PROVE TempsAccounted'
  BY <1>2 DEF CheckMark, TypeOK
<1>3. ASSUME NEW p \in Processes, NEW e \in Epochs, BeginSave(p, e) PROVE TempsAccounted'
  BY <1>3 DEF BeginSave, TypeOK
<1>4. ASSUME NEW p \in Processes, WriteTemp(p) PROVE TempsAccounted'
  BY <1>4 DEF WriteTemp, TypeOK
<1>5. ASSUME NEW p \in Processes, ReplaceImage(p) PROVE TempsAccounted'
  BY <1>5 DEF ReplaceImage, TypeOK
<1>6. ASSUME NEW p \in Processes, WriteMarkTemp(p) PROVE TempsAccounted'
  BY <1>6 DEF WriteMarkTemp, TypeOK
<1>7. ASSUME NEW p \in Processes, ReplaceMark(p) PROVE TempsAccounted'
  BY <1>7 DEF ReplaceMark, TypeOK
<1>8. ASSUME NEW p \in Processes, Acknowledge(p) PROVE TempsAccounted'
  BY <1>8 DEF Acknowledge, TypeOK
<1>9. ASSUME NEW p \in Processes, Throw(p) PROVE TempsAccounted'
  BY <1>9 DEF Throw, TypeOK
<1>10. ASSUME NEW p \in Processes, Crash(p) PROVE TempsAccounted'
  BY <1>10, DieAccounted DEF Crash
<1>11. CASE Backup \/ Settle \/ Restore \/ Remove
  BY <1>11 DEF Backup, Settle, Restore, Remove, PutInPlace
<1>12. CASE PowerLoss
  BY <1>12, DieAccounted DEF PowerLoss
<1>13. CASE UNCHANGED vars
  BY <1>13 DEF vars
<1> QED
  BY <1>1, <1>2, <1>3, <1>4, <1>5, <1>6, <1>7, <1>8, <1>9, <1>10, <1>11, <1>12, <1>13
  DEF Next

\* A save that throws leaves no temporary file behind, however many processes
\* save at once: one that is left belongs to a process that died in its save.
THEOREM ThrownSavesLeaveNothing == Spec => []NoDebris
<1>1. Init => TempsAccounted
  BY DEF Init, TempsAccounted
<1> QED
  BY <1>1, TypeInit, TypeStep, AccountedStep, AccountedIsNoDebris, PTL DEF Spec

-----------------------------------------------------------------------------
(* The contract, for a single process. *)

\* What is true of a process at each place of a save, as long as the contract
\* is not void: the watermark it read is the watermark, the state it holds is
\* at or above it, and the image in place is its own from the rename on.
Placed(p) ==
  /\ pc[p] \in {"ready", "encoded", "written", "replaced", "marking"} =>
       own[p].epoch >= mark
  /\ pc[p] \in {"encoded", "written"} =>
       /\ prev[p] = mark
       /\ next[p].epoch >= mark
       /\ next[p].rev > upheld.image.rev
       /\ next[p].rev <= revs
  /\ pc[p] \in {"replaced", "marking"} =>
       upheld.image = next[p] /\ next[p].epoch > mark
  /\ pc[p] = "saved" =>
       upheld.image = next[p] /\ next[p].epoch = mark

\* The history agrees with the files and the acknowledgements, and revisions
\* only grow.
Upheld ==
  ~void =>
    /\ upheld.mark = mark
    /\ upheld.acked = acked
    /\ acked.rev <= upheld.image.rev
    /\ upheld.image.rev <= revs
    /\ \A p \in Processes : Placed(p)

\* Saves of the single process keep the history in step with the files.
LEMMA UpheldStep ==
  ASSUME SingleProcess, TypeOK, Upheld, [Next]_vars
  PROVE  Upheld'
<1>0. CASE void'
  BY <1>0 DEF Upheld
<1>v. SUFFICES ASSUME ~void' PROVE Upheld'
  BY <1>0
<1>m. ~void
  <2>1. ASSUME NEW p \in Processes, ReadImage(p) PROVE ~void
    BY <1>v, <2>1, Zenon DEF ReadImage
  <2>2. CASE PowerLoss
    BY <1>v, <2>2, Zenon DEF PowerLoss
  <2> QED
    BY <1>v, <2>1, <2>2 DEF Next, vars, CheckMark, BeginSave, WriteTemp, ReplaceImage,
       WriteMarkTemp, ReplaceMark, Acknowledge, Throw, Crash, Settle, Backup, Restore, Remove,
       PutInPlace
<1>n. ~void /\ upheld.mark = mark /\ upheld.acked = acked
  /\ acked.rev <= upheld.image.rev /\ upheld.image.rev <= revs
  /\ \A p \in Processes : Placed(p)
  BY <1>m DEF Upheld
<1>t. /\ mark \in Int /\ revs \in Int /\ acked.rev \in Int /\ upheld.image.rev \in Int
      /\ \A p \in Processes : /\ own[p].epoch \in Int /\ next[p].epoch \in Int
                              /\ next[p].rev \in Int /\ prev[p] \in Int
  BY DEF TypeOK, Images, Epochs
<1> USE DEF Upheld, Placed, SingleProcess
<1>1. ASSUME NEW p \in Processes, ReadImage(p) PROVE Upheld'
  <2>1. CASE image = NoImage
    <3>1. ~(mark > 0)
      BY <1>1, <1>v, <2>1, Zenon DEF ReadImage
    <3>2. own'[p].epoch = 0 /\ mark = 0
      BY <1>1, <2>1, <3>1 DEF ReadImage, TypeOK, NoImage, Epochs
    <3> QED
      BY <1>1, <1>n, <1>t, <2>1, <3>2 DEF ReadImage, TypeOK
  <2>2. CASE image # NoImage
    BY <1>1, <1>n, <2>2 DEF ReadImage, TypeOK
  <2> QED
    BY <2>1, <2>2
<1>2. ASSUME NEW p \in Processes, CheckMark(p) PROVE Upheld'
  BY <1>2, <1>n, <1>t DEF CheckMark, TypeOK
<1>3. ASSUME NEW p \in Processes, NEW e \in Epochs, BeginSave(p, e) PROVE Upheld'
  <2>1. e \in Int
    BY DEF Epochs
  <2> QED
    BY <1>3, <1>n, <1>t, <2>1 DEF BeginSave, TypeOK
<1>4. ASSUME NEW p \in Processes, WriteTemp(p) PROVE Upheld'
  BY <1>4, <1>n, <1>t DEF WriteTemp, TypeOK
<1>5. ASSUME NEW p \in Processes, ReplaceImage(p) PROVE Upheld'
  <2>1. upheld' = [image |-> next[p], mark |-> upheld.mark, acked |-> upheld.acked]
    BY <1>5, <1>n, UpholdImage DEF ReplaceImage, TypeOK
  <2> QED
    BY <1>5, <1>n, <1>t, <2>1 DEF ReplaceImage, TypeOK
<1>6. ASSUME NEW p \in Processes, WriteMarkTemp(p) PROVE Upheld'
  BY <1>6, <1>n, <1>t DEF WriteMarkTemp, TypeOK
<1>7. ASSUME NEW p \in Processes, ReplaceMark(p) PROVE Upheld'
  <2>1. upheld' = [image |-> upheld.image, mark |-> next[p].epoch, acked |-> upheld.acked]
    BY <1>7, <1>n, UpholdMark DEF ReplaceMark, TypeOK, Images
  <2> QED
    BY <1>7, <1>n, <1>t, <2>1 DEF ReplaceMark, TypeOK
<1>8. ASSUME NEW p \in Processes, Acknowledge(p) PROVE Upheld'
  <2>1. upheld' = [image |-> upheld.image, mark |-> upheld.mark, acked |-> next[p]]
    BY <1>8, <1>n, UpholdAcked DEF Acknowledge, TypeOK
  <2> QED
    BY <1>8, <1>n, <1>t, <2>1 DEF Acknowledge, TypeOK
<1>9. ASSUME NEW p \in Processes, Throw(p) PROVE Upheld'
  BY <1>9, <1>n, <1>t DEF Throw, TypeOK, Saving
<1>10. ASSUME NEW p \in Processes, Crash(p) PROVE Upheld'
  BY <1>10, <1>n, <1>t DEF Crash, Die, TypeOK
<1>11. CASE Backup \/ Settle \/ Restore \/ Remove
  BY <1>11, <1>n DEF Backup, Settle, Restore, Remove, PutInPlace
<1>12. CASE PowerLoss
  <2>1. mark' = mark /\ \A p \in Processes : pc'[p] = "down"
    BY <1>12, <1>v DEF PowerLoss, Die
  <2> QED
    BY <1>12, <1>n, <2>1 DEF PowerLoss
<1>13. CASE UNCHANGED vars
  BY <1>13, <1>n DEF vars
<1> QED
  BY <1>1, <1>2, <1>3, <1>4, <1>5, <1>6, <1>7, <1>8, <1>9, <1>10, <1>11, <1>12, <1>13
  DEF Next

\* The inductive invariant holds in every state of a store with one process.
LEMMA UpheldAlways ==
  ASSUME SingleProcess
  PROVE  Spec => [](TypeOK /\ Upheld)
<1>1. Init => Upheld
  BY DEF Init, Upheld, Placed, NoImage
<1>2. TypeOK /\ Upheld /\ [Next]_vars => Upheld'
  BY UpheldStep
<1> QED
  BY <1>1, <1>2, TypeInit, TypeStep, PTL DEF Spec

\* An acknowledged save is in place until a newer one replaces it, whatever
\* throws, dies or is restored in between.
THEOREM AcknowledgedSurvives ==
  ASSUME SingleProcess
  PROVE  Spec => []AckedSurvives
<1>1. TypeOK /\ Upheld => AckedSurvives
  BY DEF TypeOK, Upheld, AckedSurvives, Untouched, Images
<1> QED
  BY <1>1, UpheldAlways, PTL

\* A coordinator that has opened its store works at an epoch no lower than
\* any the watermark has recorded: an image that was put back is detected.
THEOREM OpenedAboveMark ==
  ASSUME SingleProcess
  PROVE  Spec => []EstablishesAboveMark
<1>1. TypeOK /\ Upheld => EstablishesAboveMark
  BY DEF TypeOK, Upheld, EstablishesAboveMark, Placed
<1> QED
  BY <1>1, UpheldAlways, PTL

\* Every step of the store is a step of the contract or leaves it alone: a
\* rename of the image replaces it by a newer one, a rename of the watermark
\* raises it to the image's epoch, an acknowledgement is for what is in place.
LEMMA ContractStep ==
  ASSUME SingleProcess, TypeOK, Upheld, [Next]_vars
  PROVE  [Contract!Next]_(Contract!vars)
<1>1. CASE upheld' = upheld
  BY <1>1 DEF Contract!vars
<1>2. ASSUME NEW p \in Processes, ReplaceImage(p), ~void PROVE Contract!Replace(next[p])
  <2>1. upheld' = [image |-> next[p], mark |-> upheld.mark, acked |-> upheld.acked]
    BY <1>2, UpholdImage DEF ReplaceImage, TypeOK
  <2>2. next[p].rev > upheld.image.rev /\ next[p].epoch >= upheld.mark
    BY <1>2 DEF ReplaceImage, Upheld, Placed
  <2> QED
    BY <2>1, <2>2 DEF Contract!Replace
<1>3. ASSUME NEW p \in Processes, ReplaceMark(p), ~void PROVE Contract!Raise
  <2>1. upheld' = [image |-> upheld.image, mark |-> next[p].epoch, acked |-> upheld.acked]
    BY <1>3, UpholdMark DEF ReplaceMark, TypeOK, Images
  <2>2. next[p] = upheld.image /\ next[p].epoch > upheld.mark
    BY <1>3 DEF ReplaceMark, Upheld, Placed
  <2> QED
    BY <2>1, <2>2 DEF Contract!Raise
<1>4. ASSUME NEW p \in Processes, Acknowledge(p), ~void PROVE Contract!Acknowledge
  <2>1. upheld' = [image |-> upheld.image, mark |-> upheld.mark, acked |-> next[p]]
    BY <1>4, UpholdAcked DEF Acknowledge, TypeOK
  <2>2. next[p] = upheld.image /\ next[p].epoch = upheld.mark
    BY <1>4 DEF Acknowledge, Upheld, Placed
  <2>3. upheld.mark \in Int
    BY DEF TypeOK, Epochs
  <2> QED
    BY <2>1, <2>2, <2>3 DEF Contract!Acknowledge
<1>5. \A p \in Processes : next[p] \in Images
  BY DEF TypeOK
<1>6. ASSUME upheld' # upheld
      PROVE  \E p \in Processes : ~void /\ (ReplaceImage(p) \/ ReplaceMark(p) \/ Acknowledge(p))
  BY <1>6 DEF Next, vars, ReadImage, CheckMark, BeginSave, WriteTemp, ReplaceImage,
     WriteMarkTemp, ReplaceMark, Acknowledge, Throw, Crash, Settle, PowerLoss, Backup, Restore,
     Remove, PutInPlace, Uphold
<1> QED
  BY <1>1, <1>2, <1>3, <1>4, <1>5, <1>6 DEF Contract!Next

\* The store with its file operations, throws, crashes, power losses and
\* restored backups implements the contract its coordinator relies on.
THEOREM StoreImplementsContract ==
  ASSUME SingleProcess
  PROVE  Spec => KeepsContract
<1>1. Init => Contract!Init
  BY DEF Init, Contract!Init, NoImage
<1>2. TypeOK /\ Upheld /\ [Next]_vars => [Contract!Next]_(Contract!vars)
  BY ContractStep
<1> QED
  BY <1>1, <1>2, UpheldAlways, PTL DEF Spec, KeepsContract, Contract!Spec

=============================================================================

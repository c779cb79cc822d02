------------------------- MODULE SaveSlots_proofs --------------------------
(***************************************************************************)
(* No reported save is lost.  What is on disk is bounded above by what a   *)
(* failing step or a stop of the machine may leave of it; the invariant    *)
(* says that some slot of each kind holds the promise whichever of these   *)
(* is left.                                                                *)
(***************************************************************************)
EXTENDS SaveSlots, WellFoundedInduction, TLAPS

\* A save that was synced before it was renamed.
Good == [sequence : Nat \ {0}, synced : {TRUE}, content : Contents]

SavesTypeOK ==
    /\ files \in [Slots -> Good \cup {Empty, Unusable}]
    /\ disk \in [Slots -> SUBSET (Good \cup {Empty, Unusable})]
    /\ promised \in [Kinds -> Nat]
    /\ saves \in Nat /\ save_faults \in Nat /\ stops \in Nat
    /\ staged = Empty
       \/ staged \in [slot : Slots, next : {"sync", "rename", "sync directory"},
                      save : [sequence : Nat \ {0}, synced : BOOLEAN, content : Contents]]

\* What a slot shows is one of the things a stop may leave in it, and no
\* sequence exceeds the saves made.
DiskHoldsFiles == \A s \in Slots : files[s] \in disk[s]
SequencesAreCounted ==
    \A s \in Slots : \A save \in disk[s] : save \in Good => save.sequence <= saves

\* The save under way is newer than what was promised for its kind, is synced
\* before it is renamed, and shows in its slot before the directory is synced.
StagedIsNewer ==
    staged # Empty =>
        /\ staged.save.sequence > promised[staged.slot[1]]
        /\ staged.save.sequence <= saves
        /\ staged.next # "sync" => staged.save.synced
        /\ staged.next = "sync directory" => files[staged.slot] = staged.save

\* Whatever a stop leaves, one slot of the kind holds the promise.
PromiseIsDurable ==
    \A kind \in Kinds :
        promised[kind] > 0 =>
            \E s \in SlotsOf(kind) :
                \A save \in disk[s] : save \in Good /\ save.sequence >= promised[kind]

SavesInv ==
    SavesTypeOK /\ DiskHoldsFiles /\ SequencesAreCounted /\ StagedIsNewer /\ PromiseIsDurable

-----------------------------------------------------------------------------
(* Least and greatest elements.                                            *)

\* A set of naturals that is not empty has a least element.
LEMMA LeastNatural ==
    ASSUME NEW T, T \subseteq Nat, T # {}
    PROVE  \E x \in T : \A y \in T : x <= y
<1>1. IsWellFoundedOn(OpToRel(<, Nat), Nat)
  BY NatLessThanWellFounded
<1>2. PICK x \in T : \A y \in T : <<y, x>> \notin OpToRel(<, Nat)
  BY <1>1, WFMin, Zenon
<1>3. \A y \in T : ~(y < x)
  BY <1>2 DEF OpToRel
<1> QED BY <1>3, SMT

\* next_sequence: the maximum of a bounded set of sequences is one of them.
LEMMA MaxOfBounded ==
    ASSUME NEW T, T \subseteq Nat, T # {}, NEW b \in Nat, \A x \in T : x <= b
    PROVE  Max(T) \in T /\ \A x \in T : x <= Max(T)
<1> DEFINE Below == {b - x : x \in T}
<1>1. Below \subseteq Nat /\ Below # {}
  <2>1. \A x \in T : b - x \in Nat
    OBVIOUS
  <2>2. \E x \in T : b - x \in Below
    OBVIOUS
  <2> QED BY <2>1, <2>2
<1>2. PICK d \in Below : \A e \in Below : d <= e
  BY <1>1, LeastNatural, Zenon
<1>3. PICK m \in T : d = b - m
  BY <1>2
<1>4. \A y \in T : m >= y
  BY <1>2, <1>3
<1>5. \E m2 \in T : \A y \in T : m2 >= y
  BY <1>4
<1> DEFINE P(m2) == \A y \in T : m2 >= y
<1>6. Max(T) \in T /\ P(Max(T))
  BY <1>5 DEF Max
<1> QED BY <1>6

\* Every slot is of a kind, and no slot is of both.
LEMMA SlotKinds ==
    /\ \A s \in Slots : s[1] \in Kinds /\ s \in SlotsOf(s[1])
    /\ \A kind \in Kinds : SlotsOf(kind) \subseteq Slots /\ \A s \in SlotsOf(kind) : s[1] = kind
    /\ QuickSlot \in Slots
<1>1. \A kind \in Kinds : SlotsOf(kind) \subseteq Slots
  BY DEF Slots
<1>2. \A s \in SlotsOf("quick") : s[1] = "quick"
  BY DEF SlotsOf, QuickSlot
<1>3. \A s \in SlotsOf("auto") : s[1] = "auto"
  BY DEF SlotsOf
<1>4. \A s \in Slots : \E kind \in Kinds : s \in SlotsOf(kind)
  BY DEF Slots
<1>5. QuickSlot \in SlotsOf("quick") /\ "quick" \in Kinds
  BY DEF SlotsOf, Kinds
<1> QED BY <1>1, <1>2, <1>3, <1>4, <1>5 DEF Kinds

\* autosave: the slot chosen is one of the rotated ones, whether one is empty
\* or the oldest is taken.
LEMMA RotatedSlot ==
    ASSUME SavesTypeOK
    PROVE  AutosaveSlot \in SlotsOf("auto")
<1> DEFINE auto == SlotsOf("auto")
           empty == {s \in auto : ~Usable(s)}
<1>1. auto # {} /\ \A s \in auto : s[2] \in Nat
  <2>1. auto = {"auto"} \X (0 .. AUTO_SLOTS - 1)
    BY DEF SlotsOf
  <2>2. <<"auto", 0>> \in auto
    BY <2>1, SavesAssumption
  <2>3. \A s \in auto : s[2] \in 0 .. AUTO_SLOTS - 1
    BY <2>1
  <2> QED BY <2>2, <2>3, SavesAssumption
<1>2. CASE empty # {}
  <2>1. {s[2] : s \in empty} \subseteq Nat /\ {s[2] : s \in empty} # {}
    BY <1>1, <1>2
  <2>2. \E x \in {s[2] : s \in empty} : \A y \in {s[2] : s \in empty} : x <= y
    BY <2>1, LeastNatural, Zenon
  <2>3. \E s \in empty : \A other \in empty : s[2] <= other[2]
    BY <2>2
  <2>4. AutosaveSlot = CHOOSE s \in empty : \A other \in empty : s[2] <= other[2]
    BY <1>2 DEF AutosaveSlot
  <2>5. AutosaveSlot \in empty
    BY <2>3, <2>4
  <2> QED BY <2>5
<1>3. CASE empty = {}
  <2>1. \A s \in auto : files[s].sequence \in Nat
    <3>1. \A s \in auto : s \in Slots /\ Usable(s)
      BY <1>3, SlotKinds DEF Kinds
    <3> QED BY <3>1 DEF SavesTypeOK, Usable, Good
  <2>2. {files[s].sequence : s \in auto} \subseteq Nat /\ {files[s].sequence : s \in auto} # {}
    BY <1>1, <2>1
  <2>3. \E x \in {files[s].sequence : s \in auto} :
           \A y \in {files[s].sequence : s \in auto} : x <= y
    BY <2>2, LeastNatural, Zenon
  <2>4. \E s \in auto : \A other \in auto : files[s].sequence <= files[other].sequence
    BY <2>3
  <2>5. AutosaveSlot = CHOOSE s \in auto : \A other \in auto :
                           files[s].sequence <= files[other].sequence
    BY <1>3 DEF AutosaveSlot
  <2>6. AutosaveSlot \in auto
    BY <2>4, <2>5
  <2> QED BY <2>6
<1> QED BY <1>2, <1>3

\* next_sequence: the next sequence exceeds that of every usable save of the
\* kind, and with it what was promised.
LEMMA NextIsNewer ==
    ASSUME SavesInv, NEW kind \in Kinds
    PROVE  /\ NextSequence(kind) \in Nat \ {0}
           /\ NextSequence(kind) <= saves + 1
           /\ NextSequence(kind) > promised[kind]
<1> DEFINE used == {0} \cup {files[s].sequence : s \in {s \in SlotsOf(kind) : Usable(s)}}
<1>1. \A s \in SlotsOf(kind) : s \in Slots
  BY SlotKinds
<1>2. \A s \in SlotsOf(kind) : Usable(s) => /\ files[s] \in Good
                                            /\ files[s].sequence \in Nat
                                            /\ files[s].sequence <= saves
  <2> SUFFICES ASSUME NEW s \in SlotsOf(kind), Usable(s)
               PROVE  /\ files[s] \in Good /\ files[s].sequence \in Nat
                      /\ files[s].sequence <= saves
    OBVIOUS
  <2>1. files[s] \in Good
    BY <1>1 DEF SavesInv, SavesTypeOK, Usable
  <2>2. files[s] \in disk[s]
    BY <1>1 DEF SavesInv, DiskHoldsFiles
  <2> QED BY <1>1, <2>1, <2>2 DEF SavesInv, SequencesAreCounted, Good
<1>3. saves \in Nat /\ promised[kind] \in Nat
  BY DEF SavesInv, SavesTypeOK
<1>4. used \subseteq Nat /\ used # {} /\ \A x \in used : x <= saves
  BY <1>2, <1>3
<1> HIDE DEF used
<1>5. Max(used) \in used /\ \A x \in used : x <= Max(used)
  BY <1>3, <1>4, MaxOfBounded, Zenon
<1>6. NextSequence(kind) = 1 + Max(used)
  BY DEF NextSequence, used
<1>9. Max(used) \in Nat /\ Max(used) <= saves
  BY <1>4, <1>5
<1>7. CASE promised[kind] = 0
  BY <1>3, <1>9, <1>6, <1>7
<1>8. CASE promised[kind] > 0
  <2>1. PICK s \in SlotsOf(kind) :
           \A save \in disk[s] : save \in Good /\ save.sequence >= promised[kind]
    BY <1>8 DEF SavesInv, PromiseIsDurable
  <2>2. files[s] \in Good /\ files[s].sequence >= promised[kind]
    BY <1>1, <2>1 DEF SavesInv, DiskHoldsFiles
  <2>3. Usable(s)
    <3>1. files[s] \in [sequence : Nat, synced : BOOLEAN, content : Contents]
      BY <2>2 DEF Good
    <3>2. files[s].sequence # 0
      BY <2>2 DEF Good
    <3> QED BY <3>1, <3>2, EmptyIsNoSave DEF Usable, Unusable
  <2>4. files[s].sequence \in used
    BY <2>3 DEF used
  <2>5. files[s].sequence <= Max(used)
    BY <1>5, <2>4
  <2>6. files[s].sequence \in Nat
    BY <1>4, <2>4
  <2> QED BY <1>3, <1>9, <1>6, <2>2, <2>5, <2>6
<1> QED BY <1>3, <1>7, <1>8

-----------------------------------------------------------------------------
(* The inductive invariant, action by action.                              *)

LEMMA SavesInitially == SavesInit => SavesInv
<1> SUFFICES ASSUME SavesInit PROVE SavesInv
  OBVIOUS
<1>1. SavesTypeOK
  BY DEF SavesInit, SavesTypeOK
<1>2. DiskHoldsFiles
  BY DEF SavesInit, DiskHoldsFiles
<1>3. \A s \in Slots : \A save \in disk[s] : save \notin Good
  <2>1. Empty \notin Good
    BY EmptyIsNoSave DEF Good
  <2>2. Unusable \notin Good
    BY DEF Good, Unusable
  <2> QED BY <2>1, <2>2 DEF SavesInit
<1>4. SequencesAreCounted
  BY <1>3 DEF SequencesAreCounted
<1>5. StagedIsNewer /\ PromiseIsDurable
  BY DEF SavesInit, StagedIsNewer, PromiseIsDurable
<1> QED BY <1>1, <1>2, <1>4, <1>5 DEF SavesInv

LEMMA SaveIntoKeeps ==
    ASSUME SavesInv, NEW slot \in Slots, NEW content \in Contents, SaveInto(slot, content)
    PROVE  SavesInv'
<1>1. slot[1] \in Kinds
  BY SlotKinds
<1> DEFINE sequence == NextSequence(slot[1])
<1>2. sequence \in Nat \ {0} /\ sequence <= saves + 1 /\ sequence > promised[slot[1]]
  BY <1>1, NextIsNewer
<1>3. staged' = [slot |-> slot, next |-> "sync",
                 save |-> [sequence |-> sequence, synced |-> FALSE, content |-> content]]
  BY DEF SaveInto
<1> HIDE DEF sequence
<1>4. saves' = saves + 1 /\ saves \in Nat /\ UNCHANGED <<files, disk, promised, save_faults, stops>>
  BY DEF SaveInto, SavesInv, SavesTypeOK
<1>5. SavesTypeOK'
  <2>1. staged' \in [slot : Slots, next : {"sync", "rename", "sync directory"},
                     save : [sequence : Nat \ {0}, synced : BOOLEAN, content : Contents]]
    BY <1>2, <1>3
  <2>2. saves' \in Nat
    BY <1>4
  <2> QED BY <1>4, <2>1, <2>2 DEF SavesInv, SavesTypeOK
<1>6. SequencesAreCounted'
  <2>1. \A save \in Good : save.sequence \in Nat
    BY DEF Good
  <2> QED BY <1>4, <2>1 DEF SavesInv, SequencesAreCounted
<1>7. StagedIsNewer'
  BY <1>2, <1>3, <1>4 DEF StagedIsNewer
<1>8. DiskHoldsFiles' /\ PromiseIsDurable'
  BY <1>4 DEF SavesInv, DiskHoldsFiles, PromiseIsDurable
<1> QED BY <1>5, <1>6, <1>7, <1>8 DEF SavesInv

LEMMA SyncStageKeeps ==
    ASSUME SavesInv, SyncStage
    PROVE  SavesInv'
<1>1. /\ staged \in [slot : Slots, next : {"sync", "rename", "sync directory"},
                     save : [sequence : Nat \ {0}, synced : BOOLEAN, content : Contents]]
      /\ staged # Empty
  BY DEF SyncStage, At, SavesInv, SavesTypeOK
<1>2. /\ staged'.slot = staged.slot /\ staged'.next = "rename"
      /\ staged'.save = [staged.save EXCEPT !.synced = TRUE]
      /\ staged' \in [slot : Slots, next : {"sync", "rename", "sync directory"},
                      save : [sequence : Nat \ {0}, synced : BOOLEAN, content : Contents]]
  BY <1>1 DEF SyncStage
<1>3. staged'.save.synced /\ staged'.save.sequence = staged.save.sequence
  BY <1>1, <1>2
<1>4. UNCHANGED <<files, disk, promised, saves, save_faults, stops>>
  BY DEF SyncStage
<1>5. SavesTypeOK'
  BY <1>2, <1>4 DEF SavesInv, SavesTypeOK
<1>6. StagedIsNewer'
  BY <1>1, <1>2, <1>3, <1>4 DEF SavesInv, StagedIsNewer
<1>7. DiskHoldsFiles' /\ SequencesAreCounted' /\ PromiseIsDurable'
  BY <1>4 DEF SavesInv, DiskHoldsFiles, SequencesAreCounted, PromiseIsDurable
<1> QED BY <1>5, <1>6, <1>7 DEF SavesInv

\* The rename lets a second save survive a stop in the slot: newer than the
\* promise, so a slot that held the promise still does.
LEMMA RenameStageKeeps ==
    ASSUME SavesInv, RenameStage
    PROVE  SavesInv'
<1> DEFINE slot == staged.slot
           save == staged.save
<1>1. /\ staged \in [slot : Slots, next : {"sync", "rename", "sync directory"},
                     save : [sequence : Nat \ {0}, synced : BOOLEAN, content : Contents]]
      /\ staged # Empty /\ staged.next = "rename"
  BY DEF RenameStage, At, SavesInv, SavesTypeOK
<1>2. slot \in Slots /\ save \in Good /\ save.sequence > promised[slot[1]] /\ save.sequence <= saves
  <2>1. /\ save.sequence > promised[slot[1]] /\ save.sequence <= saves /\ save.synced
    BY <1>1 DEF SavesInv, StagedIsNewer
  <2> QED BY <1>1, <2>1 DEF Good
<1>3. /\ staged'.slot = slot /\ staged'.save = save /\ staged'.next = "sync directory"
      /\ staged' \in [slot : Slots, next : {"sync", "rename", "sync directory"},
                      save : [sequence : Nat \ {0}, synced : BOOLEAN, content : Contents]]
  BY <1>1 DEF RenameStage
<1>4. /\ files' = [files EXCEPT ![slot] = save]
      /\ disk' = [disk EXCEPT ![slot] = @ \cup {save}]
      /\ UNCHANGED <<promised, saves, save_faults, stops>>
  BY DEF RenameStage
<1>5. /\ files \in [Slots -> Good \cup {Empty, Unusable}]
      /\ disk \in [Slots -> SUBSET (Good \cup {Empty, Unusable})]
      /\ promised \in [Kinds -> Nat] /\ saves \in Nat
  BY DEF SavesInv, SavesTypeOK
<1> HIDE DEF slot, save
<1>6. files'[slot] = save /\ disk'[slot] = disk[slot] \cup {save}
  BY <1>2, <1>4, <1>5
<1>7. \A s \in Slots : s # slot => files'[s] = files[s] /\ disk'[s] = disk[s]
  BY <1>2, <1>4, <1>5
<1>8. SavesTypeOK'
  BY <1>2, <1>3, <1>4, <1>5 DEF SavesInv, SavesTypeOK
<1>9. DiskHoldsFiles'
  BY <1>6, <1>7 DEF SavesInv, DiskHoldsFiles
<1>10. SequencesAreCounted'
  BY <1>2, <1>4, <1>6, <1>7 DEF SavesInv, SequencesAreCounted
<1>11. StagedIsNewer'
  <2>1. save.synced
    BY <1>2 DEF Good
  <2> QED BY <1>2, <1>3, <1>4, <1>6, <2>1 DEF StagedIsNewer
<1>12. PromiseIsDurable'
  <2> SUFFICES ASSUME NEW kind \in Kinds, promised[kind] > 0
               PROVE  \E s \in SlotsOf(kind) :
                         \A kept \in disk'[s] : kept \in Good /\ kept.sequence >= promised[kind]
    BY <1>4 DEF PromiseIsDurable
  <2>1. PICK s \in SlotsOf(kind) :
           \A kept \in disk[s] : kept \in Good /\ kept.sequence >= promised[kind]
    BY DEF SavesInv, PromiseIsDurable
  <2>2. s \in Slots /\ s[1] = kind
    BY SlotKinds
  <2>3. s = slot => save.sequence >= promised[kind]
    BY <1>2, <1>5, <2>2 DEF Good
  <2>4. \A kept \in disk'[s] : kept \in Good /\ kept.sequence >= promised[kind]
    BY <1>2, <1>6, <1>7, <2>1, <2>2, <2>3
  <2> QED BY <2>4
<1> QED BY <1>8, <1>9, <1>10, <1>11, <1>12 DEF SavesInv

\* What is durable is what shows, and the promise is the save that shows.
LEMMA SyncDirectoryKeeps ==
    ASSUME SavesInv, SyncDirectory
    PROVE  SavesInv'
<1> DEFINE slot == staged.slot
           save == staged.save
<1>1. /\ staged \in [slot : Slots, next : {"sync", "rename", "sync directory"},
                     save : [sequence : Nat \ {0}, synced : BOOLEAN, content : Contents]]
      /\ staged # Empty /\ staged.next = "sync directory"
  BY DEF SyncDirectory, At, SavesInv, SavesTypeOK
<1>2. slot \in Slots /\ save \in Good /\ files[slot] = save
  <2>1. save.synced /\ files[slot] = save
    BY <1>1 DEF SavesInv, StagedIsNewer
  <2> QED BY <1>1, <2>1 DEF Good
<1>3. /\ disk' = [s \in Slots |-> {files[s]}] /\ staged' = Empty
      /\ promised' = [promised EXCEPT ![slot[1]] = save.sequence]
      /\ UNCHANGED <<files, saves, save_faults, stops>>
  BY DEF SyncDirectory
<1>4. /\ files \in [Slots -> Good \cup {Empty, Unusable}]
      /\ promised \in [Kinds -> Nat]
      /\ \A s \in Slots : files[s] \in disk[s]
  BY DEF SavesInv, SavesTypeOK, DiskHoldsFiles
<1> HIDE DEF slot, save
<1>5. SavesTypeOK'
  <2>1. save.sequence \in Nat
    BY <1>2 DEF Good
  <2>2. promised' \in [Kinds -> Nat]
    BY <1>3, <1>4, <2>1
  <2>3. disk' \in [Slots -> SUBSET (Good \cup {Empty, Unusable})]
    BY <1>3, <1>4
  <2> QED BY <1>3, <2>2, <2>3 DEF SavesInv, SavesTypeOK
<1>6. DiskHoldsFiles'
  BY <1>3 DEF DiskHoldsFiles
<1>7. SequencesAreCounted'
  BY <1>3, <1>4 DEF SavesInv, SequencesAreCounted
<1>8. StagedIsNewer'
  BY <1>3 DEF StagedIsNewer
<1>9. PromiseIsDurable'
  <2> SUFFICES ASSUME NEW kind \in Kinds, promised'[kind] > 0
               PROVE  \E s \in SlotsOf(kind) :
                         \A kept \in disk'[s] : kept \in Good /\ kept.sequence >= promised'[kind]
    BY DEF PromiseIsDurable
  <2>1. CASE kind = slot[1]
    <3>1. slot \in SlotsOf(kind)
      BY <1>2, <2>1, SlotKinds
    <3>2. promised'[kind] = save.sequence /\ save.sequence \in Nat
      BY <1>2, <1>3, <1>4, <2>1 DEF Good
    <3>3. disk'[slot] = {save}
      BY <1>2, <1>3
    <3> QED BY <1>2, <3>1, <3>2, <3>3
  <2>2. CASE kind # slot[1]
    <3>1. promised'[kind] = promised[kind]
      BY <1>3, <1>4, <2>2
    <3>2. PICK s \in SlotsOf(kind) :
             \A kept \in disk[s] : kept \in Good /\ kept.sequence >= promised[kind]
      BY <3>1 DEF SavesInv, PromiseIsDurable
    <3>3. s \in Slots
      BY SlotKinds
    <3>4. disk'[s] = {files[s]} /\ files[s] \in disk[s]
      BY <1>3, <1>4, <3>3
    <3> QED BY <3>1, <3>2, <3>4
  <2> QED BY <2>1, <2>2
<1> QED BY <1>5, <1>6, <1>7, <1>8, <1>9 DEF SavesInv

LEMMA SaveFailsKeeps ==
    ASSUME SavesInv, SaveFails
    PROVE  SavesInv'
<1>1. /\ staged' = Empty /\ save_faults' \in Nat
      /\ UNCHANGED <<files, disk, promised, saves, stops>>
  <2>1. save_faults \in Nat
    BY DEF SavesInv, SavesTypeOK
  <2> QED BY <2>1 DEF SaveFails
<1>2. SavesTypeOK'
  BY <1>1 DEF SavesInv, SavesTypeOK
<1>3. DiskHoldsFiles' /\ SequencesAreCounted' /\ StagedIsNewer' /\ PromiseIsDurable'
  BY <1>1 DEF SavesInv, DiskHoldsFiles, SequencesAreCounted, StagedIsNewer, PromiseIsDurable
<1> QED BY <1>2, <1>3 DEF SavesInv

\* A stop leaves in each slot one of what it may hold: all of it was synced.
LEMMA StopKeeps ==
    ASSUME SavesInv, Stop
    PROVE  SavesInv'
<1>1. PICK left \in [Slots -> UNION {AfterStop(s) : s \in Slots}] :
         /\ \A s \in Slots : left[s] \in AfterStop(s)
         /\ files' = left
         /\ disk' = [s \in Slots |-> {left[s]}]
  BY DEF Stop
<1>2. /\ staged' = Empty /\ stops' \in Nat /\ UNCHANGED <<promised, saves, save_faults>>
  <2>1. stops \in Nat
    BY DEF SavesInv, SavesTypeOK
  <2> QED BY <2>1 DEF Stop
<1>3. \A s \in Slots : left[s] \in disk[s] /\ left[s] \in Good \cup {Empty, Unusable}
  <2> SUFFICES ASSUME NEW s \in Slots
               PROVE  left[s] \in disk[s] /\ left[s] \in Good \cup {Empty, Unusable}
    OBVIOUS
  <2>1. disk[s] \subseteq Good \cup {Empty, Unusable}
    BY DEF SavesInv, SavesTypeOK
  <2>2. \A save \in disk[s] : save = Empty \/ save.synced
    <3>1. \A save \in Good : save.synced
      BY DEF Good
    <3>2. Unusable.synced
      BY DEF Unusable
    <3> QED BY <2>1, <3>1, <3>2
  <2>3. left[s] \in AfterStop(s)
    BY <1>1
  <2>4. left[s] \in disk[s]
    BY <2>2, <2>3 DEF AfterStop
  <2> QED BY <2>1, <2>4
<1>4. \A s \in Slots : files'[s] = left[s] /\ disk'[s] = {left[s]}
  BY <1>1
<1>5. SavesTypeOK'
  <2>1. files' \in [Slots -> Good \cup {Empty, Unusable}]
    BY <1>1, <1>3
  <2>2. disk' \in [Slots -> SUBSET (Good \cup {Empty, Unusable})]
    BY <1>1, <1>3
  <2> QED BY <1>2, <2>1, <2>2 DEF SavesInv, SavesTypeOK
<1>6. DiskHoldsFiles'
  BY <1>4 DEF DiskHoldsFiles
<1>7. SequencesAreCounted'
  BY <1>2, <1>3, <1>4 DEF SavesInv, SequencesAreCounted
<1>8. StagedIsNewer'
  BY <1>2 DEF StagedIsNewer
<1>9. PromiseIsDurable'
  <2> SUFFICES ASSUME NEW kind \in Kinds, promised[kind] > 0
               PROVE  \E s \in SlotsOf(kind) :
                         \A kept \in disk'[s] : kept \in Good /\ kept.sequence >= promised[kind]
    BY <1>2 DEF PromiseIsDurable
  <2>1. PICK s \in SlotsOf(kind) :
           \A kept \in disk[s] : kept \in Good /\ kept.sequence >= promised[kind]
    BY DEF SavesInv, PromiseIsDurable
  <2>2. s \in Slots
    BY SlotKinds
  <2> QED BY <1>3, <1>4, <2>1, <2>2
<1> QED BY <1>5, <1>6, <1>7, <1>8, <1>9 DEF SavesInv

LEMMA SavesStep == SavesInv /\ [SavesNext]_savesVars => SavesInv'
<1> SUFFICES ASSUME SavesInv, [SavesNext]_savesVars PROVE SavesInv'
  OBVIOUS
<1>1. ASSUME NEW content \in Contents, Quicksave(content) PROVE SavesInv'
  BY <1>1, SaveIntoKeeps, SlotKinds DEF Quicksave
<1>2. ASSUME NEW content \in Contents, Autosave(content) PROVE SavesInv'
  <2>1. AutosaveSlot \in Slots
    BY RotatedSlot, SlotKinds DEF SavesInv, Kinds
  <2> QED BY <1>2, <2>1, SaveIntoKeeps DEF Autosave
<1>3. CASE SaveSteps
  BY <1>3, SyncStageKeeps, RenameStageKeeps, SyncDirectoryKeeps, SaveFailsKeeps DEF SaveSteps
<1>4. CASE Stop
  BY <1>4, StopKeeps
<1>5. CASE UNCHANGED savesVars
  BY <1>5 DEF savesVars, SavesInv, SavesTypeOK, DiskHoldsFiles, SequencesAreCounted,
              StagedIsNewer, PromiseIsDurable
<1> QED BY <1>1, <1>2, <1>3, <1>4, <1>5 DEF SavesNext

-----------------------------------------------------------------------------
(* The theorems.                                                           *)

\* Whatever fails or stops between two steps of a save, each kind has a slot
\* that holds its promise in every state a stop may leave, and the save under
\* way is newer and synced before it replaces a slot (save in slots.rs).
THEOREM DurablePromises == SavesSpec => []SavesInv
<1>1. SavesInit => SavesInv
  BY SavesInitially
<1>2. SavesInv /\ [SavesNext]_savesVars => SavesInv'
  BY SavesStep
<1> QED BY <1>1, <1>2, PTL DEF SavesSpec

\* A save that was reported is never lost: its slot, or one of the rotated
\* ones, shows that save or a later one, for any number of rotated slots.
THEOREM SavesStay == SavesSpec => []ReportedSavesStay
<1>1. SavesInv => ReportedSavesStay
  <2> SUFFICES ASSUME SavesInv, NEW kind \in Kinds, promised[kind] > 0
               PROVE  \E s \in SlotsOf(kind) : Usable(s) /\ files[s].sequence >= promised[kind]
    BY DEF ReportedSavesStay
  <2>1. PICK s \in SlotsOf(kind) :
           \A save \in disk[s] : save \in Good /\ save.sequence >= promised[kind]
    BY DEF SavesInv, PromiseIsDurable
  <2>2. files[s] \in Good /\ files[s].sequence >= promised[kind]
    BY <2>1, SlotKinds DEF SavesInv, DiskHoldsFiles
  <2>3. files[s] \in [sequence : Nat, synced : BOOLEAN, content : Contents]
        /\ files[s].sequence # 0
    BY <2>2 DEF Good
  <2>4. Usable(s)
    BY <2>3, EmptyIsNoSave DEF Usable, Unusable
  <2> QED BY <2>2, <2>4
<1> QED BY <1>1, DurablePromises, PTL

=============================================================================

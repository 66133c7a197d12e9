-------------------------- MODULE GpuFrameRingProofs --------------------------
(***************************************************************************)
(* Proofs about GpuFrameRing, for any number of slots, handles, frames and *)
(* sessions.                                                               *)
(***************************************************************************)
EXTENDS GpuFrameRing, TLAPS

PubPcs == {"idle", "initialize", "header", "slots", "acquire", "copy", "slot", "latest"}
ConPcs == {"idle", "latest", "slot", "open", "generation", "acquire", "copy"}

LEMMA PcTypes ==
  [pub |-> pubPc, con |-> conPc] \in Pcs <=> pubPc \in PubPcs /\ conPc \in ConPcs
  BY DEF Pcs, PubPcs, ConPcs

(* What SMT is told of the ring positions.                                 *)
LEMMA Modulo ==
  /\ \A n \in Nat : n % SlotCount \in Slots
  /\ \A n \in Nat : n < SlotCount => n % SlotCount = n
  /\ SlotCount % SlotCount = 0
<1>1. SlotCount \in Nat \ {0}
  BY RingAssumption
<1> QED
  BY <1>1 DEF Slots

-----------------------------------------------------------------------------
(* Types.                                                                  *)

(* What the two processes' positions say of their other variables.         *)
Progress ==
  /\ pubMapped \/ pubPc \notin {"idle", "initialize"} => session # 0
  /\ sequence <= frame
  /\ pubPc \notin {"idle", "latest"} => sequence < frame
  /\ \A i \in Slots : handles[i] # None => session # 0
  /\ conPc \in {"generation", "acquire", "copy"} => inputTexture # None

TypeInv == TypeOK /\ Progress

LEMMA CurrentTexture ==
  ASSUME TypeInv, session # 0, NEW i \in Slots
  PROVE  PubTexture(i) \in Textures
<1>1. session \in 1..MaxSessions
  BY RingAssumption DEF TypeInv, TypeOK
<1> QED
  BY <1>1 DEF PubTexture, Textures

LEMMA TypeInit == Init => TypeInv
<1> SUFFICES ASSUME Init
             PROVE  TypeInv
  OBVIOUS
<1>1. [pub |-> pubPc, con |-> conPc] \in Pcs
  BY PcTypes DEF Init, PubPcs, ConPcs
<1>2. delivered \in Seq([frame : 0..MaxFrames, texture : Textures])
  BY DEF Init
<1>3. slots \in [Slots -> SlotRecord] /\ readSlot \in SlotRecord
  BY RingAssumption DEF Init, SlotRecord, EmptySlot
<1>4. valid \in BOOLEAN /\ pubMapped \in BOOLEAN /\ conMapped \in BOOLEAN
  BY Zenon DEF Init
<1> QED
  BY <1>1, <1>2, <1>3, <1>4, RingAssumption DEF Init, TypeInv, TypeOK, Progress, MutexStates

LEMMA PublishType == TypeInv /\ Publish => TypeInv'
<1> SUFFICES ASSUME TypeInv, Publish
             PROVE  TypeInv'
  OBVIOUS
<1>1. pubPc' \in {"acquire", "initialize"} /\ pubPc = "idle" /\ UNCHANGED conPc
  BY DEF Publish, PubGoes, con
<1>2. [pub |-> pubPc, con |-> conPc]' \in Pcs
  BY <1>1, PcTypes DEF TypeInv, TypeOK, Pcs
<1>3. frame \in Nat /\ frame' \in 0..MaxFrames /\ frame' = frame + 1
  BY RingAssumption DEF TypeInv, TypeOK, Publish
<1>4. TypeOK'
  BY <1>2, <1>3 DEF TypeInv, TypeOK, Publish, pubInit, block, con, opened, read
<1>5. Progress'
  BY <1>1, <1>3 DEF TypeInv, TypeOK, Progress, Publish, PubGoes, pubInit, block, con, opened, read
<1> QED
  BY <1>4, <1>5 DEF TypeInv

LEMMA InitializeType == TypeInv /\ Initialize => TypeInv'
<1> SUFFICES ASSUME TypeInv, Initialize
             PROVE  TypeInv'
  OBVIOUS
<1>1. UNCHANGED <<sequence, frame, mutex, content, con>>
  BY DEF Initialize
<1>2. UNCHANGED <<conMapped, generation, lastSequence, inputHandle, inputTexture,
                  readSequence, readSlot, conPc, delivered>>
  BY <1>1 DEF con, opened, read
<1>3. conPc \in ConPcs /\ pubPc \in PubPcs
  BY PcTypes DEF TypeInv, TypeOK
<1>4. ASSUME pubPc \in PubPcs, pubPc' \in PubPcs
      PROVE  [pub |-> pubPc, con |-> conPc]' \in Pcs
  BY <1>2, <1>3, <1>4 DEF Pcs, PubPcs, ConPcs
<1>5. CASE InitializeRefused
  <2>1. pubPc' = "idle" /\ UNCHANGED <<pubInit, block>> /\ pubPc = "initialize"
    BY <1>5 DEF InitializeRefused, PubGoes
  <2>2. [pub |-> pubPc, con |-> conPc]' \in Pcs
    BY <1>3, <1>4, <2>1 DEF PubPcs
  <2> QED
    BY <1>1, <1>2, <2>1, <2>2 DEF TypeInv, TypeOK, Progress, pubInit, block
<1>6. CASE Invalidate
  <2>1. pubPc' = "header" /\ pubPc = "initialize"
    BY <1>6 DEF Invalidate, PubGoes
  <2>2. [pub |-> pubPc, con |-> conPc]' \in Pcs
    BY <1>3, <1>4, <2>1 DEF PubPcs
  <2>3. session' \in 0..MaxSessions /\ session' # 0
    <3>1. session \in 0..MaxSessions /\ session < MaxSessions /\ session' = session + 1
      BY <1>6 DEF Invalidate, TypeInv, TypeOK
    <3> QED
      BY <3>1, RingAssumption
  <2>4. slots' \in [Slots -> SlotRecord]
    <3>1. EmptySlot \in SlotRecord
      BY RingAssumption DEF SlotRecord, EmptySlot
    <3> QED
      BY <1>6, <3>1 DEF Invalidate
  <2>5. valid' \in BOOLEAN /\ pubMapped' \in BOOLEAN
    BY <1>6, Zenon DEF Invalidate
  <2>6. TypeOK'
    <3>1. /\ latestSequence' \in 0..MaxFrames
          /\ blockGeneration' \in Nat /\ previousGeneration' \in Nat
          /\ UNCHANGED <<made, handles>>
      BY <1>6, RingAssumption DEF TypeInv, TypeOK, Invalidate
    <3> QED
      BY <1>1, <1>2, <2>2, <2>3, <2>4, <2>5, <3>1 DEF TypeInv, TypeOK
  <2> QED
    BY <1>1, <1>2, <1>6, <2>1, <2>3, <2>6 DEF TypeInv, Progress, Invalidate
<1>7. CASE WriteHeader
  <2>1. pubPc' = "slots" /\ pubPc = "header"
    BY <1>7 DEF WriteHeader, PubGoes
  <2>2. [pub |-> pubPc, con |-> conPc]' \in Pcs
    BY <1>3, <1>4, <2>1 DEF PubPcs
  <2> QED
    BY <1>1, <1>2, <1>7, <2>1, <2>2 DEF TypeInv, TypeOK, Progress, WriteHeader, pubInit
<1>8. CASE MakeSlot
  <2>1. pubPc' = "slots" /\ pubPc = "slots" /\ made < SlotCount /\ ShareTexture
    BY <1>8 DEF MakeSlot, PubGoes
  <2>2. [pub |-> pubPc, con |-> conPc]' \in Pcs
    BY <1>3, <1>4, <2>1 DEF PubPcs
  <2>3. made \in Slots /\ made' \in 0..SlotCount
    <3>1. made \in 0..SlotCount /\ made < SlotCount /\ made' = made + 1
      BY <2>1 DEF TypeInv, TypeOK, ShareTexture
    <3> QED
      BY <3>1, RingAssumption DEF Slots
  <2>4. PICK h \in Handles : /\ handles' = [handles EXCEPT ![made] = h]
                             /\ slots' = [slots EXCEPT ![made].handle = h]
    BY <2>1 DEF ShareTexture
  <2>5. handles' \in [Slots -> Handles \cup {None}]
    BY <2>4 DEF TypeInv, TypeOK
  <2>6. slots' \in [Slots -> SlotRecord]
    BY <2>4 DEF TypeInv, TypeOK, SlotRecord
  <2>7. TypeOK'
    BY <1>1, <1>2, <2>1, <2>2, <2>3, <2>5, <2>6 DEF TypeInv, TypeOK, ShareTexture
  <2> QED
    BY <1>1, <1>2, <2>1, <2>7 DEF TypeInv, Progress, ShareTexture
<1>9. CASE MakeSlotFails
  <2>1. pubPc' = "idle" /\ pubPc = "slots"
    BY <1>9 DEF MakeSlotFails, PubGoes
  <2>2. [pub |-> pubPc, con |-> conPc]' \in Pcs
    BY <1>3, <1>4, <2>1 DEF PubPcs
  <2>3. made' \in 0..SlotCount
    BY <1>9, RingAssumption DEF TypeInv, TypeOK, MakeSlotFails
  <2> QED
    BY <1>1, <1>2, <1>9, <2>1, <2>2, <2>3 DEF TypeInv, TypeOK, Progress, MakeSlotFails, block
<1>10. CASE SetMagic
  <2>1. pubPc' = "acquire" /\ pubPc = "slots"
    BY <1>10 DEF SetMagic, PubGoes
  <2>2. [pub |-> pubPc, con |-> conPc]' \in Pcs
    BY <1>3, <1>4, <2>1 DEF PubPcs
  <2>3. valid' \in BOOLEAN
    BY <1>10, Zenon DEF SetMagic
  <2> QED
    BY <1>1, <1>2, <1>10, <2>1, <2>2, <2>3 DEF TypeInv, TypeOK, Progress, SetMagic, pubInit
<1> QED
  BY <1>5, <1>6, <1>7, <1>8, <1>9, <1>10 DEF Initialize

LEMMA PublishFrameType == TypeInv /\ PublishFrame => TypeInv'
<1> SUFFICES ASSUME TypeInv, PublishFrame
             PROVE  TypeInv'
  OBVIOUS
<1>1. UNCHANGED <<pubMapped, session, previousGeneration, made, handles, frame, valid,
                  blockGeneration, conMapped, generation, lastSequence, inputHandle,
                  inputTexture, readSequence, readSlot, conPc, delivered>>
  BY DEF PublishFrame, con, opened, read, pubInit
<1>2. conPc \in ConPcs /\ pubPc \in PubPcs
  BY PcTypes DEF TypeInv, TypeOK
<1>3. ASSUME pubPc' \in PubPcs
      PROVE  [pub |-> pubPc, con |-> conPc]' \in Pcs
  BY <1>1, <1>2, <1>3 DEF Pcs, PubPcs, ConPcs
<1>4. SlotIndex \in Slots
  BY Modulo DEF TypeInv, TypeOK, SlotIndex
<1>5. CASE PublisherAcquires
  <2>1. pubPc' = "copy" /\ pubPc = "acquire" /\ UNCHANGED <<content, sequence, latestSequence, slots>>
    BY <1>5 DEF PublisherAcquires, PubGoes
  <2>2. [pub |-> pubPc, con |-> conPc]' \in Pcs
    BY <1>3, <2>1 DEF PubPcs
  <2>3. mutex' \in [Textures -> MutexStates]
    BY <1>5 DEF TypeInv, TypeOK, PublisherAcquires, MutexStates
  <2> QED
    BY <1>1, <2>1, <2>2, <2>3 DEF TypeInv, TypeOK, Progress
<1>6. CASE PublisherDrops
  <2>1. pubPc' = "idle" /\ pubPc = "acquire" /\ UNCHANGED <<mutex, content, sequence, latestSequence, slots>>
    BY <1>6 DEF PublisherDrops, PubGoes
  <2>2. [pub |-> pubPc, con |-> conPc]' \in Pcs
    BY <1>3, <2>1 DEF PubPcs
  <2> QED
    BY <1>1, <2>1, <2>2 DEF TypeInv, TypeOK, Progress
<1>7. CASE PublisherReleases \/ ReleaseFails
  <2>1. PICK key \in {"key1", "producer"} : CopyAndRelease(key)
    BY <1>7 DEF PublisherReleases, ReleaseFails
  <2>2. pubPc' \in {"slot", "idle"} /\ pubPc = "copy" /\ UNCHANGED <<sequence, latestSequence, slots>>
    BY <1>7, <2>1 DEF PublisherReleases, ReleaseFails, PubGoes, CopyAndRelease
  <2>3. [pub |-> pubPc, con |-> conPc]' \in Pcs
    BY <1>3, <2>2 DEF PubPcs
  <2>4. mutex' \in [Textures -> MutexStates]
    BY <2>1 DEF TypeInv, TypeOK, CopyAndRelease, MutexStates
  <2>5. content' \in [Textures -> 0..MaxFrames]
    BY <2>1 DEF TypeInv, TypeOK, CopyAndRelease
  <2> QED
    BY <1>1, <2>2, <2>3, <2>4, <2>5 DEF TypeInv, TypeOK, Progress
<1>8. CASE WriteSlot
  <2>1. pubPc' = "latest" /\ pubPc = "slot" /\ sequence' = sequence + 1
        /\ UNCHANGED <<mutex, content, latestSequence>>
    BY <1>8 DEF WriteSlot, PubGoes
  <2>2. [pub |-> pubPc, con |-> conPc]' \in Pcs
    BY <1>3, <2>1 DEF PubPcs
  <2>3. sequence' \in 0..MaxFrames /\ sequence' <= frame
    BY <2>1, RingAssumption DEF TypeInv, TypeOK, Progress
  <2>4. slots' \in [Slots -> SlotRecord]
    BY <1>8, <2>1, <2>3 DEF TypeInv, TypeOK, WriteSlot, SlotRecord
  <2> QED
    BY <1>1, <2>1, <2>2, <2>3, <2>4 DEF TypeInv, TypeOK, Progress
<1>9. CASE WriteLatest
  <2>1. pubPc' = "idle" /\ pubPc = "latest" /\ latestSequence' = sequence
        /\ UNCHANGED <<mutex, content, sequence, slots>>
    BY <1>9 DEF WriteLatest, PubGoes
  <2>2. [pub |-> pubPc, con |-> conPc]' \in Pcs
    BY <1>3, <2>1 DEF PubPcs
  <2> QED
    BY <1>1, <2>1, <2>2 DEF TypeInv, TypeOK, Progress
<1> QED
  BY <1>5, <1>6, <1>7, <1>8, <1>9 DEF PublishFrame

LEMMA LostType ==
  ASSUME TypeInv, NEW holder
  PROVE  Lost(holder) \in [Textures -> MutexStates]
  BY DEF TypeInv, TypeOK, Lost, MutexStates

LEMMA ForgetSessionType == TypeInv /\ ForgetSession => TypeInv'
<1> SUFFICES ASSUME TypeInv, ForgetSession
             PROVE  TypeInv'
  OBVIOUS
<1>1. UNCHANGED <<conMapped, generation, lastSequence, inputHandle, inputTexture, readSequence,
                  readSlot, conPc, delivered, valid, blockGeneration, latestSequence, slots>>
  BY DEF ForgetSession, con, opened, read, block
<1>2. pubMapped' = FALSE /\ made' = 0 /\ handles' = [i \in Slots |-> None]
      /\ sequence' = 0 /\ pubPc' = "idle" /\ mutex' = Lost("producer")
      /\ UNCHANGED <<session, previousGeneration, frame, content>>
  BY DEF ForgetSession
<1>3. [pub |-> pubPc, con |-> conPc]' \in Pcs
  <2>1. conPc \in ConPcs
    BY PcTypes DEF TypeInv, TypeOK
  <2> QED
    BY <1>1, <1>2, <2>1 DEF Pcs, ConPcs
<1>4. mutex' \in [Textures -> MutexStates]
  BY <1>2, LostType
<1>5. pubMapped' \in BOOLEAN
  BY <1>2, Zenon
<1> QED
  BY <1>1, <1>2, <1>3, <1>4, <1>5, RingAssumption DEF TypeInv, TypeOK, Progress

LEMMA ConsumerResetsType == TypeInv /\ ConsumerResets => TypeInv'
<1> SUFFICES ASSUME TypeInv, ConsumerResets
             PROVE  TypeInv'
  OBVIOUS
<1>1. UNCHANGED <<pubMapped, session, previousGeneration, made, handles, sequence, frame, pubPc,
                  valid, blockGeneration, latestSequence, slots, content, delivered>>
  BY DEF ConsumerResets, pub, pubInit, block
<1>2. conMapped' = FALSE /\ generation' = 0 /\ lastSequence' = 0 /\ inputHandle' = None
      /\ inputTexture' = None /\ readSequence' = 0 /\ readSlot' = EmptySlot /\ conPc' = "idle"
      /\ mutex' = Lost("consumer")
  BY DEF ConsumerResets
<1>3. [pub |-> pubPc, con |-> conPc]' \in Pcs
  <2>1. pubPc \in PubPcs
    BY PcTypes DEF TypeInv, TypeOK
  <2> QED
    BY <1>1, <1>2, <2>1 DEF Pcs, PubPcs
<1>4. mutex' \in [Textures -> MutexStates]
  BY <1>2, LostType
<1>5. conMapped' \in BOOLEAN
  BY <1>2, Zenon
<1>6. readSlot' \in SlotRecord
  BY <1>2, RingAssumption DEF SlotRecord, EmptySlot
<1> QED
  BY <1>1, <1>2, <1>3, <1>4, <1>5, <1>6, RingAssumption DEF TypeInv, TypeOK, Progress

LEMMA CopyLatestType == TypeInv /\ CopyLatest => TypeInv'
<1> SUFFICES ASSUME TypeInv, CopyLatest
             PROVE  TypeInv'
  OBVIOUS
<1>1. UNCHANGED <<pubMapped, session, previousGeneration, made, handles, sequence, frame, pubPc,
                  valid, blockGeneration, latestSequence, slots, content>>
  BY DEF CopyLatest, pub, pubInit, block
<1>2. conPc \in ConPcs /\ pubPc \in PubPcs
  BY PcTypes DEF TypeInv, TypeOK
<1>3. ASSUME conPc' \in ConPcs
      PROVE  [pub |-> pubPc, con |-> conPc]' \in Pcs
  BY <1>1, <1>2, <1>3 DEF Pcs, PubPcs, ConPcs
<1>4. CASE OpenControlBlock \/ DropInvalidBlock
  <2>1. conPc' \in {"latest", "idle"} /\ conPc = "idle"
        /\ UNCHANGED <<generation, lastSequence, inputHandle, inputTexture, readSequence, readSlot,
                       delivered, mutex>>
    BY <1>4 DEF OpenControlBlock, DropInvalidBlock, ConGoes, opened, read
  <2>2. conMapped' \in BOOLEAN
    BY <1>4, Zenon DEF OpenControlBlock, DropInvalidBlock
  <2>3. [pub |-> pubPc, con |-> conPc]' \in Pcs
    BY <1>3, <2>1 DEF ConPcs
  <2> QED
    BY <1>1, <2>1, <2>2, <2>3 DEF TypeInv, TypeOK, Progress
<1>5. CASE ReadLatest
  <2>1. conPc' \in {"slot", "idle"} /\ readSequence' = latestSequence
        /\ UNCHANGED <<conMapped, generation, lastSequence, inputHandle, inputTexture, readSlot,
                       delivered, mutex>>
    BY <1>5 DEF ReadLatest, ConGoes, opened
  <2>2. [pub |-> pubPc, con |-> conPc]' \in Pcs
    BY <1>3, <2>1 DEF ConPcs
  <2> QED
    BY <1>1, <2>1, <2>2 DEF TypeInv, TypeOK, Progress
<1>6. CASE ReadSlot
  <2>1. conPc' \in {"open", "idle"} /\ readSlot' = slots[SlotOf(readSequence)]
        /\ UNCHANGED <<conMapped, generation, lastSequence, inputHandle, inputTexture, readSequence,
                       delivered, mutex>>
    BY <1>6 DEF ReadSlot, ConGoes, opened
  <2>2. [pub |-> pubPc, con |-> conPc]' \in Pcs
    BY <1>3, <2>1 DEF ConPcs
  <2>3. SlotOf(readSequence) \in Slots
    BY Modulo DEF TypeInv, TypeOK, SlotOf
  <2>4. readSlot' \in SlotRecord
    BY <2>1, <2>3 DEF TypeInv, TypeOK
  <2> QED
    BY <1>1, <2>1, <2>2, <2>4 DEF TypeInv, TypeOK, Progress
<1>7. CASE OpenSlot
  <2>1. conPc' \in {"generation", "idle"}
        /\ UNCHANGED <<conMapped, generation, lastSequence, readSequence, readSlot, delivered, mutex>>
    BY <1>7 DEF OpenSlot, ConGoes, read
  <2>2. [pub |-> pubPc, con |-> conPc]' \in Pcs
    BY <1>3, <2>1 DEF ConPcs
  <2>3. /\ inputHandle' \in Handles \cup {None}
        /\ inputTexture' \in Textures \cup {None}
        /\ conPc' = "generation" => inputTexture' # None
    <3>1. CASE UNCHANGED opened /\ conPc' = "idle"
      BY <3>1 DEF TypeInv, TypeOK, opened
    <3>2. CASE UNCHANGED opened /\ IsOpen(readSlot.handle)
      BY <3>2 DEF TypeInv, TypeOK, opened, IsOpen
    <3>3. CASE readSlot.handle # None /\ OpenAnother(readSlot.handle)
      <4>1. PICK i \in Slots : /\ handles[i] = readSlot.handle
                               /\ inputHandle' = readSlot.handle
                               /\ inputTexture' = PubTexture(i)
        BY <3>3 DEF OpenAnother
      <4>2. handles[i] \in Handles /\ session # 0
        BY <3>3, <4>1 DEF TypeInv, TypeOK, Progress
      <4>3. PubTexture(i) \in Textures /\ None \notin Textures
        BY <4>2, CurrentTexture, RingAssumption DEF Textures, Slots
      <4> QED
        BY <4>1, <4>2, <4>3
    <3>4. CASE inputHandle' = None /\ inputTexture' = None /\ conPc' = "idle"
      BY <3>4
    <3> QED
      BY <1>7, <3>1, <3>2, <3>3, <3>4 DEF OpenSlot, ConGoes
  <2> QED
    BY <1>1, <2>1, <2>2, <2>3 DEF TypeInv, TypeOK, Progress
<1>8. CASE CheckGeneration
  <2>1. conPc' = "acquire" /\ conPc = "generation" /\ generation' = blockGeneration
        /\ UNCHANGED <<conMapped, inputHandle, inputTexture, readSequence, readSlot, delivered, mutex>>
    BY <1>8 DEF CheckGeneration, ConGoes, opened, read
  <2>2. [pub |-> pubPc, con |-> conPc]' \in Pcs
    BY <1>3, <2>1 DEF ConPcs
  <2>3. lastSequence' \in 0..MaxFrames
    BY <1>8, RingAssumption DEF CheckGeneration, TypeInv, TypeOK
  <2> QED
    BY <1>1, <2>1, <2>2, <2>3 DEF TypeInv, TypeOK, Progress
<1>9. CASE ConsumerAcquires
  <2>1. conPc' \in {"copy", "idle"} /\ conPc = "acquire"
        /\ UNCHANGED <<conMapped, generation, lastSequence, inputHandle, inputTexture, readSequence,
                       readSlot, delivered>>
    BY <1>9 DEF ConsumerAcquires, ConGoes, opened, read
  <2>2. [pub |-> pubPc, con |-> conPc]' \in Pcs
    BY <1>3, <2>1 DEF ConPcs
  <2>3. mutex' \in [Textures -> MutexStates]
    BY <1>9 DEF ConsumerAcquires, TypeInv, TypeOK, MutexStates
  <2> QED
    BY <1>1, <2>1, <2>2, <2>3 DEF TypeInv, TypeOK, Progress
<1>10. CASE ConsumerReleases
  <2>1. conPc' = "idle" /\ conPc = "copy" /\ HandOver("key0")
    BY <1>10 DEF ConsumerReleases, ConGoes
  <2>2. UNCHANGED <<conMapped, generation, inputHandle, inputTexture, readSequence, readSlot>>
    BY <2>1 DEF HandOver, opened, read
  <2>3. [pub |-> pubPc, con |-> conPc]' \in Pcs
    BY <1>3, <2>1 DEF ConPcs
  <2>4. mutex' \in [Textures -> MutexStates]
    BY <2>1 DEF HandOver, TypeInv, TypeOK, MutexStates
  <2>5. lastSequence' \in 0..MaxFrames
    BY <2>1 DEF HandOver, TypeInv, TypeOK
  <2>6. inputTexture \in Textures /\ content[inputTexture] \in 0..MaxFrames
    BY <2>1 DEF TypeInv, TypeOK, Progress
  <2>7. delivered' \in Seq([frame : 0..MaxFrames, texture : Textures])
    <3>1. [frame |-> content[inputTexture], texture |-> inputTexture]
            \in [frame : 0..MaxFrames, texture : Textures]
      BY <2>6
    <3>2. delivered \in Seq([frame : 0..MaxFrames, texture : Textures])
      BY DEF TypeInv, TypeOK
    <3> QED
      BY <2>1, <3>1, <3>2 DEF HandOver
  <2> QED
    BY <1>1, <2>1, <2>2, <2>3, <2>4, <2>5, <2>7 DEF TypeInv, TypeOK, Progress
<1>11. CASE ConsumerReleaseFails
  <2>1. conPc' = "idle"
        /\ UNCHANGED <<conMapped, generation, lastSequence, inputHandle, inputTexture, readSequence,
                       readSlot, delivered, mutex>>
    BY <1>11 DEF ConsumerReleaseFails, ConGoes, opened, read
  <2>2. [pub |-> pubPc, con |-> conPc]' \in Pcs
    BY <1>3, <2>1 DEF ConPcs
  <2> QED
    BY <1>1, <2>1, <2>2 DEF TypeInv, TypeOK, Progress
<1> QED
  BY <1>4, <1>5, <1>6, <1>7, <1>8, <1>9, <1>10, <1>11 DEF CopyLatest

THEOREM TypeInvariant == Spec => []TypeInv
<1>1. Init => TypeInv
  BY TypeInit
<1>2. TypeInv /\ [Next]_vars => TypeInv'
  <2> SUFFICES ASSUME TypeInv, [Next]_vars
               PROVE  TypeInv'
    OBVIOUS
  <2>1. CASE NullMutex \/ SessionEnds
    BY <2>1, ForgetSessionType DEF NullMutex, SessionEnds
  <2>2. CASE UNCHANGED vars
    BY <2>2 DEF TypeInv, TypeOK, Progress, vars, block, pub, pubInit, con, opened, read
  <2> QED
    BY <2>1, <2>2, PublishType, InitializeType, PublishFrameType, CopyLatestType,
       ConsumerResetsType DEF Next
<1> QED
  BY <1>1, <1>2, PTL DEF Spec

-----------------------------------------------------------------------------
(* The keyed mutex.                                                        *)

(* Who copies holds the texture, and nobody but the holder's own steps or  *)
(* its death can change that.                                              *)
Holding ==
  /\ pubPc = "copy" => mutex[PubTexture(SlotIndex)] = "producer"
  /\ conPc = "copy" => mutex[inputTexture] = "consumer"

LEMMA PublisherTexture ==
  ASSUME TypeInv, pubPc \in {"acquire", "copy"}
  PROVE  PubTexture(SlotIndex) \in Textures
<1>1. session # 0
  BY DEF TypeInv, Progress
<1>2. SlotIndex \in Slots
  BY Modulo DEF TypeInv, TypeOK, SlotIndex
<1> QED
  BY <1>1, <1>2, CurrentTexture

LEMMA ConsumerTexture ==
  ASSUME TypeInv, conPc \in {"acquire", "copy"}
  PROVE  inputTexture \in Textures
  BY DEF TypeInv, TypeOK, Progress

LEMMA HoldingStep == TypeInv /\ Holding /\ [Next]_vars => Holding'
<1> SUFFICES ASSUME TypeInv, Holding, [Next]_vars
             PROVE  Holding'
  OBVIOUS
<1>1. mutex \in [Textures -> MutexStates]
  BY DEF TypeInv, TypeOK
<1>2. CASE Publish
  BY <1>2 DEF Holding, Publish, PubGoes, con, opened
<1>3. CASE Initialize
  <2>1. pubPc' # "copy"
    BY <1>3 DEF Initialize, InitializeRefused, Invalidate, WriteHeader, MakeSlot, MakeSlotFails,
                SetMagic, PubGoes
  <2> QED
    BY <1>3, <2>1 DEF Holding, Initialize, con, opened
<1>4. CASE PublishFrame
  <2>1. UNCHANGED <<session, conPc, inputTexture>>
    BY <1>4 DEF PublishFrame, pubInit, con, opened
  <2>2. CASE PublisherAcquires
    <3>1. pubPc = "acquire" /\ UNCHANGED sequence
          /\ mutex[PubTexture(SlotIndex)] = "key0"
          /\ mutex' = [mutex EXCEPT ![PubTexture(SlotIndex)] = "producer"]
      BY <2>2 DEF PublisherAcquires, PubGoes
    <3>2. PubTexture(SlotIndex) \in Textures
      BY <3>1, PublisherTexture
    <3>3. (PubTexture(SlotIndex))' = PubTexture(SlotIndex)
      BY <2>1, <3>1 DEF PubTexture, SlotIndex
    <3>4. conPc = "copy" => inputTexture \in Textures
      BY ConsumerTexture
    <3> QED
      BY <1>1, <2>1, <3>1, <3>2, <3>3, <3>4 DEF Holding
  <2>3. CASE PublisherReleases \/ ReleaseFails
    <3>1. PICK key \in {"key1", "producer"} : CopyAndRelease(key)
      BY <2>3 DEF PublisherReleases, ReleaseFails
    <3>2. pubPc = "copy" /\ pubPc' # "copy"
          /\ mutex' = [mutex EXCEPT ![PubTexture(SlotIndex)] = key]
      BY <2>3, <3>1 DEF PublisherReleases, ReleaseFails, PubGoes, CopyAndRelease
    <3>3. PubTexture(SlotIndex) \in Textures /\ (conPc = "copy" => inputTexture \in Textures)
      BY <3>2, PublisherTexture, ConsumerTexture
    <3> QED
      BY <1>1, <2>1, <3>2, <3>3 DEF Holding
  <2>4. CASE PublisherDrops \/ WriteSlot \/ WriteLatest
    <3>1. pubPc' # "copy" /\ UNCHANGED mutex
      BY <2>4 DEF PublisherDrops, WriteSlot, WriteLatest, PubGoes
    <3> QED
      BY <2>1, <3>1 DEF Holding
  <2> QED
    BY <1>4, <2>2, <2>3, <2>4 DEF PublishFrame
<1>5. CASE ForgetSession
  <2>1. pubPc' = "idle" /\ mutex' = Lost("producer") /\ UNCHANGED <<conPc, inputTexture>>
    BY <1>5 DEF ForgetSession, con, opened
  <2> QED
    BY <2>1, ConsumerTexture DEF Holding, Lost
<1>6. CASE CopyLatest
  <2>1. UNCHANGED <<session, sequence, pubPc>>
    BY <1>6 DEF CopyLatest, pub, pubInit
  <2>2. (PubTexture(SlotIndex))' = PubTexture(SlotIndex)
    BY <2>1 DEF PubTexture, SlotIndex
  <2>3. CASE ConsumerAcquires
    <3>1. conPc = "acquire" /\ inputTexture \in Textures /\ UNCHANGED inputTexture
      BY <2>3, ConsumerTexture DEF ConsumerAcquires, ConGoes, opened
    <3>2. pubPc = "copy" => PubTexture(SlotIndex) \in Textures
      BY PublisherTexture
    <3> QED
      BY <1>1, <2>1, <2>2, <2>3, <3>1, <3>2 DEF Holding, ConsumerAcquires, ConGoes
  <2>4. CASE ConsumerReleases
    <3>1. conPc = "copy" /\ conPc' = "idle" /\ inputTexture \in Textures
          /\ mutex' = [mutex EXCEPT ![inputTexture] = "key0"]
      BY <2>4, ConsumerTexture DEF ConsumerReleases, ConGoes, HandOver
    <3>2. pubPc = "copy" => PubTexture(SlotIndex) \in Textures
      BY PublisherTexture
    <3> QED
      BY <1>1, <2>1, <2>2, <3>1, <3>2 DEF Holding
  <2>5. CASE ~(ConsumerAcquires \/ ConsumerReleases)
    <3>1. conPc' # "copy" /\ UNCHANGED mutex
      BY <1>6, <2>5 DEF CopyLatest, OpenControlBlock, DropInvalidBlock, ReadLatest, ReadSlot, OpenSlot,
                        CheckGeneration, ConsumerReleaseFails, ConGoes
    <3> QED
      BY <2>1, <2>2, <3>1 DEF Holding
  <2> QED
    BY <2>3, <2>4, <2>5
<1>7. CASE ConsumerResets
  <2>1. conPc' = "idle" /\ mutex' = Lost("consumer") /\ UNCHANGED <<pubPc, session, sequence>>
    BY <1>7 DEF ConsumerResets, pub, pubInit
  <2>2. (PubTexture(SlotIndex))' = PubTexture(SlotIndex)
    BY <2>1 DEF PubTexture, SlotIndex
  <2> QED
    BY <2>1, <2>2, PublisherTexture DEF Holding, Lost
<1>8. CASE UNCHANGED vars
  BY <1>8 DEF Holding, vars, pub, pubInit, con, opened, PubTexture, SlotIndex
<1> QED
  BY <1>2, <1>3, <1>4, <1>5, <1>6, <1>7, <1>8 DEF Next, NullMutex, SessionEnds

LEMMA HoldingInvariant == Spec => [](TypeInv /\ Holding)
<1>1. Init => Holding
  BY DEF Init, Holding
<1> QED
  BY <1>1, HoldingStep, TypeInvariant, PTL DEF Spec

(* No step writes a texture that is full or being read.                    *)
LEMMA FullTexturesKept ==
  ASSUME TypeInv, Holding, [Next]_vars, NEW t \in Textures, mutex[t] \in {"key1", "consumer"}
  PROVE  content'[t] = content[t]
<1>1. CASE PublisherReleases \/ ReleaseFails
  <2>1. PICK key \in {"key1", "producer"} : CopyAndRelease(key)
    BY <1>1 DEF PublisherReleases, ReleaseFails
  <2>2. pubPc = "copy" /\ content' = [content EXCEPT ![PubTexture(SlotIndex)] = frame]
    BY <1>1, <2>1 DEF PublisherReleases, ReleaseFails, PubGoes, CopyAndRelease
  <2>3. t # PubTexture(SlotIndex)
    BY <2>2 DEF Holding
  <2> QED
    BY <2>2, <2>3 DEF TypeInv, TypeOK
<1>2. CASE ~(PublisherReleases \/ ReleaseFails)
  <2>1. UNCHANGED content
    BY <1>2 DEF Next, vars, Publish, Initialize, PublishFrame, NullMutex, SessionEnds, ForgetSession,
                CopyLatest, ConsumerResets, PublisherAcquires, PublisherDrops, WriteSlot, WriteLatest
  <2> QED
    BY <2>1
<1> QED
  BY <1>1, <1>2

(* Every variable keeps its type; nothing is published past the ring.      *)
THEOREM TypeCorrectness == Spec => []TypeOK
<1>1. TypeInv => TypeOK
  BY DEF TypeInv
<1> QED
  BY <1>1, TypeInvariant, PTL

(* The receiver never writes a texture while the Frame Server reads it.    *)
THEOREM Exclusion == Spec => []ExclusiveCopy
<1>1. TypeInv /\ Holding => ExclusiveCopy
  BY DEF Holding, ExclusiveCopy
<1> QED
  BY <1>1, HoldingInvariant, PTL

(* A frame that waits or is being read is not written over.                *)
THEOREM NoOverwriting == Spec => NeverOverwritten
<1>1. (TypeInv /\ Holding) /\ [Next]_vars
        => [\A t \in Textures : mutex[t] \in {"key1", "consumer"} => content'[t] = content[t]]_vars
  BY FullTexturesKept
<1> QED
  BY <1>1, HoldingInvariant, PTL DEF Spec, NeverOverwritten

-----------------------------------------------------------------------------
(* With more than one slot the ring jams.                                  *)

(* Frame s of a session lies in slot s - 1, full, for ever; the consumer   *)
(* looks for it in slot s, or in slot 0 when s is SlotCount, and turns     *)
(* back.                                                                   *)
RingPart ==
  /\ sequence <= SlotCount
  /\ ~pubMapped \/ pubPc = "initialize" => sequence = 0
  /\ pubPc \notin {"idle", "initialize"} => pubMapped
  /\ \A i \in Slots : i < sequence => mutex[PubTexture(i)] = "key1"
  /\ pubPc \in {"copy", "slot"} => sequence < SlotCount
  /\ pubPc = "slot" => mutex[PubTexture(sequence)] = "key1"

BlockPart ==
  /\ \A i \in Slots : slots[i].sequence \in {0, i + 1}
  /\ latestSequence <= SlotCount

ReaderPart ==
  /\ readSequence <= SlotCount
  /\ conPc = "slot" => readSequence # 0
  /\ conPc \in {"idle", "latest", "slot"}
  /\ delivered = <<>>

Jam == RingPart /\ BlockPart /\ ReaderPart

LEMMA JamInit == Init => Jam
<1> SUFFICES ASSUME Init
             PROVE  Jam
  OBVIOUS
<1>1. 0 <= SlotCount /\ \A i \in Slots : ~(i < 0)
  BY RingAssumption DEF Slots
<1>2. \A i \in Slots : slots[i].sequence = 0
  BY DEF Init, EmptySlot
<1> QED
  BY <1>1, <1>2 DEF Init, Jam, RingPart, BlockPart, ReaderPart

(* A step of the publisher leaves the consumer's variables alone.          *)
LEMMA ReaderKept ==
  ASSUME ReaderPart, UNCHANGED con
  PROVE  ReaderPart'
  BY DEF ReaderPart, con, read

LEMMA JamPublish == TypeInv /\ Jam /\ Publish => Jam'
<1> SUFFICES ASSUME TypeInv, Jam, Publish
             PROVE  Jam'
  OBVIOUS
<1>1. UNCHANGED <<pubMapped, session, sequence, mutex, slots, latestSequence, con>>
      /\ pubPc' = IF pubMapped THEN "acquire" ELSE "initialize"
  BY DEF Publish, PubGoes, pubInit, block
<1> QED
  BY <1>1, ReaderKept DEF Jam, RingPart, BlockPart, PubTexture

LEMMA JamInitialize == TypeInv /\ Jam /\ Initialize => Jam'
<1> SUFFICES ASSUME TypeInv, Jam, Initialize
             PROVE  Jam'
  OBVIOUS
<1>1. UNCHANGED <<sequence, mutex, con>>
  BY DEF Initialize
<1>2. ReaderPart'
  BY <1>1, ReaderKept DEF Jam
<1>3. CASE Invalidate
  <2>1. sequence = 0 /\ pubPc' = "header" /\ pubMapped' = TRUE
    BY <1>3 DEF Invalidate, PubGoes, Jam, RingPart
  <2>2. RingPart'
    BY <1>1, <2>1, RingAssumption DEF RingPart, Slots
  <2>3. BlockPart'
    BY <1>3, RingAssumption DEF Invalidate, BlockPart, EmptySlot
  <2> QED
    BY <1>2, <2>2, <2>3 DEF Jam
<1>4. CASE ~Invalidate
  <2>1. pubPc' \notin {"copy", "slot", "initialize"} /\ UNCHANGED <<pubMapped, session, latestSequence>>
    BY <1>4 DEF Initialize, InitializeRefused, WriteHeader, MakeSlot, MakeSlotFails, SetMagic, PubGoes,
                ShareTexture, pubInit, block
  <2>2. RingPart'
    <3>1. pubPc' = "idle" \/ pubPc \notin {"idle", "initialize"}
      BY <1>4 DEF Initialize, InitializeRefused, WriteHeader, MakeSlot, MakeSlotFails, SetMagic, PubGoes
    <3> QED
      BY <1>1, <2>1, <3>1 DEF Jam, RingPart, PubTexture
  <2>3. \A i \in Slots : slots'[i].sequence = slots[i].sequence
    <3>1. CASE MakeSlot
      <4>1. PICK h \in Handles : slots' = [slots EXCEPT ![made].handle = h]
        BY <3>1 DEF MakeSlot, ShareTexture
      <4> QED
        BY <4>1 DEF TypeInv, TypeOK, SlotRecord
    <3>2. CASE ~MakeSlot
      BY <1>4, <3>2 DEF Initialize, InitializeRefused, WriteHeader, MakeSlotFails, SetMagic, block
    <3> QED
      BY <3>1, <3>2
  <2>4. BlockPart'
    BY <2>1, <2>3 DEF Jam, BlockPart
  <2> QED
    BY <1>2, <2>2, <2>4 DEF Jam
<1> QED
  BY <1>3, <1>4

LEMMA JamPublishFrame ==
  ASSUME TypeInv, Jam, PublishFrame
  PROVE  Jam'
<1>1. UNCHANGED <<pubMapped, session, con>>
  BY DEF PublishFrame, pubInit
<1>2. ReaderPart'
  BY <1>1, ReaderKept DEF Jam
<1>3. /\ sequence \in Nat /\ SlotCount \in Nat \ {0} /\ sequence <= SlotCount
      /\ mutex \in [Textures -> MutexStates]
      /\ sequence < SlotCount => SlotIndex = sequence /\ sequence \in Slots
      /\ sequence = SlotCount => SlotIndex = 0 /\ 0 \in Slots
  <2>1. sequence \in Nat /\ SlotCount \in Nat \ {0}
    BY RingAssumption DEF TypeInv, TypeOK
  <2>2. sequence <= SlotCount /\ mutex \in [Textures -> MutexStates]
    BY DEF TypeInv, TypeOK, Jam, RingPart
  <2>3. sequence < SlotCount => SlotIndex = sequence
    BY <2>1, Modulo DEF SlotIndex
  <2>4. sequence = SlotCount => SlotIndex = 0
    BY Modulo DEF SlotIndex
  <2>5. 0 \in Slots /\ (sequence < SlotCount => sequence \in Slots)
    BY <2>1 DEF Slots
  <2> QED
    BY <2>1, <2>2, <2>3, <2>4, <2>5
<1>4. \A i, j : PubTexture(i) = PubTexture(j) => i = j
  BY DEF PubTexture
<1>5. \A i : (PubTexture(i))' = PubTexture(i)
  BY <1>1 DEF PubTexture
<1>6. CASE PublisherAcquires
  <2>1. /\ pubPc' = "copy" /\ pubPc = "acquire" /\ UNCHANGED <<sequence, latestSequence, slots>>
        /\ mutex[PubTexture(SlotIndex)] = "key0"
        /\ mutex' = [mutex EXCEPT ![PubTexture(SlotIndex)] = "producer"]
    BY <1>6 DEF PublisherAcquires, PubGoes
  <2>2. sequence # SlotCount
    BY <1>3, <2>1 DEF Jam, RingPart
  <2>3. sequence < SlotCount /\ SlotIndex = sequence
    BY <1>3, <2>2
  <2>4. ASSUME NEW i \in Slots, i < sequence
        PROVE  mutex'[PubTexture(i)] = "key1"
    <3>1. i # sequence
      BY <1>3, <2>4
    <3>2. PubTexture(i) # PubTexture(SlotIndex)
      BY <1>4, <2>3, <3>1
    <3>3. PubTexture(i) \in Textures
      BY <2>1, CurrentTexture DEF TypeInv, Progress
    <3>4. mutex[PubTexture(i)] = "key1"
      BY <2>4 DEF Jam, RingPart
    <3> QED
      BY <1>3, <2>1, <3>2, <3>3, <3>4
  <2>6. pubMapped
    BY <2>1 DEF Jam, RingPart
  <2>7. RingPart'
    BY <1>1, <1>5, <2>1, <2>3, <2>4, <2>6, <1>3 DEF RingPart
  <2>8. BlockPart'
    BY <2>1 DEF Jam, BlockPart
  <2> QED
    BY <1>2, <2>7, <2>8 DEF Jam
<1>7. CASE PublisherDrops
  <2>1. pubPc' = "idle" /\ UNCHANGED <<sequence, latestSequence, slots, mutex>>
    BY <1>7 DEF PublisherDrops, PubGoes
  <2> QED
    BY <1>1, <1>2, <1>5, <2>1 DEF Jam, RingPart, BlockPart
<1>8. CASE PublisherReleases \/ ReleaseFails
  <2>1. PICK key \in {"key1", "producer"} :
          /\ CopyAndRelease(key)
          /\ pubPc' = IF key = "key1" THEN "slot" ELSE "idle"
    BY <1>8 DEF PublisherReleases, ReleaseFails, PubGoes
  <2>2. pubPc = "copy" /\ UNCHANGED <<sequence, latestSequence, slots>>
        /\ mutex' = [mutex EXCEPT ![PubTexture(SlotIndex)] = key]
    BY <1>8, <2>1 DEF PublisherReleases, ReleaseFails, PubGoes, CopyAndRelease
  <2>3. sequence < SlotCount /\ SlotIndex = sequence
    BY <1>3, <2>2 DEF Jam, RingPart
  <2>4. ASSUME NEW i \in Slots, i < sequence
        PROVE  mutex'[PubTexture(i)] = "key1"
    <3>1. i # sequence
      BY <1>3, <2>4
    <3>2. PubTexture(i) # PubTexture(SlotIndex)
      BY <1>4, <2>3, <3>1
    <3>3. PubTexture(i) \in Textures
      BY <2>2, CurrentTexture DEF TypeInv, Progress
    <3>4. mutex[PubTexture(i)] = "key1"
      BY <2>4 DEF Jam, RingPart
    <3> QED
      BY <1>3, <2>2, <3>2, <3>3, <3>4
  <2>5. mutex'[PubTexture(sequence)] = key
    BY <1>3, <2>2, <2>3, PublisherTexture
  <2>6. pubMapped
    BY <2>2 DEF Jam, RingPart
  <2>7. RingPart'
    BY <1>1, <1>5, <2>1, <2>2, <2>3, <2>4, <2>5, <2>6, <1>3 DEF RingPart
  <2>8. BlockPart'
    BY <2>2 DEF Jam, BlockPart
  <2> QED
    BY <1>2, <2>7, <2>8 DEF Jam
<1>9. CASE WriteSlot
  <2>1. /\ pubPc' = "latest" /\ pubPc = "slot" /\ UNCHANGED <<latestSequence, mutex>>
        /\ sequence' = sequence + 1
        /\ slots' = [slots EXCEPT ![SlotIndex].sequence = sequence + 1]
    BY <1>9 DEF WriteSlot, PubGoes
  <2>2. sequence < SlotCount /\ SlotIndex = sequence /\ mutex[PubTexture(sequence)] = "key1"
    BY <1>3, <2>1 DEF Jam, RingPart
  <2>3. \A i \in Slots : i < sequence' => mutex'[PubTexture(i)] = "key1"
    <3>1. \A i \in Slots : i < sequence + 1 => i < sequence \/ i = sequence
      BY <1>3 DEF Slots
    <3> QED
      BY <2>1, <2>2, <3>1 DEF Jam, RingPart
  <2>4. pubMapped
    BY <2>1 DEF Jam, RingPart
  <2>5. RingPart'
    BY <1>1, <1>3, <1>5, <2>1, <2>2, <2>3, <2>4 DEF RingPart
  <2>6. \A i \in Slots : slots'[i].sequence \in {0, i + 1}
    BY <2>1, <2>2 DEF Jam, BlockPart, TypeInv, TypeOK, SlotRecord
  <2>7. BlockPart'
    BY <2>1, <2>6 DEF Jam, BlockPart
  <2> QED
    BY <1>2, <2>5, <2>7 DEF Jam
<1>10. CASE WriteLatest
  <2>1. pubPc' = "idle" /\ UNCHANGED <<sequence, slots, mutex>> /\ latestSequence' = sequence
    BY <1>10 DEF WriteLatest, PubGoes
  <2> QED
    BY <1>1, <1>2, <1>5, <2>1 DEF Jam, RingPart, BlockPart
<1> QED
  BY <1>6, <1>7, <1>8, <1>9, <1>10 DEF PublishFrame

LEMMA JamForgetSession ==
  ASSUME TypeInv, Jam, ForgetSession
  PROVE  Jam'
<1>1. sequence' = 0 /\ pubPc' = "idle" /\ UNCHANGED <<slots, latestSequence, con>>
  BY DEF ForgetSession, block
<1>2. ReaderPart'
  BY <1>1, ReaderKept DEF Jam
<1>3. 0 <= SlotCount /\ \A i \in Slots : ~(i < 0)
  BY RingAssumption DEF Slots
<1>4. RingPart'
  BY <1>1, <1>3 DEF RingPart
<1>5. BlockPart'
  BY <1>1 DEF Jam, BlockPart
<1> QED
  BY <1>2, <1>4, <1>5 DEF Jam

(* The consumer's slot never holds the frame it is looking for.            *)
LEMMA SlotMismatch ==
  ASSUME TypeInv, Jam, SlotCount > 1, conPc = "slot"
  PROVE  slots[SlotOf(readSequence)].sequence # readSequence
<1>1. readSequence \in Nat /\ readSequence # 0 /\ readSequence <= SlotCount
  BY DEF TypeInv, TypeOK, Jam, ReaderPart
<1>2. SlotCount \in Nat /\ 0 \in Slots
  BY RingAssumption DEF Slots
<1>3. CASE readSequence < SlotCount
  <2>1. SlotOf(readSequence) = readSequence /\ readSequence \in Slots
    BY <1>1, <1>2, <1>3, Modulo DEF SlotOf
  <2>2. slots[readSequence].sequence \in {0, readSequence + 1}
    BY <2>1 DEF Jam, BlockPart
  <2> QED
    BY <1>1, <2>1, <2>2
<1>4. CASE readSequence = SlotCount
  <2>1. SlotOf(readSequence) = 0
    BY <1>4, Modulo DEF SlotOf
  <2>2. slots[0].sequence \in {0, 0 + 1}
    BY <1>2 DEF Jam, BlockPart
  <2> QED
    BY <1>1, <1>2, <1>4, <2>1, <2>2
<1> QED
  BY <1>1, <1>2, <1>3, <1>4

LEMMA JamCopyLatest ==
  ASSUME TypeInv, Jam, SlotCount > 1, CopyLatest
  PROVE  Jam'
<1>1. UNCHANGED <<pubMapped, session, sequence, pubPc, slots, latestSequence>>
  BY DEF CopyLatest, pub, pubInit, block
<1>2. CASE OpenControlBlock \/ DropInvalidBlock \/ ReadLatest
  <2>1. UNCHANGED <<mutex, delivered>>
    BY <1>2 DEF OpenControlBlock, DropInvalidBlock, ReadLatest
  <2>2. \/ /\ conPc' \in {"idle", "latest"}
           /\ UNCHANGED readSequence
        \/ /\ conPc' = "idle" \/ (conPc' = "slot" /\ latestSequence # 0)
           /\ readSequence' = latestSequence
    <3>1. CASE OpenControlBlock
      BY <3>1 DEF OpenControlBlock, ConGoes, read
    <3>2. CASE DropInvalidBlock
      BY <3>2 DEF DropInvalidBlock, ConGoes, read
    <3>3. CASE ReadLatest /\ latestSequence = 0
      BY <3>3 DEF ReadLatest, ConGoes
    <3>4. CASE ReadLatest /\ latestSequence # 0
      BY <3>4 DEF ReadLatest, ConGoes
    <3> QED
      BY <1>2, <3>1, <3>2, <3>3, <3>4
  <2>3. ReaderPart'
    BY <2>1, <2>2 DEF Jam, ReaderPart, BlockPart
  <2> QED
    BY <1>1, <2>1, <2>3 DEF Jam, RingPart, BlockPart, PubTexture
<1>3. CASE ReadSlot
  <2>1. /\ conPc = "slot" /\ readSlot' = slots[SlotOf(readSequence)]
        /\ conPc' = IF readSlot'.sequence = readSequence THEN "open" ELSE "idle"
        /\ UNCHANGED <<readSequence, delivered, mutex>>
    BY <1>3 DEF ReadSlot, ConGoes
  <2>2. conPc' = "idle"
    BY <2>1, SlotMismatch
  <2>3. ReaderPart'
    BY <2>1, <2>2 DEF Jam, ReaderPart
  <2> QED
    BY <1>1, <2>1, <2>3 DEF Jam, RingPart, BlockPart, PubTexture
<1>4. ~(OpenSlot \/ CheckGeneration \/ ConsumerAcquires \/ ConsumerReleases \/ ConsumerReleaseFails)
  BY DEF Jam, ReaderPart, OpenSlot, CheckGeneration, ConsumerAcquires, ConsumerReleases,
         ConsumerReleaseFails, ConGoes
<1> QED
  BY <1>2, <1>3, <1>4 DEF CopyLatest

LEMMA JamConsumerResets ==
  ASSUME TypeInv, Jam, ConsumerResets
  PROVE  Jam'
<1>1. /\ UNCHANGED <<pubMapped, session, sequence, pubPc, slots, latestSequence, delivered>>
      /\ readSequence' = 0 /\ conPc' = "idle" /\ mutex' = Lost("consumer")
  BY DEF ConsumerResets, pub, pubInit, block
<1>2. \A t \in Textures : mutex[t] = "key1" => mutex'[t] = "key1"
  BY <1>1 DEF Lost
<1>3. sequence # 0 => session # 0
  BY DEF Jam, RingPart, TypeInv, Progress
<1>4. \A i \in Slots : session # 0 => PubTexture(i) \in Textures /\ (PubTexture(i))' = PubTexture(i)
  BY <1>1, CurrentTexture DEF PubTexture
<1>5. \A i \in Slots : i < sequence' => mutex'[(PubTexture(i))'] = "key1"
  <2>1. \A i \in Slots : i < sequence => sequence # 0
    BY DEF Slots
  <2> QED
    BY <1>1, <1>2, <1>3, <1>4, <2>1 DEF Jam, RingPart
<1>6. pubPc = "slot" => mutex'[(PubTexture(sequence))'] = "key1"
  <2>1. pubPc = "slot" => session # 0 /\ sequence \in Slots
    BY RingAssumption DEF Jam, RingPart, TypeInv, TypeOK, Progress, Slots
  <2> QED
    BY <1>1, <1>2, <1>4, <2>1 DEF Jam, RingPart
<1>7. RingPart'
  BY <1>1, <1>5, <1>6 DEF Jam, RingPart, PubTexture
<1>8. BlockPart' /\ ReaderPart'
  BY <1>1, RingAssumption DEF Jam, BlockPart, ReaderPart
<1> QED
  BY <1>7, <1>8 DEF Jam

LEMMA JamInvariant == ASSUME SlotCount > 1 PROVE Spec => []Jam
<1>1. TypeInv /\ Jam /\ [Next]_vars => Jam'
  <2> SUFFICES ASSUME TypeInv, Jam, [Next]_vars
               PROVE  Jam'
    OBVIOUS
  <2>1. CASE NullMutex \/ SessionEnds
    BY <2>1, JamForgetSession DEF NullMutex, SessionEnds
  <2>2. CASE UNCHANGED vars
    BY <2>2 DEF Jam, RingPart, BlockPart, ReaderPart, PubTexture, vars, block, pub, pubInit, con, read
  <2> QED
    BY <2>1, <2>2, JamPublish, JamInitialize, JamPublishFrame, JamCopyLatest, JamConsumerResets DEF Next
<1> QED
  BY <1>1, JamInit, TypeInvariant, PTL DEF Spec

(* With more than one slot the consumer never delivers a frame, and a      *)
(* session never publishes more than SlotCount of them.                    *)
THEOREM Jamming == Spec => [](NothingDelivered /\ RingJams)
<1>1. CASE SlotCount > 1
  <2>1. Jam => NothingDelivered /\ RingJams
    BY DEF Jam, RingPart, ReaderPart, NothingDelivered, RingJams
  <2>2. Spec => []Jam
    BY <1>1, JamInvariant
  <2> QED
    BY <2>1, <2>2, PTL
<1>2. CASE ~(SlotCount > 1)
  <2>1. NothingDelivered /\ RingJams
    BY <1>2 DEF NothingDelivered, RingJams
  <2>2. [](NothingDelivered /\ RingJams)
    BY <1>2, PTL DEF NothingDelivered, RingJams
  <2> QED
    BY <2>2
<1> QED
  BY <1>1, <1>2

-----------------------------------------------------------------------------
(* The order of what is delivered.  With more slots nothing is, so this is *)
(* about a ring of one: a session has one texture, and the number of the   *)
(* session orders the textures.                                            *)

(* The frame of Publish has not been copied yet.                           *)
Uncopied == {"initialize", "header", "slots", "acquire", "copy"}

(* A texture holds a frame older than the one being published, and one     *)
(* newer than the textures of earlier sessions hold.                       *)
ContentInv ==
  /\ \A t \in Textures : content[t] <= frame
  /\ pubPc \in Uncopied => \A t \in Textures : content[t] < frame
  /\ \A t \in Textures : t[1] > session => content[t] = 0
  /\ \A s, t \in Textures : s[1] < t[1] /\ content[t] > 0 => content[s] < content[t]

(* What a texture held when it was delivered is not newer than what it     *)
(* holds now, and older if it is full again.                               *)
ShownInv ==
  \A i \in 1..Len(delivered) :
    LET t == delivered[i].texture
    IN  /\ delivered[i].frame <= content[t]
        /\ mutex[t] \in {"key1", "consumer"} => delivered[i].frame < content[t]

FullInv == \A t \in Textures : mutex[t] \in {"key1", "consumer"} => content[t] > 0

(* The consumer goes back to no earlier session: a handle that is not open *)
(* yet is one of the session that is there now.                            *)
SessionInv ==
  /\ \A i \in 1..Len(delivered) : delivered[i].texture[1] <= session
  /\ inputTexture # None =>
       /\ inputTexture[1] <= session
       /\ \A i \in 1..Len(delivered) : delivered[i].texture[1] <= inputTexture[1]

OrderInv == ContentInv /\ ShownInv /\ FullInv /\ SessionInv /\ DeliveredInOrder

LEMMA SessionNumbers ==
  /\ \A t \in Textures : t[1] \in Nat /\ t # None
  /\ TypeInv => session \in Nat /\ frame \in Nat
  /\ TypeInv => \A t \in Textures : content[t] \in Nat
  /\ TypeInv => \A i \in 1..Len(delivered) :
                  delivered[i].texture \in Textures /\ delivered[i].frame \in Nat
<1>1. \A t \in Textures : t[1] \in Nat /\ t # None
  BY RingAssumption DEF Textures, Slots
<1>2. TypeInv => session \in Nat /\ frame \in Nat
  BY RingAssumption DEF TypeInv, TypeOK
<1>3. TypeInv => \A t \in Textures : content[t] \in Nat
  BY RingAssumption DEF TypeInv, TypeOK
<1>4. ASSUME TypeInv, NEW i \in 1..Len(delivered)
      PROVE  delivered[i].texture \in Textures /\ delivered[i].frame \in Nat
  <2> DEFINE Shown == [frame : 0..MaxFrames, texture : Textures]
  <2>1. delivered \in Seq(Shown)
    BY <1>4 DEF TypeInv, TypeOK
  <2>2. delivered[i] \in Shown
    <3> HIDE DEF Shown
    <3> QED
      BY <1>4, <2>1
  <2> QED
    BY <2>2, RingAssumption
<1> QED
  BY <1>1, <1>2, <1>3, <1>4

LEMMA OrderInit == Init => OrderInv
<1> SUFFICES ASSUME Init PROVE OrderInv
  OBVIOUS
<1>1. delivered = <<>> /\ 1..Len(delivered) = {}
  BY DEF Init
<1>2. ContentInv /\ FullInv
  BY DEF Init, ContentInv, FullInv, Uncopied
<1>3. inputTexture = None
  BY DEF Init
<1> QED
  BY <1>1, <1>2, <1>3 DEF OrderInv, ShownInv, SessionInv, DeliveredInOrder

(* A step that copies nothing and delivers nothing.                        *)
LEMMA OrderKept ==
  ASSUME TypeInv, OrderInv, TypeInv',
         UNCHANGED <<content, delivered>>,
         frame' = frame \/ frame' = frame + 1,
         session' = session \/ session' = session + 1,
         pubPc' \in Uncopied => pubPc \in Uncopied \/ frame' = frame + 1,
         \A t \in Textures : mutex'[t] \in {"key1", "consumer"}
                               => mutex[t] \in {"key1", "consumer"},
         inputTexture' \in {inputTexture, None} \/ inputTexture'[1] = session
  PROVE  OrderInv'
<1>1. /\ session \in Nat /\ frame \in Nat
      /\ \A t \in Textures : t[1] \in Nat /\ content[t] \in Nat
      /\ \A i \in 1..Len(delivered) : delivered[i].texture \in Textures
  BY SessionNumbers
<1>2. ContentInv'
  <2>1. \A t \in Textures : content[t] <= frame'
    BY <1>1 DEF OrderInv, ContentInv
  <2>2. pubPc' \in Uncopied => \A t \in Textures : content[t] < frame'
    BY <1>1 DEF OrderInv, ContentInv
  <2>3. \A t \in Textures : t[1] > session' => content[t] = 0
    BY <1>1 DEF OrderInv, ContentInv
  <2> QED
    BY <2>1, <2>2, <2>3 DEF OrderInv, ContentInv
<1>3. ShownInv' /\ FullInv' /\ DeliveredInOrder'
  BY <1>1 DEF OrderInv, ShownInv, FullInv, DeliveredInOrder
<1>4. SessionInv'
  <2> DEFINE Seen == {delivered[i].texture[1] : i \in 1..Len(delivered)}
  <2>1. Seen \subseteq Nat
    BY <1>1
  <2>2. \A n \in Seen : n <= session
    BY DEF OrderInv, SessionInv
  <2>3. inputTexture # None =>
          inputTexture[1] \in Nat /\ inputTexture[1] <= session
          /\ \A n \in Seen : n <= inputTexture[1]
    BY <1>1 DEF OrderInv, SessionInv, TypeInv, TypeOK
  <2>4. \A n \in Seen : n <= session'
    <3>1. \A n \in Nat : n <= session => n <= session'
      BY <1>1
    <3> HIDE DEF Seen
    <3> QED
      BY <2>1, <2>2, <3>1
  <2>5. inputTexture' # None =>
          inputTexture'[1] <= session' /\ \A n \in Seen : n <= inputTexture'[1]
    <3>1. CASE inputTexture' = inputTexture
      BY <1>1, <2>3, <3>1
    <3>2. CASE inputTexture'[1] = session
      BY <1>1, <2>2, <3>2
    <3> QED
      BY <3>1, <3>2
  <2> QED
    BY <2>4, <2>5 DEF SessionInv
<1> QED
  BY <1>2, <1>3, <1>4 DEF OrderInv

(* The copy into the current texture: its number is above all others.      *)
LEMMA OrderCopy ==
  ASSUME TypeInv, OrderInv, NEW key, CopyAndRelease(key), pubPc = "copy",
         pubPc' \notin Uncopied, UNCHANGED <<session, frame, inputTexture, delivered>>
  PROVE  OrderInv'
<1> DEFINE cur == PubTexture(SlotIndex)
<1>1. /\ session \in Nat /\ frame \in Nat
      /\ \A t \in Textures : t[1] \in Nat /\ content[t] \in Nat
      /\ \A i \in 1..Len(delivered) : delivered[i].texture \in Textures /\ delivered[i].frame \in Nat
  BY SessionNumbers
<1>2. cur \in Textures /\ cur[1] = session
  BY PublisherTexture DEF PubTexture
<1>3. \A t \in Textures : content'[t] = IF t = cur THEN frame ELSE content[t]
  BY DEF CopyAndRelease, TypeInv, TypeOK
<1>4. \A t \in Textures : t # cur => mutex'[t] = mutex[t]
  BY DEF CopyAndRelease, TypeInv, TypeOK
<1>5. \A t \in Textures : content[t] < frame
  BY DEF OrderInv, ContentInv, Uncopied
<1> HIDE DEF cur
<1>6. ContentInv'
  <2>1. \A t \in Textures : content'[t] <= frame'
    BY <1>1, <1>3, <1>5
  <2>2. \A t \in Textures : t[1] > session' => content'[t] = 0
    BY <1>1, <1>2, <1>3 DEF OrderInv, ContentInv
  <2>3. ASSUME NEW s \in Textures, NEW t \in Textures, s[1] < t[1], content'[t] > 0
        PROVE  content'[s] < content'[t]
    <3>1. CASE t = cur
      <4>1. s # cur
        BY <1>1, <2>3, <3>1
      <4> QED
        BY <1>3, <1>5, <3>1, <4>1
    <3>2. CASE t # cur /\ s = cur
      <4>1. content'[t] = 0
        BY <1>1, <1>2, <1>3, <2>3, <3>2 DEF OrderInv, ContentInv
      <4> QED
        BY <2>3, <4>1
    <3>3. CASE t # cur /\ s # cur
      BY <1>3, <2>3, <3>3 DEF OrderInv, ContentInv
    <3> QED
      BY <3>1, <3>2, <3>3
  <2> QED
    BY <2>1, <2>2, <2>3 DEF ContentInv
<1>7. ShownInv'
  BY <1>1, <1>3, <1>4, <1>5 DEF OrderInv, ShownInv
<1>8. FullInv'
  <2>1. frame > 0
    BY <1>1, <1>2, <1>5
  <2> QED
    BY <1>3, <1>4, <2>1 DEF OrderInv, FullInv
<1> QED
  BY <1>6, <1>7, <1>8 DEF OrderInv, SessionInv, DeliveredInOrder

(* A texture that is handed over is newer than all delivered before: those *)
(* came from it, when it held an earlier frame, or from earlier sessions.  *)
LEMMA OrderHandOver ==
  ASSUME SlotCount = 1, TypeInv, OrderInv, Holding, conPc = "copy", HandOver("key0"),
         UNCHANGED <<content, pub>>
  PROVE  OrderInv'
<1> DEFINE new == [frame |-> content[inputTexture], texture |-> inputTexture]
           len == Len(delivered)
<1>1. /\ session \in Nat
      /\ \A t \in Textures : t[1] \in Nat /\ t # None /\ content[t] \in Nat
      /\ \A i \in 1..len : delivered[i].texture \in Textures /\ delivered[i].frame \in Nat
  BY SessionNumbers
<1>2. inputTexture \in Textures /\ mutex[inputTexture] = "consumer"
  BY ConsumerTexture DEF Holding
<1>3. /\ len \in Nat /\ Len(delivered') = len + 1 /\ delivered'[len + 1] = new
      /\ \A i \in 1..len : delivered'[i] = delivered[i]
  BY DEF HandOver, TypeInv, TypeOK
<1>4. \A t \in Textures : mutex'[t] = IF t = inputTexture THEN "key0" ELSE mutex[t]
  BY DEF HandOver, TypeInv, TypeOK
<1>5. UNCHANGED <<session, frame, pubPc, inputTexture>>
  BY DEF HandOver, pub, pubInit, opened
<1>6. \A i \in 1..len : delivered[i].frame < new.frame
  <2> SUFFICES ASSUME NEW i \in 1..len
               PROVE  delivered[i].frame < content[inputTexture]
    OBVIOUS
  <2> DEFINE t == delivered[i].texture
  <2>1. t \in Textures /\ t[1] <= inputTexture[1]
    BY <1>1, <1>2 DEF OrderInv, SessionInv
  <2>2. CASE t = inputTexture
    BY <1>2, <2>2 DEF OrderInv, ShownInv
  <2>3. CASE t # inputTexture
    <3>1. t[1] < inputTexture[1]
      <4>1. t[2] = inputTexture[2]
        BY <1>2, <2>1 DEF Textures, Slots
      <4>2. t[1] # inputTexture[1]
        BY <1>2, <2>1, <2>3, <4>1 DEF Textures
      <4> QED
        BY <1>1, <1>2, <2>1, <4>2
    <3>2. content[t] < content[inputTexture]
      BY <1>2, <2>1, <3>1 DEF OrderInv, ContentInv, FullInv
    <3>3. delivered[i].frame <= content[t]
      BY DEF OrderInv, ShownInv
    <3> QED
      BY <1>1, <1>2, <2>1, <3>2, <3>3
  <2> QED
    BY <2>2, <2>3
<1>n. \A i \in 1..Len(delivered') : i \in 1..len \/ i = len + 1
  BY <1>3
<1>7. DeliveredInOrder'
  <2> SUFFICES ASSUME NEW i \in 1..Len(delivered'), NEW j \in 1..Len(delivered'), i < j
               PROVE  delivered'[i].frame < delivered'[j].frame
    BY DEF DeliveredInOrder
  <2>1. CASE j \in 1..len
    <3>1. i \in 1..len
      BY <1>3, <2>1
    <3> QED
      BY <1>3, <2>1, <3>1 DEF OrderInv, DeliveredInOrder
  <2>2. CASE j = len + 1
    <3>1. i \in 1..len
      BY <1>3, <2>2
    <3> QED
      BY <1>3, <1>6, <2>2, <3>1
  <2> QED
    BY <1>n, <2>1, <2>2
<1>8. ShownInv' /\ SessionInv'
  <2>1. new.frame = content[inputTexture] /\ new.texture = inputTexture
    OBVIOUS
  <2> HIDE DEF new, len
  <2>2. ASSUME NEW i \in 1..len
        PROVE  LET t == delivered[i].texture
               IN  /\ delivered[i].frame <= content[t]
                   /\ mutex'[t] \in {"key1", "consumer"} => delivered[i].frame < content[t]
    BY <1>1, <1>4, <2>2 DEF OrderInv, ShownInv, len
  <2>3. ShownInv'
    BY <1>1, <1>2, <1>3, <1>4, <1>n, <2>1, <2>2 DEF ShownInv
  <2>4. \A i \in 1..Len(delivered') : delivered'[i].texture[1] <= inputTexture[1]
    <3>1. \A i \in 1..len : delivered[i].texture[1] <= inputTexture[1]
      BY <1>1, <1>2 DEF OrderInv, SessionInv, len
    <3>2. inputTexture[1] <= inputTexture[1]
      BY <1>1, <1>2
    <3> QED
      BY <1>3, <1>n, <2>1, <3>1, <3>2
  <2>5. inputTexture[1] <= session
    BY <1>1, <1>2 DEF OrderInv, SessionInv
  <2>6. \A i \in 1..Len(delivered') :
          delivered'[i].texture \in Textures
    BY <1>1, <1>2, <1>3, <1>n, <2>1
  <2>7. SessionInv'
    <3>1. \A i \in 1..Len(delivered') : delivered'[i].texture[1] <= session
      BY <1>1, <1>2, <2>4, <2>5, <2>6
    <3> QED
      BY <1>5, <2>4, <2>5, <3>1 DEF SessionInv
  <2> QED
    BY <2>3, <2>7
<1>9. FullInv' /\ ContentInv'
  BY <1>4, <1>5 DEF OrderInv, FullInv, ContentInv
<1> QED
  BY <1>7, <1>8, <1>9 DEF OrderInv

LEMMA OrderStep ==
  ASSUME SlotCount = 1, TypeInv, TypeInv', Holding, OrderInv, [Next]_vars
  PROVE  OrderInv'
<1>u. Uncopied = {"initialize", "header", "slots", "acquire", "copy"}
  BY DEF Uncopied
<1>1. CASE Publish
  BY <1>1, OrderKept DEF Publish, pubInit, con, opened
<1>2. CASE Initialize
  <2>1. UNCHANGED <<frame, mutex, content, inputTexture, delivered>>
    BY <1>2 DEF Initialize, con, opened
  <2>2. pubPc' \in Uncopied => pubPc \in Uncopied
    BY <1>2, <1>u DEF Initialize, InitializeRefused, Invalidate, WriteHeader, MakeSlot,
                MakeSlotFails, SetMagic, PubGoes
  <2>3. session' = session \/ session' = session + 1
    BY <1>2 DEF Initialize, InitializeRefused, Invalidate, WriteHeader, MakeSlot, ShareTexture,
                MakeSlotFails, SetMagic, pubInit
  <2> QED
    BY <2>1, <2>2, <2>3, OrderKept
<1>3. CASE PublishFrame
  <2>1. UNCHANGED <<session, frame, inputTexture, delivered>>
    BY <1>3 DEF PublishFrame, pubInit, con, opened
  <2>2. CASE PublisherAcquires
    <3>1. \A t \in Textures : mutex'[t] = "producer" \/ mutex'[t] = mutex[t]
      BY <2>2 DEF PublisherAcquires, TypeInv, TypeOK
    <3>2. UNCHANGED content /\ pubPc = "acquire"
      BY <2>2 DEF PublisherAcquires, PubGoes
    <3> QED
      BY <2>1, <3>1, <3>2, <1>u, OrderKept
  <2>3. CASE PublisherReleases \/ ReleaseFails
    <3>1. PICK key : CopyAndRelease(key)
      BY <2>3 DEF PublisherReleases, ReleaseFails
    <3>2. pubPc = "copy" /\ pubPc' \notin Uncopied
      BY <2>3, <1>u DEF PublisherReleases, ReleaseFails, PubGoes
    <3> QED
      BY <2>1, <3>1, <3>2, OrderCopy
  <2>4. CASE PublisherDrops \/ WriteSlot \/ WriteLatest
    <3>1. UNCHANGED <<mutex, content>> /\ pubPc' \notin Uncopied
      BY <2>4, <1>u DEF PublisherDrops, WriteSlot, WriteLatest, PubGoes
    <3> QED
      BY <2>1, <3>1, OrderKept
  <2> QED
    BY <1>3, <2>2, <2>3, <2>4 DEF PublishFrame
<1>l. \A holder : \A t \in Textures : Lost(holder)[t] \in {"lost", mutex[t]}
  BY DEF Lost
<1>4. CASE NullMutex \/ SessionEnds
  <2>1. /\ UNCHANGED <<session, frame, content, inputTexture, delivered>>
        /\ pubPc' = "idle" /\ mutex' = Lost("producer")
    BY <1>4 DEF NullMutex, SessionEnds, ForgetSession, con, opened
  <2>2. \A t \in Textures : mutex'[t] \in {"lost", mutex[t]}
    BY <1>l, <2>1
  <2> QED
    BY <2>1, <2>2, <1>u, OrderKept
<1>5. CASE CopyLatest
  <2>1. UNCHANGED <<content, pub>> /\ UNCHANGED <<session, frame, pubPc>>
    BY <1>5 DEF CopyLatest, pub, pubInit
  <2>2. CASE ConsumerReleases
    BY <2>1, <2>2, OrderHandOver DEF ConsumerReleases, ConGoes
  <2>3. CASE ConsumerAcquires
    <3>1. /\ UNCHANGED <<inputTexture, delivered>>
          /\ \A t \in Textures : mutex'[t] = mutex[t] \/ mutex[t] = "key1"
      BY <2>3 DEF ConsumerAcquires, opened, TypeInv, TypeOK
    <3> QED
      BY <2>1, <3>1, OrderKept
  <2>4. CASE OpenSlot
    <3>1. UNCHANGED <<mutex, delivered>>
      BY <2>4 DEF OpenSlot
    <3>2. inputTexture' \in {inputTexture, None} \/ inputTexture'[1] = session
      BY <2>4 DEF OpenSlot, OpenAnother, opened, PubTexture
    <3> QED
      BY <2>1, <3>1, <3>2, OrderKept
  <2>5. CASE ~(ConsumerReleases \/ ConsumerAcquires \/ OpenSlot)
    <3>1. UNCHANGED <<mutex, delivered, inputTexture>>
      BY <1>5, <2>5 DEF CopyLatest, OpenControlBlock, DropInvalidBlock, ReadLatest, ReadSlot,
                  CheckGeneration, ConsumerReleaseFails, opened
    <3> QED
      BY <2>1, <3>1, OrderKept
  <2> QED
    BY <2>2, <2>3, <2>4, <2>5
<1>6. CASE ConsumerResets
  <2>1. /\ UNCHANGED <<session, frame, pubPc, content, delivered>>
        /\ inputTexture' = None /\ mutex' = Lost("consumer")
    BY <1>6 DEF ConsumerResets, pub, pubInit
  <2>2. \A t \in Textures : mutex'[t] \in {"lost", mutex[t]}
    BY <1>l, <2>1
  <2> QED
    BY <2>1, <2>2, OrderKept
<1>7. CASE UNCHANGED vars
  BY <1>7, OrderKept DEF vars, pub, pubInit, con, opened
<1> QED
  BY <1>1, <1>2, <1>3, <1>4, <1>5, <1>6, <1>7 DEF Next

LEMMA OrderInvariant == ASSUME SlotCount = 1 PROVE Spec => []OrderInv
<1>1. (TypeInv /\ Holding) /\ OrderInv /\ [Next]_vars /\ (TypeInv /\ Holding)' => OrderInv'
  BY OrderStep
<1> QED
  BY <1>1, OrderInit, HoldingInvariant, PTL DEF Spec

(* The pictures the camera shows only move forward, in every interleaving  *)
(* of the two processes, whichever is killed, and whatever handle values   *)
(* recur: none is shown twice and none after a newer one.                  *)
THEOREM DeliveryOrder == Spec => []DeliveredInOrder
<1>1. CASE SlotCount = 1
  <2>1. OrderInv => DeliveredInOrder
    BY DEF OrderInv
  <2>2. Spec => []OrderInv
    BY <1>1, OrderInvariant
  <2> QED
    BY <2>1, <2>2, PTL
<1>2. CASE SlotCount # 1
  <2>1. SlotCount > 1
    BY <1>2, RingAssumption
  <2>2. Jam => DeliveredInOrder
    <3> SUFFICES ASSUME delivered = <<>> PROVE DeliveredInOrder
      BY DEF Jam, ReaderPart
    <3>1. 1..Len(delivered) = {}
      OBVIOUS
    <3> QED
      BY <3>1 DEF DeliveredInOrder
  <2>3. Spec => []Jam
    BY <2>1, JamInvariant
  <2> QED
    BY <2>2, <2>3, PTL
<1> QED
  BY <1>1, <1>2
===============================================================================

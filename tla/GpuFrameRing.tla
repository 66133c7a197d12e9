----------------------------- MODULE GpuFrameRing -----------------------------
(***************************************************************************)
(* The GPU hand-off between the receiver (windows/gpu_frame_publisher.cpp) *)
(* and the Media Foundation source inside Windows' Frame Server            *)
(* (windows/mf_virtual_camera/gpu_frame_consumer.cpp): a control block in  *)
(* named shared memory and a ring of shared textures, each guarded by a    *)
(* keyed mutex.                                                            *)
(*                                                                         *)
(* The two are threads of two processes.  Each access to shared memory and *)
(* each mutex operation is a step of its own, and either process may be    *)
(* killed between any two of them.                                         *)
(*                                                                         *)
(* Left out: the adapter identity (one adapter), frame dimensions, the     *)
(* timestamps of a slot, and what a mapping handle whose view could not be *)
(* mapped keeps alive.                                                     *)
(***************************************************************************)
EXTENDS Naturals, Sequences

CONSTANTS
  SlotCount,    \* kSlotCount, 4 in the source
  Handles,      \* values a handle of the receiver process can have
  None,         \* a null handle or pointer
  MaxFrames,    \* bound: frames the decoder hands to Publish
  MaxSessions   \* bound: times a publisher initializes the block

ASSUME RingAssumption ==
  /\ SlotCount \in Nat \ {0}
  /\ MaxFrames \in Nat
  /\ MaxSessions \in Nat
  /\ None \notin Handles
  /\ None \notin (1..MaxSessions) \X (0..SlotCount - 1)

VARIABLES
  \* Shared memory: the control block, and the ring textures with their mutex.
  valid, blockGeneration, latestSequence, slots,
  mutex,              \* who may use a texture: see MutexStates
  content,            \* number of the frame last copied into a texture
  \* The publisher, one object per receive session.
  pubMapped,          \* control_ # nullptr
  session,            \* how often a block has been initialized, ever
  previousGeneration, \* the local of Initialize
  made,               \* how many entries of mutexes_ are set
  handles,            \* shared_handles_
  sequence,           \* sequence_
  frame,              \* number of the frame being, or last, published
  pubPc,
  \* The consumer, one object in the Frame Server.
  conMapped,          \* control_ # nullptr
  generation, lastSequence, inputHandle, inputTexture,
  readSequence, readSlot,
  conPc,
  delivered           \* history: the frames CopyLatest returned

block   == <<valid, blockGeneration, latestSequence, slots>>
pubInit == <<pubMapped, session, previousGeneration, made, handles>>
pub     == <<pubInit, sequence, frame, pubPc>>
opened  == <<inputHandle, inputTexture>>
read    == <<readSequence, readSlot>>
con     == <<conMapped, generation, lastSequence, opened, read, conPc, delivered>>
vars    == <<block, mutex, content, pub, con>>

-----------------------------------------------------------------------------
Slots    == 0..SlotCount - 1
Textures == (1..MaxSessions) \X Slots

(* "key0" and "key1": nobody holds it, and the producer or the consumer     *)
(* may acquire it. "lost": its holder was killed.                           *)
MutexStates == {"key0", "key1", "producer", "consumer", "lost"}
SlotRecord  == [handle : Handles \cup {None}, sequence : 0..MaxFrames]
EmptySlot   == [handle |-> None, sequence |-> 0]

(* The ring position of the next frame, and where a reader looks for it.   *)
SlotIndex == sequence % SlotCount

SlotOf(s) == s % SlotCount

PubTexture(i) == <<session, i>>

-----------------------------------------------------------------------------
Init ==
  /\ valid = FALSE /\ blockGeneration = 0 /\ latestSequence = 0
  /\ slots = [i \in Slots |-> EmptySlot]
  /\ mutex = [t \in Textures |-> "key0"]
  /\ content = [t \in Textures |-> 0]
  /\ pubMapped = FALSE /\ session = 0 /\ previousGeneration = 0 /\ made = 0
  /\ handles = [i \in Slots |-> None]
  /\ sequence = 0 /\ frame = 0 /\ pubPc = "idle"
  /\ conMapped = FALSE /\ generation = 0 /\ lastSequence = 0
  /\ inputHandle = None /\ inputTexture = None
  /\ readSequence = 0 /\ readSlot = EmptySlot /\ conPc = "idle"
  /\ delivered = <<>>

-----------------------------------------------------------------------------
(* The publisher.                                                          *)
PubGoes(from, to) == pubPc = from /\ pubPc' = to

Publish ==
  /\ frame < MaxFrames
  /\ frame' = frame + 1
  /\ PubGoes("idle", IF pubMapped THEN "acquire" ELSE "initialize")
  /\ UNCHANGED <<pubInit, sequence, block, mutex, content, con>>

(* A frame that is refused, or a mapping that cannot be made: control_ is   *)
(* still null and the next frame tries again.                               *)
InitializeRefused ==
  /\ PubGoes("initialize", "idle")
  /\ UNCHANGED <<pubInit, block>>

(* The section is a new one unless the consumer still has it mapped.       *)
Invalidate ==
  /\ PubGoes("initialize", "header")
  /\ session < MaxSessions
  /\ session' = session + 1
  /\ pubMapped' = TRUE
  /\ previousGeneration' = IF conMapped /\ valid THEN blockGeneration ELSE 0
  /\ valid' = FALSE
  /\ blockGeneration' = 0
  /\ latestSequence' = 0
  /\ slots' = [i \in Slots |-> EmptySlot]
  /\ UNCHANGED <<made, handles>>

WriteHeader ==
  /\ PubGoes("header", "slots")
  /\ blockGeneration' = previousGeneration + 1
  /\ UNCHANGED <<pubInit, valid, latestSequence, slots>>

(* A new texture, with its mutex at key 0, and its shared handle.          *)
ShareTexture ==
  /\ \E h \in Handles :
       /\ \A i \in Slots : handles[i] # h
       /\ handles' = [handles EXCEPT ![made] = h]
       /\ slots' = [slots EXCEPT ![made].handle = h]
  /\ made' = made + 1
  /\ UNCHANGED <<pubMapped, session, previousGeneration, valid, blockGeneration, latestSequence>>

(* Mutant: the loop runs once too often.                                   *)
MakeSlotPastEnd == made <= SlotCount /\ PubGoes("slots", "slots") /\ ShareTexture

MakeSlot == made < SlotCount /\ PubGoes("slots", "slots") /\ ShareTexture

(* The adapter query, CreateTexture2D or a later call of the loop fails,    *)
(* before or after mutexes_[made] is set. control_ stays mapped.            *)
MakeSlotFails ==
  /\ made < SlotCount
  /\ PubGoes("slots", "idle")
  /\ made' \in {made, made + 1}
  /\ UNCHANGED <<pubMapped, session, previousGeneration, handles, block>>

SetMagic ==
  /\ made = SlotCount
  /\ PubGoes("slots", "acquire")
  /\ valid' = TRUE
  /\ UNCHANGED <<pubInit, blockGeneration, latestSequence, slots>>

Initialize ==
  /\ \/ InitializeRefused \/ Invalidate \/ WriteHeader
     \/ MakeSlot \/ MakeSlotFails \/ SetMagic
  /\ UNCHANGED <<sequence, frame, mutex, content, con>>

(* The mutex Publish is about to acquire exists.                           *)
HasMutex == SlotIndex < made

PublisherAcquires ==
  /\ PubGoes("acquire", "copy") /\ HasMutex
  /\ mutex[PubTexture(SlotIndex)] = "key0"
  /\ mutex' = [mutex EXCEPT ![PubTexture(SlotIndex)] = "producer"]
  /\ UNCHANGED <<content, sequence, latestSequence, slots>>

(* Mutant: WAIT_TIMEOUT passes for success, as it does in FAILED(hr).      *)
CopiesAnyway ==
  /\ PubGoes("acquire", "copy") /\ HasMutex
  /\ mutex[PubTexture(SlotIndex)] # "key0"
  /\ UNCHANGED <<mutex, content, sequence, latestSequence, slots>>

(* WAIT_TIMEOUT (S_FALSE to the caller) or an error: the frame is dropped. *)
PublisherDrops ==
  /\ PubGoes("acquire", "idle") /\ HasMutex
  /\ mutex[PubTexture(SlotIndex)] # "key0"
  /\ UNCHANGED <<mutex, content, sequence, latestSequence, slots>>

(* The copy, and ReleaseSync with the given key.                           *)
CopyAndRelease(key) ==
  /\ content' = [content EXCEPT ![PubTexture(SlotIndex)] = frame]
  /\ mutex' = [mutex EXCEPT ![PubTexture(SlotIndex)] = key]
  /\ UNCHANGED <<sequence, latestSequence, slots>>

PublisherReleases == PubGoes("copy", "slot") /\ CopyAndRelease("key1")

(* ReleaseSync fails: the producer still holds the texture.                *)
ReleaseFails == PubGoes("copy", "idle") /\ CopyAndRelease("producer")

WriteSlot ==
  /\ PubGoes("slot", "latest")
  /\ sequence' = sequence + 1
  /\ slots' = [slots EXCEPT ![SlotIndex].sequence = sequence + 1]
  /\ UNCHANGED <<latestSequence, mutex, content>>

WriteLatest ==
  /\ PubGoes("latest", "idle")
  /\ latestSequence' = sequence
  /\ UNCHANGED <<sequence, slots, mutex, content>>

PublishFrame ==
  /\ \/ PublisherAcquires \/ PublisherDrops \/ PublisherReleases
     \/ ReleaseFails \/ WriteSlot \/ WriteLatest
  /\ UNCHANGED <<pubInit, frame, valid, blockGeneration, con>>

(* Reset, by the destructor at the end of a receive session, or the end of *)
(* the receiver process.                                                   *)
Lost(holder) == [t \in Textures |-> IF mutex[t] = holder THEN "lost" ELSE mutex[t]]

ForgetSession ==
  /\ pubMapped' = FALSE
  /\ made' = 0
  /\ handles' = [i \in Slots |-> None]
  /\ sequence' = 0
  /\ pubPc' = "idle"
  /\ mutex' = Lost("producer")
  /\ UNCHANGED <<session, previousGeneration, frame, block, content, con>>

(* Between two frames, or killed.                                          *)
SessionEnds == pubMapped /\ ForgetSession

(* Publish dereferences the null mutex of a slot that was never made; that *)
(* ends the process.                                                       *)
NullMutex == pubPc = "acquire" /\ ~HasMutex /\ ForgetSession

-----------------------------------------------------------------------------
(* The consumer: CopyLatest, once per sample the Frame Server asks for.    *)
(* A call that fails before it has changed anything is not shown.          *)
ConGoes(from, to) == conPc = from /\ conPc' = to

(* OpenControlBlock, with the view mapped now or mapped before.            *)
OpenControlBlock ==
  /\ ConGoes("idle", "latest")
  /\ valid
  /\ conMapped \/ pubMapped
  /\ conMapped' = TRUE
  /\ UNCHANGED <<generation, lastSequence, opened, read, delivered, mutex>>

(* Mutant: an invalid block stays mapped, and is waited for.               *)
KeepInvalidBlock == ConGoes("idle", "idle") /\ conMapped /\ ~valid /\ UNCHANGED vars

DropInvalidBlock ==
  /\ ConGoes("idle", "idle")
  /\ conMapped /\ ~valid
  /\ conMapped' = FALSE
  /\ UNCHANGED <<generation, lastSequence, opened, read, delivered, mutex>>

ReadLatest ==
  /\ ConGoes("latest", IF latestSequence = 0 THEN "idle" ELSE "slot")
  /\ readSequence' = latestSequence
  /\ UNCHANGED <<conMapped, generation, lastSequence, opened, readSlot, delivered, mutex>>

ReadSlot ==
  /\ readSlot' = slots[SlotOf(readSequence)]
  /\ ConGoes("slot", IF readSlot'.sequence = readSequence THEN "open" ELSE "idle")
  /\ UNCHANGED <<conMapped, generation, lastSequence, opened, readSequence, delivered, mutex>>

(* OpenSlot: an equal handle value stands for the texture already open;     *)
(* another one is duplicated from the receiver, as it is now.               *)
IsOpen(handle) == handle = inputHandle /\ inputTexture # None

OpenAnother(handle) ==
  \E i \in Slots :
    /\ handles[i] = handle
    /\ inputHandle' = handle
    /\ inputTexture' = PubTexture(i)

OpenSlot ==
  /\ \/ readSlot.handle = None /\ ConGoes("open", "idle") /\ UNCHANGED opened
     \/ IsOpen(readSlot.handle) /\ ConGoes("open", "generation") /\ UNCHANGED opened
     \/ /\ readSlot.handle # None /\ ~IsOpen(readSlot.handle)
        /\ \/ OpenAnother(readSlot.handle) /\ ConGoes("open", "generation")
           \/ inputHandle' = None /\ inputTexture' = None /\ ConGoes("open", "idle")
  /\ UNCHANGED <<conMapped, generation, lastSequence, read, delivered, mutex>>

CheckGeneration ==
  /\ ConGoes("generation", "acquire")
  /\ generation' = blockGeneration
  /\ lastSequence' = IF generation # blockGeneration THEN 0 ELSE lastSequence
  /\ UNCHANGED <<conMapped, opened, read, delivered, mutex>>

ConsumerAcquires ==
  /\ \/ /\ ConGoes("acquire", "copy")
        /\ mutex[inputTexture] = "key1"
        /\ mutex' = [mutex EXCEPT ![inputTexture] = "consumer"]
     \/ /\ ConGoes("acquire", "idle")
        /\ mutex[inputTexture] # "key1"
        /\ UNCHANGED mutex
  /\ UNCHANGED <<conMapped, generation, lastSequence, opened, read, delivered>>

(* The copy, ReleaseSync and the sample handed to the caller.              *)
HandOver(key) ==
  /\ mutex' = [mutex EXCEPT ![inputTexture] = key]
  /\ delivered' = Append(delivered, [frame |-> content[inputTexture], texture |-> inputTexture])
  /\ lastSequence' = readSequence
  /\ UNCHANGED <<conMapped, generation, opened, read>>

(* Mutant: the texture is released with the consumer's own key.            *)
ConsumerKeepsKey == ConGoes("copy", "idle") /\ HandOver("key1")

ConsumerReleases == ConGoes("copy", "idle") /\ HandOver("key0")

ConsumerReleaseFails ==
  /\ ConGoes("copy", "idle")
  /\ UNCHANGED <<conMapped, generation, lastSequence, opened, read, delivered, mutex>>

CopyLatest ==
  /\ \/ OpenControlBlock \/ DropInvalidBlock \/ ReadLatest \/ ReadSlot \/ OpenSlot
     \/ CheckGeneration \/ ConsumerAcquires \/ ConsumerReleases \/ ConsumerReleaseFails
  /\ UNCHANGED <<block, content, pub>>

(* Reset: the stream gets a device again between two samples, or the Frame *)
(* Server ends at any point.                                               *)
ConsumerResets ==
  /\ conMapped
  /\ conMapped' = FALSE
  /\ generation' = 0 /\ lastSequence' = 0
  /\ inputHandle' = None /\ inputTexture' = None
  /\ readSequence' = 0 /\ readSlot' = EmptySlot /\ conPc' = "idle"
  /\ mutex' = Lost("consumer")
  /\ UNCHANGED <<delivered, block, content, pub>>

-----------------------------------------------------------------------------
Next ==
  \/ Publish \/ Initialize \/ PublishFrame \/ NullMutex \/ SessionEnds
  \/ CopyLatest \/ ConsumerResets

Spec == Init /\ [][Next]_vars

(* The decode loop and the Frame Server's pull keep running, opening a     *)
(* texture that can be opened does not fail for ever, and the Frame Server *)
(* is not reset for ever.                                                  *)
Fairness ==
  /\ WF_vars(Initialize \/ PublishFrame)
  /\ WF_vars(CopyLatest)
  /\ SF_vars(CopyLatest /\ conPc = "open" /\ conPc' = "generation")
  /\ <>[][~ConsumerResets]_vars
FairSpec == Spec /\ Fairness

-----------------------------------------------------------------------------
Pcs == [pub : {"idle", "initialize", "header", "slots", "acquire", "copy", "slot", "latest"},
        con : {"idle", "latest", "slot", "open", "generation", "acquire", "copy"}]

TypeOK ==
  /\ valid \in BOOLEAN /\ pubMapped \in BOOLEAN /\ conMapped \in BOOLEAN
  /\ blockGeneration \in Nat /\ previousGeneration \in Nat /\ generation \in Nat
  /\ latestSequence \in 0..MaxFrames /\ sequence \in 0..MaxFrames
  /\ lastSequence \in 0..MaxFrames /\ readSequence \in 0..MaxFrames
  /\ frame \in 0..MaxFrames
  /\ slots \in [Slots -> SlotRecord] /\ readSlot \in SlotRecord
  /\ mutex \in [Textures -> MutexStates]
  /\ content \in [Textures -> 0..MaxFrames]
  /\ session \in 0..MaxSessions
  /\ made \in 0..SlotCount
  /\ handles \in [Slots -> Handles \cup {None}]
  /\ inputHandle \in Handles \cup {None}
  /\ inputTexture \in Textures \cup {None}
  /\ [pub |-> pubPc, con |-> conPc] \in Pcs
  /\ delivered \in Seq([frame : 0..MaxFrames, texture : Textures])

(* The receiver never writes a texture while the Frame Server reads it,    *)
(* whatever the two find in the control block, and whoever was killed.     *)
ExclusiveCopy ==
  ~(pubPc = "copy" /\ conPc = "copy" /\ inputTexture = PubTexture(SlotIndex))

(* A frame that waits for the consumer, or is being read, is not written   *)
(* over.                                                                   *)
NeverOverwritten ==
  [][\A t \in Textures : mutex[t] \in {"key1", "consumer"} => content'[t] = content[t]]_vars

(* The pictures the camera shows only move forward, across sessions, dead  *)
(* receivers and textures kept open under an old handle: none comes twice. *)
DeliveredInOrder ==
  \A i, j \in 1..Len(delivered) : i < j => delivered[i].frame < delivered[j].frame

(* With more than one slot nothing is ever delivered: frame s is written   *)
(* to slot (s - 1) % SlotCount and looked for in slot s % SlotCount.       *)
NothingDelivered == SlotCount > 1 => delivered = <<>>

(* And then a session publishes at most SlotCount frames: each slot waits  *)
(* for ever for a consumer that never takes it.                            *)
RingJams == SlotCount > 1 => sequence <= SlotCount

(* A consumer that has the block of a publisher being replaced mapped lets *)
(* go of it, or finds it published.                                        *)
DropsInvalidBlock == (conMapped /\ ~valid) ~> (~conMapped \/ valid)

(* What the source says and the code does not do.                          *)

(* A published frame reaches the camera, while its session lasts.          *)
FrameArrives == (pubMapped /\ valid /\ latestSequence > 0) ~> (delivered # <<>> \/ ~pubMapped)
===============================================================================

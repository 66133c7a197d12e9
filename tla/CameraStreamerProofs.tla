------------------------- MODULE CameraStreamerProofs -------------------------
(* Theorems about CameraStreamer and their proofs.                         *)
EXTENDS CameraStreamer, TLAPS

USE CameraAssumption

-----------------------------------------------------------------------------
(* What is posted to sessionQueue stays there until it runs.               *)

LEMMA PostKeeps ==
  ASSUME NEW block \in Blocks, blocks \in Seq(Blocks), Post(block)
  PROVE  /\ blocks' \in Seq(Blocks)
         /\ Posted(block)'
         /\ \A other : Posted(other) => Posted(other)'
  BY DEF Post, Posted

LEMMA RunKeeps ==
  ASSUME NEW block, blocks \in Seq(Blocks), Runs(block)
  PROVE  /\ blocks' \in Seq(Blocks)
         /\ block \in Blocks
         /\ \A other : Posted(other) /\ other # block => Posted(other)'
<1>1. blocks' \in Seq(Blocks) /\ block \in Blocks
  BY DEF Runs
<1>2. ASSUME NEW other, Posted(other), other # block
      PROVE  Posted(other)'
  <2>1. PICK i \in DOMAIN blocks : blocks[i] = other
    BY <1>2 DEF Posted
  <2>2. i # 1
    BY <1>2, <2>1 DEF Runs
  <2>3. i - 1 \in DOMAIN blocks' /\ blocks'[i - 1] = other
    BY <2>1, <2>2 DEF Runs
  <2> QED
    BY <2>3 DEF Posted
<1> QED
  BY <1>1, <1>2

-----------------------------------------------------------------------------
(* Type correctness.  A timer is set exactly while recoveryScheduled is,   *)
(* and so never two of them.                                               *)

Recoveries == {r \in [scheduled : BOOLEAN, attempt : 0..MaxAttempt, timers : 0..1] :
                 r.timers = IF r.scheduled THEN 1 ELSE 0}

TypeInv == TypeOK /\ recovery \in Recoveries

(* scheduleRecoveryOnSessionQueue sets at most one timer, and leaves one   *)
(* set wherever recovery is allowed.                                       *)
LEMMA ScheduledSetsTimer ==
  ASSUME NEW r \in Recoveries, NEW active
  PROVE  /\ Scheduled(active, r) \in Recoveries
         /\ MayRecover(active) => Scheduled(active, r).timers > 0
<1>1. CASE MayRecover(active) /\ ~r.scheduled
  <2> DEFINE a == IF r.attempt < MaxAttempt THEN r.attempt + 1 ELSE MaxAttempt
  <2>1. Scheduled(active, r) = [scheduled |-> TRUE, attempt |-> a, timers |-> r.timers + 1]
    BY <1>1 DEF Scheduled
  <2>2. a \in 0..MaxAttempt /\ r.timers + 1 = 1
    BY <1>1 DEF Recoveries
  <2> QED
    BY <2>1, <2>2 DEF Recoveries
<1>2. CASE ~(MayRecover(active) /\ ~r.scheduled)
  BY <1>2 DEF Scheduled, Recoveries
<1> QED
  BY <1>1, <1>2

LEMMA ResetKeepsTimers ==
  ASSUME recovery \in Recoveries
  PROVE  /\ [recovery EXCEPT !.attempt = 0] \in Recoveries
         /\ [recovery EXCEPT !.attempt = 0].timers = recovery.timers
         /\ recovery.timers > 0 =>
              Fired(recovery) \in Recoveries
<1>1. [recovery EXCEPT !.attempt = 0] \in Recoveries
      /\ [recovery EXCEPT !.attempt = 0].timers = recovery.timers
  BY DEF Recoveries
<1>2. ASSUME recovery.timers > 0
      PROVE  Fired(recovery) \in Recoveries
  <2>1. recovery.attempt \in 0..MaxAttempt /\ recovery.timers - 1 = 0
    BY <1>2 DEF Recoveries
  <2> QED
    BY <2>1 DEF Fired, Recoveries
<1> QED
  BY <1>1, <1>2

LEMMA EventCounted ==
  ASSUME TypeInv, Event
  PROVE  events' \in 0..MaxEvents
  BY DEF TypeInv, TypeOK, Event

LEMMA WorkTypes ==
  ASSUME encoder \in MaybeEncoder
  PROVE  /\ \A at \in {"idle", "start", "request"} : WorkAt(at) \in Work
         /\ \A next \in After :
              [at |-> "invalidate", old |-> encoder, next |-> next] \in Work
  BY DEF Work, WorkAt, After, MaybeEncoder

LEMMA CaptureTypes ==
  ASSUME NEW enc \in MaybeEncoder
  PROVE  \A at \in {"idle", "create", "publish", "failed", "get", "force", "error",
                    "invalidate", "post"} : CaptureAt(at, enc) \in Capture
  BY DEF Capture, CaptureAt

(* What the start of recoverSession leaves typed.                          *)
LEMMA RecoverSessionTypes ==
  ASSUME TypeInv, NEW active, NEW r \in Recoveries, RecoverSession(active, r)
  PROVE  /\ recovery' \in Recoveries /\ work' \in Work
         /\ encoder' \in MaybeEncoder
         /\ encoderSetupFailed' \in BOOLEAN /\ forceNextKeyFrame' \in BOOLEAN
         /\ events' \in 0..MaxEvents
<1>1. CASE ~MayRecover(active) /\ recovery' = r /\ UNCHANGED <<work, locked, events>>
  BY <1>1 DEF TypeInv, TypeOK, locked
<1>2. CASE Event /\ recovery' = Scheduled(active, r) /\ UNCHANGED <<work, locked>>
  BY <1>2, ScheduledSetsTimer, EventCounted DEF TypeInv, TypeOK, locked
<1>3. CASE recovery' = r /\ InvalidateThen("start") /\ UNCHANGED events
  BY <1>3, WorkTypes DEF TypeInv, TypeOK, InvalidateThen, ForgetEncoder, After, MaybeEncoder
<1> QED
  BY <1>1, <1>2, <1>3 DEF RecoverSession

LEMMA TypeInit == Init => TypeInv
<1> SUFFICES ASSUME Init PROVE TypeInv
  OBVIOUS
<1>1. recovery \in Recoveries
  BY DEF Init, Recoveries
<1>2. blocks \in Seq(Blocks)
  BY DEF Init, Blocks
<1>3. work \in Work /\ capture \in Capture
  BY WorkTypes, CaptureTypes DEF Init, Idle, Resting, MaybeEncoder
<1>4. isConfigured \in BOOLEAN /\ stopped \in BOOLEAN /\ appIsActive \in BOOLEAN
      /\ encoderSetupFailed \in BOOLEAN /\ forceNextKeyFrame \in BOOLEAN /\ request \in Requests
      /\ running \in BOOLEAN /\ interrupted \in BOOLEAN /\ foreground \in BOOLEAN
  BY DEF Init, Requests
<1>5. /\ encoder \in MaybeEncoder
      /\ begun \subseteq sessions /\ sessions \subseteq Encoders
      /\ coding \subseteq Frames /\ output \subseteq Frames /\ events \in 0..MaxEvents
  BY DEF Init, MaybeEncoder
<1> QED
  BY <1>1, <1>2, <1>3, <1>4, <1>5 DEF TypeInv, TypeOK, Recoveries

(* sessionQueue keeps the types.                                           *)
LEMMA TypeSessionQueue ==
  ASSUME TypeInv, SessionQueue
  PROVE  TypeInv'
<1> USE DEF app, locked, camera, videoToolbox, frames, system
<1>a. encoder \in MaybeEncoder /\ None \in MaybeEncoder /\ recovery \in Recoveries
      /\ blocks \in Seq(Blocks)
  BY DEF TypeInv, TypeOK, MaybeEncoder
<1>b. Idle \in Work /\ WorkAt("start") \in Work /\ WorkAt("request") \in Work
  BY <1>a, WorkTypes DEF Idle
<1>1. CASE ConfigureSession
  BY <1>1, <1>a, RunKeeps DEF TypeInv, TypeOK, ConfigureSession, ForgetEncoder
<1>2. CASE Stop
  BY <1>2, <1>a, RunKeeps, WorkTypes DEF TypeInv, TypeOK, Stop, InvalidateThen, ForgetEncoder, After
<1>3. CASE ResumeAfterForeground
  BY <1>3, <1>a, RunKeeps, RecoverSessionTypes, ResetKeepsTimers
     DEF TypeInv, TypeOK, ResumeAfterForeground, Recoveries
<1>4. CASE PauseRecoveryForBackground
  BY <1>4, <1>a, RunKeeps DEF TypeInv, TypeOK, PauseRecoveryForBackground
<1>5. CASE HandleNotification
  <2>1. PICK notice \in Blocks, next \in After : Handles(notice, next)
    BY <1>5 DEF HandleNotification, Blocks, After
  <2>2. blocks' \in Seq(Blocks)
    BY <2>1, <1>a, RunKeeps DEF Handles
  <2>3. work' \in Work /\ encoder' \in MaybeEncoder
        /\ encoderSetupFailed' \in BOOLEAN /\ forceNextKeyFrame' \in BOOLEAN
    BY <2>1, <1>a, WorkTypes DEF TypeInv, TypeOK, Handles, InvalidateThen, ForgetEncoder
  <2> QED
    BY <2>1, <2>2, <2>3 DEF TypeInv, TypeOK, Handles, Recoveries
<1>6. CASE ScheduleRecovery
  BY <1>6, <1>a, RunKeeps, ScheduledSetsTimer DEF TypeInv, TypeOK, ScheduleRecovery, Recoveries
<1>7. CASE TimerFires
  BY <1>7, <1>a, RecoverSessionTypes, ResetKeepsTimers DEF TypeInv, TypeOK, TimerFires, Recoveries
<1>8. CASE InvalidateOld
  <2>1. recovery' \in Recoveries
    BY <1>8, <1>a, ScheduledSetsTimer DEF InvalidateOld
  <2>2. work' \in Work
    BY <1>8, <1>b DEF InvalidateOld
  <2> QED
    BY <1>8, <2>1, <2>2 DEF TypeInv, TypeOK, InvalidateOld, Invalidate, Recoveries
<1>9. CASE StartRunning
  <2>1. recovery' \in Recoveries /\ work' \in Work
    BY <1>9, <1>a, <1>b, ScheduledSetsTimer DEF StartRunning
  <2>2. running' \in BOOLEAN /\ (events' = events \/ Event)
    BY <1>9 DEF TypeInv, TypeOK, StartRunning
  <2> QED
    BY <1>9, <2>1, <2>2, EventCounted DEF TypeInv, TypeOK, StartRunning, Recoveries
<1>10. CASE SessionRecovered
  BY <1>10, <1>a, <1>b, ResetKeepsTimers DEF TypeInv, TypeOK, SessionRecovered, Recoveries
<1> QED
  BY <1>1, <1>2, <1>3, <1>4, <1>5, <1>6, <1>7, <1>8, <1>9, <1>10 DEF SessionQueue

(* The capture queue keeps them.                                           *)
LEMMA TypeCaptureQueue ==
  ASSUME TypeInv, CaptureQueue
  PROVE  TypeInv'
<1> USE DEF captureKeeps, app, locked, videoToolbox, system
<1>a. encoder \in MaybeEncoder /\ None \in MaybeEncoder /\ capture.enc \in MaybeEncoder
      /\ blocks \in Seq(Blocks) /\ sessions \subseteq Encoders
  BY DEF TypeInv, TypeOK, MaybeEncoder, Capture
<1>b. Resting \in Capture
  BY <1>a, CaptureTypes DEF Resting
<1>1. CASE CaptureOutput
  BY <1>1, <1>a, CaptureTypes DEF TypeInv, TypeOK, CaptureOutput, Recoveries
<1>2. CASE CreateEncoder
  <2>1. sessions' \subseteq Encoders /\ sessions \subseteq sessions'
    BY <1>2, <1>a DEF CreateEncoder
  <2>2. capture' \in Capture /\ events' \in 0..MaxEvents
    BY <1>2, <1>a, CaptureTypes, EventCounted DEF CreateEncoder, TypeInv, TypeOK, MaybeEncoder
  <2> QED
    BY <1>2, <2>1, <2>2 DEF TypeInv, TypeOK, CreateEncoder
<1>3. CASE PublishEncoder
  BY <1>3, <1>a, CaptureTypes DEF TypeInv, TypeOK, PublishEncoder
<1>4. CASE SetEncoderSetupFailed
  BY <1>4, <1>a, CaptureTypes DEF TypeInv, TypeOK, SetEncoderSetupFailed
<1>5. CASE ActiveEncoder
  BY <1>5, <1>a, <1>b, CaptureTypes DEF TypeInv, TypeOK, ActiveEncoder
<1>6. CASE ConsumeForcedKeyFrame
  <2>1. capture' \in Capture
    BY <1>6 DEF TypeInv, TypeOK, ConsumeForcedKeyFrame, Capture
  <2> QED
    BY <1>6, <2>1 DEF TypeInv, TypeOK, ConsumeForcedKeyFrame
<1>7. CASE EncodeFrame
  <2>1. CASE capture.enc \in sessions /\ capture' = Resting /\ UNCHANGED events
             /\ begun' = begun \cup {capture.enc}
             /\ coding' = coding \cup
                  {[enc |-> capture.enc, key |-> capture.key \/ capture.enc \notin begun]}
    <3>1. (capture.key \/ capture.enc \notin begun) \in BOOLEAN
      BY Zenon
    <3> DEFINE k == capture.key \/ capture.enc \notin begun
    <3> HIDE DEF k
    <3>2. [enc |-> capture.enc, key |-> k] \in Frames
      BY <2>1, <1>a, <3>1 DEF Frames, k
    <3>3. coding' \subseteq Frames
      BY <2>1, <3>2 DEF TypeInv, TypeOK, k
    <3> QED
      BY <1>7, <2>1, <3>3, <1>a, <1>b DEF TypeInv, TypeOK, EncodeFrame
  <2>2. CASE capture' = CaptureAt("error", None) /\ UNCHANGED <<begun, coding>>
    <3>1. events' \in 0..MaxEvents
      BY <1>7, EventCounted DEF TypeInv, TypeOK, EncodeFrame
    <3> QED
      BY <1>7, <2>2, <3>1, <1>a, CaptureTypes DEF TypeInv, TypeOK, EncodeFrame
  <2> QED
    BY <1>7, <2>1, <2>2 DEF EncodeFrame
<1>8. CASE EncodeFails
  BY <1>8, <1>a, CaptureTypes DEF TypeInv, TypeOK, EncodeFails, ForgetEncoder
<1>9. CASE InvalidateFailed
  BY <1>9, <1>a, CaptureTypes DEF TypeInv, TypeOK, InvalidateFailed, Invalidate
<1>10. CASE PostRecovery
  BY <1>10, <1>a, <1>b, PostKeeps DEF TypeInv, TypeOK, PostRecovery, Blocks
<1> QED
  BY <1>1, <1>2, <1>3, <1>4, <1>5, <1>6, <1>7, <1>8, <1>9, <1>10 DEF CaptureQueue

(* VideoToolbox and the system keep them.                                  *)
LEMMA TypeVideoToolbox ==
  ASSUME TypeInv, VideoToolbox
  PROVE  TypeInv'
<1> USE DEF queue, app, locked, videoToolbox, system
<1>1. CASE \E f \in coding : WriteAnnexB(f)
  BY <1>1 DEF TypeInv, TypeOK, WriteAnnexB
<1>2. CASE \E f \in coding : DiscardFrame(f)
  BY <1>2, EventCounted DEF TypeInv, TypeOK, DiscardFrame, Requests
<1>3. CASE \E f \in output : SendFrame(f)
  BY <1>3 DEF TypeInv, TypeOK, SendFrame, Requests
<1> QED
  BY <1>1, <1>2, <1>3 DEF VideoToolbox

LEMMA TypeSystem ==
  ASSUME TypeInv, System
  PROVE  TypeInv'
<1> USE DEF systemKeeps, queue, app, locked, camera, videoToolbox, frames, system
<1>a. blocks \in Seq(Blocks)
      /\ {"stopped", "error", "reset", "interruption", "resume", "pause", "stop"}
           \subseteq Blocks
  BY DEF TypeInv, TypeOK, Blocks
<1>p. ASSUME UNCHANGED systemKeeps, blocks' \in Seq(Blocks), events' \in 0..MaxEvents,
             running' \in BOOLEAN, interrupted' \in BOOLEAN, foreground' \in BOOLEAN
      PROVE  TypeInv'
  BY <1>p DEF TypeInv, TypeOK, Recoveries
<1>t. running \in BOOLEAN /\ interrupted \in BOOLEAN /\ foreground \in BOOLEAN
      /\ stopped \in BOOLEAN /\ events \in 0..MaxEvents
  BY DEF TypeInv, TypeOK
<1>1. CASE ClientConnects
  <2>1. events' \in 0..MaxEvents
    BY <1>1, EventCounted DEF ClientConnects
  <2> QED
    BY <1>1, <2>1 DEF TypeInv, TypeOK, ClientConnects, Recoveries, Requests
<1>2. CASE CameraStops
  <2>1. blocks' \in Seq(Blocks)
    BY <1>2, <1>a, PostKeeps DEF CameraStops
  <2>2. events' \in 0..MaxEvents
    BY <1>2, <1>t, EventCounted DEF CameraStops
  <2> QED
    BY <1>2, <2>1, <2>2, <1>p, <1>t DEF CameraStops
<1>3. CASE CameraErrs
  <2>1. blocks' \in Seq(Blocks)
    BY <1>3, <1>a, PostKeeps DEF CameraErrs
  <2>2. events' \in 0..MaxEvents
    BY <1>3, <1>t, EventCounted DEF CameraErrs
  <2> QED
    BY <1>3, <2>1, <2>2, <1>p, <1>t DEF CameraErrs
<1>4. CASE CameraInterrupted
  <2>1. blocks' \in Seq(Blocks)
    BY <1>4, <1>a, PostKeeps DEF CameraInterrupted
  <2>2. events' \in 0..MaxEvents
    BY <1>4, <1>t, EventCounted DEF CameraInterrupted
  <2> QED
    BY <1>4, <2>1, <2>2, <1>p, <1>t DEF CameraInterrupted
<1>5. CASE InterruptionEnds
  <2>1. blocks' \in Seq(Blocks)
    BY <1>5, <1>a, PostKeeps DEF InterruptionEnds
  <2>2. events' \in 0..MaxEvents
    BY <1>5, <1>t DEF InterruptionEnds
  <2> QED
    BY <1>5, <2>1, <2>2, <1>p, <1>t DEF InterruptionEnds
<1>6. CASE WillResignActive
  <2>1. blocks' \in Seq(Blocks)
    BY <1>6, <1>a, PostKeeps DEF WillResignActive
  <2>2. events' \in 0..MaxEvents
    BY <1>6, <1>t, EventCounted DEF WillResignActive
  <2> QED
    BY <1>6, <2>1, <2>2, <1>p, <1>t DEF WillResignActive
<1>7. CASE DidBecomeActive
  <2>1. blocks' \in Seq(Blocks)
    BY <1>7, <1>a, PostKeeps DEF DidBecomeActive
  <2>2. events' \in 0..MaxEvents
    BY <1>7, <1>t DEF DidBecomeActive
  <2> QED
    BY <1>7, <2>1, <2>2, <1>p, <1>t DEF DidBecomeActive
<1>8. CASE Terminates
  <2>1. blocks' \in Seq(Blocks)
    BY <1>8, <1>a, PostKeeps DEF Terminates
  <2>2. events' \in 0..MaxEvents
    BY <1>8, <1>t, EventCounted DEF Terminates
  <2> QED
    BY <1>8, <2>1, <2>2, <1>p, <1>t DEF Terminates
<1> QED
  BY <1>1, <1>2, <1>3, <1>4, <1>5, <1>6, <1>7, <1>8 DEF System

LEMMA TypeStep == TypeInv /\ [Next]_vars => TypeInv'
<1> SUFFICES ASSUME TypeInv, [Next]_vars PROVE TypeInv'
  OBVIOUS
<1>1. CASE UNCHANGED vars
  BY <1>1 DEF TypeInv, TypeOK, Recoveries, vars, queue, app, locked, camera, videoToolbox, frames, system
<1> QED
  BY <1>1, TypeSessionQueue, TypeCaptureQueue, TypeVideoToolbox, TypeSystem DEF Next

THEOREM TypeInvariant == Spec => []TypeInv
  BY TypeInit, TypeStep, PTL DEF Spec

(* Every variable of CameraStreamer keeps its type; in particular no two   *)
(* recovery timers are ever set together.                                  *)
THEOREM TypeCorrectness == Spec => []TypeOK
  BY TypeInvariant, PTL DEF TypeInv

-----------------------------------------------------------------------------
(* Every encoder is tracked.                                               *)

(* Until configureSession has succeeded nothing runs that could make one.  *)
Untouched ==
  ~isConfigured =>
    /\ ~running /\ ~interrupted /\ encoder = None /\ capture.at = "idle"
    /\ work.at # "start" /\ work.next # "start"

LEMMA UntouchedInit == Init => Untouched
  BY DEF Init, Untouched, Idle, WorkAt, Resting, CaptureAt

LEMMA UntouchedStep == Untouched /\ [Next]_vars => Untouched'
<1> SUFFICES ASSUME Untouched, [Next]_vars, ~isConfigured' PROVE Untouched'
  BY DEF Untouched
<1> USE DEF app, queue, locked, camera, videoToolbox, frames, system
<1>1. CASE UNCHANGED vars
  BY <1>1 DEF Untouched, vars
<1>2. CASE SessionQueue
  <2> USE DEF Untouched, Runs, InvalidateThen, ForgetEncoder, WorkAt, Idle
  <2>r. ASSUME NEW active, NEW r, RecoverSession(active, r), UNCHANGED isConfigured
        PROVE  /\ UNCHANGED <<work, locked>> /\ ~isConfigured
    BY <2>r DEF RecoverSession, MayRecover
  <2>1. CASE ConfigureSession
    BY <2>1 DEF ConfigureSession
  <2>2. CASE Stop
    BY <2>2 DEF Stop
  <2>3. CASE ResumeAfterForeground
    BY <2>3, <2>r DEF ResumeAfterForeground
  <2>4. CASE PauseRecoveryForBackground
    BY <2>4 DEF PauseRecoveryForBackground
  <2>5. CASE HandleNotification
    BY <2>5 DEF HandleNotification, Handles
  <2>6. CASE ScheduleRecovery
    BY <2>6 DEF ScheduleRecovery
  <2>7. CASE TimerFires
    BY <2>7, <2>r DEF TimerFires
  <2>8. CASE InvalidateOld
    BY <2>8 DEF InvalidateOld
  <2>9. CASE StartRunning
    BY <2>9 DEF StartRunning
  <2>10. CASE SessionRecovered
    BY <2>10 DEF SessionRecovered
  <2> QED
    BY <1>2, <2>1, <2>2, <2>3, <2>4, <2>5, <2>6, <2>7, <2>8, <2>9, <2>10 DEF SessionQueue
<1>3. CASE CaptureQueue
  <2>1. (~running /\ capture.at = "idle") \/ isConfigured
    BY DEF Untouched
  <2>2. isConfigured' = isConfigured
    BY <1>3 DEF CaptureQueue, CaptureOutput, CreateEncoder, PublishEncoder,
          SetEncoderSetupFailed, ActiveEncoder, ConsumeForcedKeyFrame, EncodeFrame,
          EncodeFails, InvalidateFailed, PostRecovery, captureKeeps
  <2>3. isConfigured
    BY <1>3, <2>1 DEF CaptureQueue, CaptureOutput, CreateEncoder, PublishEncoder,
          SetEncoderSetupFailed, ActiveEncoder, ConsumeForcedKeyFrame, EncodeFrame,
          EncodeFails, InvalidateFailed, PostRecovery
  <2> QED
    BY <2>2, <2>3
<1>4. CASE VideoToolbox
  BY <1>4 DEF Untouched, VideoToolbox, WriteAnnexB, DiscardFrame, SendFrame
<1>5. CASE System
  <2> USE DEF Untouched, systemKeeps
  <2>1. CASE ClientConnects
    BY <2>1 DEF ClientConnects
  <2>2. CASE CameraStops \/ CameraErrs \/ CameraInterrupted \/ InterruptionEnds
    BY <2>2 DEF CameraStops, CameraErrs, CameraInterrupted, InterruptionEnds
  <2>3. CASE WillResignActive \/ DidBecomeActive \/ Terminates
    BY <2>3 DEF WillResignActive, DidBecomeActive, Terminates
  <2> QED
    BY <1>5, <2>1, <2>2, <2>3 DEF System
<1> QED
  BY <1>1, <1>2, <1>3, <1>4, <1>5 DEF Next

(* The conjuncts of EveryEncoderTracked with what makes them inductive:    *)
(* between finding no encoder and publishing one, there is none.           *)
TrackInv ==
  /\ TypeInv
  /\ Untouched
  /\ EveryEncoderTracked
  /\ work.at # "invalidate" => work.old = None
  /\ capture.at \in {"create", "publish"} => encoder = None

LEMMA TrackInit == Init => TrackInv
<1> SUFFICES ASSUME Init PROVE TrackInv
  OBVIOUS
<1>1. TypeInv /\ Untouched
  BY TypeInit, UntouchedInit
<1>2. work.old = None /\ work.at = "idle" /\ capture.at = "idle" /\ encoder = None
  BY DEF Init, Idle, WorkAt, Resting, CaptureAt
<1>3. sessions = {} /\ CaptureHolds = None
  BY <1>2 DEF Init, CaptureHolds
<1> QED
  BY <1>1, <1>2, <1>3 DEF TrackInv, EveryEncoderTracked

(* A step that leaves alone the compression sessions and who holds them.   *)
TrackUntouched ==
  /\ UNCHANGED <<encoder, sessions, work>>
  /\ CaptureHolds' = CaptureHolds
  /\ capture'.at \in {"create", "publish"} => capture'.at = capture.at \/ encoder = None

LEMMA TrackKept ==
  ASSUME TrackInv, TypeInv', Untouched', TrackUntouched
  PROVE  TrackInv'
  BY DEF TrackInv, TrackUntouched, EveryEncoderTracked

LEMMA TrackSessionQueue ==
  ASSUME TrackInv, TypeInv', Untouched', SessionQueue
  PROVE  TrackInv'
<1> USE DEF app, locked, camera, videoToolbox, frames, system
<1>a. work.at = "idle" => work.old = None
  BY DEF TrackInv
<1>k. ASSUME UNCHANGED <<encoder, sessions, work, capture>>
      PROVE  TrackInv'
  BY <1>k, TrackKept DEF TrackUntouched, CaptureHolds
<1>b. ASSUME work.at = "idle", encoder' = None, UNCHANGED <<sessions, capture>>,
             work'.at = "invalidate", work'.old = encoder
      PROVE  TrackInv'
  BY <1>a, <1>b DEF TrackInv, EveryEncoderTracked, CaptureHolds
<1>c. ASSUME work.at \in {"start", "request"}, UNCHANGED <<encoder, sessions, capture>>,
             work'.old = None
      PROVE  TrackInv'
  BY <1>c DEF TrackInv, EveryEncoderTracked, CaptureHolds
<1>1. CASE ConfigureSession
  BY <1>1, <1>k DEF ConfigureSession, ForgetEncoder, TrackInv, Untouched
<1>2. CASE Stop
  BY <1>2, <1>b DEF Stop, Runs, InvalidateThen, ForgetEncoder
<1>r. ASSUME NEW active, NEW r, RecoverSession(active, r), work.at = "idle",
             UNCHANGED <<sessions, capture>>
      PROVE  TrackInv'
  BY <1>r, <1>b, <1>k DEF RecoverSession, InvalidateThen, ForgetEncoder
<1>3. CASE ResumeAfterForeground
  BY <1>3, <1>r DEF ResumeAfterForeground, Runs
<1>4. CASE PauseRecoveryForBackground
  BY <1>4, <1>k DEF PauseRecoveryForBackground
<1>5. CASE HandleNotification
  <2>1. PICK notice \in Blocks, next \in After : Handles(notice, next)
    BY <1>5 DEF HandleNotification, Blocks, After
  <2> QED
    BY <2>1, <1>b, <1>k DEF Handles, Runs, InvalidateThen, ForgetEncoder
<1>6. CASE ScheduleRecovery
  BY <1>6, <1>k DEF ScheduleRecovery
<1>7. CASE TimerFires
  BY <1>7, <1>r DEF TimerFires
<1>8. CASE InvalidateOld
  <2>1. /\ sessions' = sessions \ {work.old} /\ work'.old = None /\ work'.at # "invalidate"
        /\ UNCHANGED <<encoder, capture>>
    BY <1>8 DEF InvalidateOld, Invalidate, Idle, WorkAt
  <2> QED
    BY <2>1 DEF TrackInv, EveryEncoderTracked, CaptureHolds
<1>9. CASE StartRunning
  BY <1>9, <1>c DEF StartRunning, WorkAt, Idle
<1>10. CASE SessionRecovered
  BY <1>10, <1>c DEF SessionRecovered, WorkAt, Idle
<1> QED
  BY <1>1, <1>2, <1>3, <1>4, <1>5, <1>6, <1>7, <1>8, <1>9, <1>10 DEF SessionQueue

LEMMA TrackCaptureQueue ==
  ASSUME TrackInv, TypeInv', Untouched', CaptureQueue
  PROVE  TrackInv'
<1> USE DEF captureKeeps, locked, videoToolbox, CaptureAt, Resting
<1>1. CASE CaptureOutput
  BY <1>1, TrackKept DEF CaptureOutput, TrackUntouched, CaptureHolds
<1>2. CASE CreateEncoder
  <2>1. CASE \E enc \in Encoders \ sessions :
               /\ sessions' = sessions \cup {enc} /\ capture' = CaptureAt("publish", enc)
               /\ UNCHANGED <<encoder, work>>
    <3>1. PICK enc \in Encoders \ sessions :
            /\ sessions' = sessions \cup {enc} /\ capture' = CaptureAt("publish", enc)
            /\ UNCHANGED <<encoder, work>>
      BY <2>1
    <3>2. enc # None /\ encoder = None /\ CaptureHolds = None /\ CaptureHolds' = enc
      BY <1>2, <3>1 DEF CreateEncoder, CaptureHolds, TrackInv
    <3> QED
      BY <3>1, <3>2 DEF TrackInv, EveryEncoderTracked
  <2>2. CASE capture' = CaptureAt("failed", None) /\ UNCHANGED <<encoder, work, sessions>>
    BY <1>2, <2>2, TrackKept DEF CreateEncoder, TrackUntouched, CaptureHolds
  <2> QED
    BY <1>2, <2>1, <2>2 DEF CreateEncoder
<1>3. CASE PublishEncoder
  <2>1. encoder = None /\ CaptureHolds = capture.enc /\ CaptureHolds' = None
        /\ encoder' = capture.enc /\ capture'.at = "get"
    BY <1>3 DEF PublishEncoder, CaptureHolds, TrackInv
  <2> QED
    BY <1>3, <2>1 DEF PublishEncoder, TrackInv, EveryEncoderTracked
<1>4. CASE SetEncoderSetupFailed
  BY <1>4, TrackKept DEF SetEncoderSetupFailed, TrackUntouched, CaptureHolds
<1>5. CASE ActiveEncoder
  BY <1>5, TrackKept DEF ActiveEncoder, TrackUntouched, CaptureHolds
<1>6. CASE ConsumeForcedKeyFrame
  <2>1. capture'.at = "encode"
    BY <1>6 DEF ConsumeForcedKeyFrame, TrackInv, TypeInv, TypeOK, Capture
  <2> QED
    BY <1>6, <2>1, TrackKept DEF ConsumeForcedKeyFrame, TrackUntouched, CaptureHolds
<1>7. CASE EncodeFrame
  BY <1>7, TrackKept DEF EncodeFrame, TrackUntouched, CaptureHolds
<1>8. CASE EncodeFails
  <2>1. encoder' = None /\ CaptureHolds = None /\ CaptureHolds' = encoder
        /\ capture'.at = "invalidate" /\ UNCHANGED <<sessions, work>>
    BY <1>8 DEF EncodeFails, ForgetEncoder, CaptureHolds
  <2> QED
    BY <2>1 DEF TrackInv, EveryEncoderTracked
<1>9. CASE InvalidateFailed
  <2>1. CaptureHolds = capture.enc /\ CaptureHolds' = None /\ capture'.at = "post"
        /\ sessions' = sessions \ {capture.enc} /\ UNCHANGED <<encoder, work>>
    BY <1>9 DEF InvalidateFailed, Invalidate, CaptureHolds
  <2> QED
    BY <2>1 DEF TrackInv, EveryEncoderTracked
<1>10. CASE PostRecovery
  BY <1>10, TrackKept DEF PostRecovery, TrackUntouched, CaptureHolds
<1> QED
  BY <1>1, <1>2, <1>3, <1>4, <1>5, <1>6, <1>7, <1>8, <1>9, <1>10 DEF CaptureQueue

LEMMA TrackStep == TrackInv /\ [Next]_vars => TrackInv'
<1> SUFFICES ASSUME TrackInv, [Next]_vars PROVE TrackInv'
  OBVIOUS
<1>1. TypeInv' /\ Untouched'
  BY TypeStep, UntouchedStep DEF TrackInv
<1>k. ASSUME UNCHANGED <<encoder, sessions, work, capture>>
      PROVE  TrackInv'
  BY <1>1, <1>k, TrackKept DEF TrackUntouched, CaptureHolds
<1>2. CASE UNCHANGED vars
  BY <1>2, <1>k DEF vars, queue, locked, camera, videoToolbox
<1>3. CASE VideoToolbox
  BY <1>3, <1>k DEF VideoToolbox, WriteAnnexB, DiscardFrame, SendFrame, queue, locked, videoToolbox
<1>4. CASE System
  BY <1>4, <1>k DEF System, ClientConnects, CameraStops, CameraErrs, CameraInterrupted,
        InterruptionEnds, WillResignActive, DidBecomeActive, Terminates, systemKeeps, queue,
        locked, camera, videoToolbox
<1> QED
  BY <1>1, <1>2, <1>3, <1>4, TrackSessionQueue, TrackCaptureQueue DEF Next

(* Compression sessions never leak and are never invalidated twice, with   *)
(* invalidateEncoder called on two queues while createEncoder runs.        *)
THEOREM EncoderOwnership == Spec => []EveryEncoderTracked
<1>1. Spec => []TrackInv
  BY TrackInit, TrackStep, PTL DEF Spec
<1> QED
  BY <1>1, PTL DEF TrackInv

-----------------------------------------------------------------------------
(* A recovery is always coming.                                            *)

(* The two failures RecoveryComing speaks of are covered in different      *)
(* ways: a set-up failure by the block captureOutput posts and the timer   *)
(* that block sets, a session that is down by its notification as well.    *)
FailureCovered ==
  MayRecover(appIsActive) /\ encoderSetupFailed
    => recovery.timers > 0 \/ Posted("schedule") \/ capture.at = "post"

StopCovered ==
  MayRecover(appIsActive) /\ ~interrupted /\ ~running => RetryArmed

RecoveryInv == TypeInv /\ FailureCovered /\ StopCovered

LEMMA RecoveryInit == Init => RecoveryInv
<1> SUFFICES ASSUME Init PROVE RecoveryInv
  OBVIOUS
<1> QED
  BY TypeInit DEF Init, RecoveryInv, FailureCovered, StopCovered, MayRecover

LEMMA TimerKept ==
  ASSUME NEW r \in Recoveries, NEW active, r.timers > 0
  PROVE  Scheduled(active, r).timers > 0
<1>1. CASE MayRecover(active) /\ ~r.scheduled
  BY <1>1 DEF Recoveries
<1>2. CASE ~(MayRecover(active) /\ ~r.scheduled)
  BY <1>2 DEF Scheduled
<1> QED
  BY <1>1, <1>2

LEMMA RecoverySessionQueue ==
  ASSUME RecoveryInv, SessionQueue
  PROVE  FailureCovered' /\ StopCovered'
<1> USE DEF app, locked, camera, system
<1>a. recovery \in Recoveries /\ blocks \in Seq(Blocks)
  BY DEF RecoveryInv, TypeInv, TypeOK
<1>1. CASE ConfigureSession
  BY <1>1 DEF ConfigureSession, ForgetEncoder, FailureCovered, StopCovered
<1>2. CASE Stop
  BY <1>2 DEF Stop, FailureCovered, StopCovered, MayRecover
<1>r. ASSUME NEW active, NEW r \in Recoveries, RecoverSession(active, r),
             UNCHANGED <<isConfigured, stopped>>, appIsActive' = active
      PROVE  FailureCovered' /\ StopCovered'
  <2>1. CASE ~MayRecover(active)
    BY <1>r, <2>1 DEF MayRecover, FailureCovered, StopCovered
  <2>2. CASE MayRecover(active) /\ recovery' = Scheduled(active, r)
    BY <1>r, <2>2, ScheduledSetsTimer DEF FailureCovered, StopCovered, RetryArmed
  <2>3. CASE InvalidateThen("start")
    BY <2>3 DEF InvalidateThen, ForgetEncoder, FailureCovered, StopCovered, RetryArmed
  <2> QED
    BY <1>r, <2>1, <2>2, <2>3 DEF RecoverSession
<1>3. CASE ResumeAfterForeground
  BY <1>3, <1>a, <1>r, ResetKeepsTimers DEF ResumeAfterForeground
<1>4. CASE PauseRecoveryForBackground
  BY <1>4 DEF PauseRecoveryForBackground, MayRecover, FailureCovered, StopCovered
<1>5. CASE HandleNotification
  <2>1. ASSUME NEW notice, NEW next, Handles(notice, next), ~(isConfigured /\ ~stopped)
        PROVE  FailureCovered' /\ StopCovered'
    BY <2>1 DEF Handles, MayRecover, FailureCovered, StopCovered
  <2>2. ASSUME NEW notice, NEW next, Handles(notice, next), isConfigured /\ ~stopped
        PROVE  /\ encoderSetupFailed' = FALSE /\ work.at = "idle"
               /\ work' = [at |-> "invalidate", old |-> encoder, next |-> next]
               /\ blocks \in Seq(Blocks) /\ Runs(notice)
               /\ UNCHANGED <<app, recovery, capture, running, interrupted>>
    BY <2>2, <1>a DEF Handles, Runs, InvalidateThen, ForgetEncoder
  <2>3. CASE Handles("interruption", "return") /\ isConfigured /\ ~stopped
    <3>1. /\ encoderSetupFailed' = FALSE /\ work.at = "idle" /\ Runs("interruption")
          /\ UNCHANGED <<app, recovery, capture, running, interrupted>>
      BY <2>2, <2>3
    <3>2. RetryArmed => RetryArmed'
      BY <3>1, <1>a, RunKeeps DEF RetryArmed
    <3> QED
      BY <3>1, <3>2 DEF FailureCovered, StopCovered, RecoveryInv, MayRecover
  <2>4. CASE Handles("error", "check") /\ isConfigured /\ ~stopped
    <3>1. encoderSetupFailed' = FALSE /\ work'.at = "invalidate" /\ work'.next = "check"
      BY <2>4 DEF Handles, InvalidateThen, ForgetEncoder
    <3> QED
      BY <3>1 DEF FailureCovered, StopCovered, RetryArmed
  <2>5. CASE Handles("reset", "schedule") /\ isConfigured /\ ~stopped
    <3>1. encoderSetupFailed' = FALSE /\ work'.at = "invalidate" /\ work'.next = "schedule"
      BY <2>5 DEF Handles, InvalidateThen, ForgetEncoder
    <3> QED
      BY <3>1 DEF FailureCovered, StopCovered, RetryArmed
  <2>6. CASE Handles("stopped", "schedule") /\ isConfigured /\ ~stopped
    <3>1. encoderSetupFailed' = FALSE /\ work'.at = "invalidate" /\ work'.next = "schedule"
      BY <2>6 DEF Handles, InvalidateThen, ForgetEncoder
    <3> QED
      BY <3>1 DEF FailureCovered, StopCovered, RetryArmed
  <2> QED
    BY <1>5, <2>1, <2>3, <2>4, <2>5, <2>6 DEF HandleNotification
<1>6. CASE ScheduleRecovery
  <2>1. MayRecover(appIsActive)' => recovery'.timers > 0
    BY <1>6, <1>a, ScheduledSetsTimer DEF ScheduleRecovery, MayRecover
  <2> QED
    BY <2>1 DEF FailureCovered, StopCovered, RetryArmed
<1>7. CASE TimerFires
  BY <1>7, <1>a, <1>r, ResetKeepsTimers DEF TimerFires
<1>8. CASE InvalidateOld
  <2>1. recovery.timers > 0 => recovery'.timers > 0
    BY <1>8, <1>a, TimerKept DEF InvalidateOld
  <2>2. UNCHANGED <<app, blocks, encoderSetupFailed, capture, running, interrupted>>
    BY <1>8 DEF InvalidateOld
  <2>3. FailureCovered'
    BY <2>1, <2>2 DEF FailureCovered, RecoveryInv, MayRecover, Posted
  <2>4. ASSUME MayRecover(appIsActive), ~running,
               work.next = "schedule" \/ work.next = "check"
        PROVE  recovery'.timers > 0
    BY <1>8, <1>a, <2>4, ScheduledSetsTimer DEF InvalidateOld
  <2>5. work.next = "start" => work'.at = "start"
    BY <1>8 DEF InvalidateOld, WorkAt
  <2>6. ASSUME MayRecover(appIsActive), ~running, RetryArmed
        PROVE  RetryArmed'
    BY <1>8, <2>1, <2>2, <2>4, <2>5, <2>6 DEF RetryArmed, Posted, InvalidateOld
  <2> QED
    BY <2>2, <2>3, <2>6 DEF StopCovered, RecoveryInv, MayRecover
<1>9. CASE StartRunning
  <2>1. UNCHANGED <<app, blocks, encoderSetupFailed, capture, interrupted>>
    BY <1>9 DEF StartRunning
  <2>2. CASE running' = TRUE /\ UNCHANGED recovery
    BY <2>1, <2>2 DEF FailureCovered, StopCovered, RecoveryInv, MayRecover, Posted
  <2>3. CASE recovery' = Scheduled(appIsActive, recovery)
    <3>1. MayRecover(appIsActive)' => recovery'.timers > 0
      BY <1>a, <2>1, <2>3, ScheduledSetsTimer DEF MayRecover
    <3> QED
      BY <3>1 DEF FailureCovered, StopCovered, RetryArmed
  <2> QED
    BY <1>9, <2>2, <2>3 DEF StartRunning
<1>10. CASE SessionRecovered
  <2>1. recovery'.timers = recovery.timers /\ work.at = "request"
        /\ UNCHANGED <<app, blocks, encoderSetupFailed, capture, running, interrupted>>
    BY <1>10, <1>a, ResetKeepsTimers DEF SessionRecovered
  <2> QED
    BY <2>1 DEF FailureCovered, StopCovered, RecoveryInv, MayRecover, Posted, RetryArmed
<1> QED
  BY <1>1, <1>2, <1>3, <1>4, <1>5, <1>6, <1>7, <1>8, <1>9, <1>10 DEF SessionQueue

(* What the other queues must keep for the causes to stay covered.         *)
LEMMA CoveredKept ==
  ASSUME RecoveryInv, UNCHANGED <<app, recovery, work, interrupted>>,
         running' = running,
         \A block : Posted(block) => Posted(block)',
         encoderSetupFailed' => encoderSetupFailed \/ capture'.at = "post",
         capture.at = "post" => capture'.at = "post" \/ Posted("schedule")'
  PROVE  FailureCovered' /\ StopCovered'
<1>1. FailureCovered'
  BY DEF FailureCovered, RecoveryInv, MayRecover, app
<1>2. RetryArmed => RetryArmed'
  BY DEF RetryArmed, app
<1> QED
  BY <1>1, <1>2 DEF StopCovered, RecoveryInv, MayRecover, app

LEMMA RecoveryCaptureQueue ==
  ASSUME RecoveryInv, CaptureQueue
  PROVE  FailureCovered' /\ StopCovered'
<1> USE DEF captureKeeps, app, locked, system
<1>k. ASSUME UNCHANGED <<captureKeeps, blocks>>, capture.at # "post",
             encoderSetupFailed' => encoderSetupFailed \/ capture'.at = "post"
      PROVE  FailureCovered' /\ StopCovered'
  BY <1>k, CoveredKept DEF Posted
<1>1. CASE CaptureOutput
  BY <1>1, <1>k DEF CaptureOutput
<1>2. CASE CreateEncoder
  BY <1>2, <1>k DEF CreateEncoder
<1>3. CASE PublishEncoder
  BY <1>3, <1>k DEF PublishEncoder
<1>4. CASE SetEncoderSetupFailed
  BY <1>4, <1>k DEF SetEncoderSetupFailed, CaptureAt
<1>5. CASE ActiveEncoder
  BY <1>5, <1>k DEF ActiveEncoder
<1>6. CASE ConsumeForcedKeyFrame
  BY <1>6, <1>k DEF ConsumeForcedKeyFrame
<1>7. CASE EncodeFrame
  BY <1>7, <1>k DEF EncodeFrame
<1>8. CASE EncodeFails
  BY <1>8, <1>k DEF EncodeFails, ForgetEncoder
<1>9. CASE InvalidateFailed
  BY <1>9, <1>k DEF InvalidateFailed
<1>10. CASE PostRecovery
  <2>1. Posted("schedule")' /\ \A block : Posted(block) => Posted(block)'
    BY <1>10, PostKeeps DEF PostRecovery, RecoveryInv, TypeInv, TypeOK, Blocks
  <2> QED
    BY <1>10, <2>1, CoveredKept DEF PostRecovery
<1> QED
  BY <1>1, <1>2, <1>3, <1>4, <1>5, <1>6, <1>7, <1>8, <1>9, <1>10 DEF CaptureQueue

LEMMA RecoverySystem ==
  ASSUME RecoveryInv, System
  PROVE  FailureCovered' /\ StopCovered'
<1> USE DEF systemKeeps, queue, app, locked, camera, system
<1>a. blocks \in Seq(Blocks)
  BY DEF RecoveryInv, TypeInv, TypeOK
<1>p. ASSUME NEW notice \in Blocks, Post(notice),
             UNCHANGED <<app, recovery, work, encoderSetupFailed, capture>>
      PROVE  /\ FailureCovered'
             /\ Posted(notice)'
             /\ \A block : Posted(block) => Posted(block)'
  BY <1>a, <1>p, PostKeeps DEF FailureCovered, RecoveryInv, MayRecover
<1>k. ASSUME NEW notice \in Blocks, Post(notice),
             UNCHANGED <<app, recovery, work, encoderSetupFailed, capture, running, interrupted>>
      PROVE  FailureCovered' /\ StopCovered'
  BY <1>p, <1>k, CoveredKept
<1>1. CASE ClientConnects
  BY <1>1, CoveredKept DEF ClientConnects, Posted
<1>2. CASE CameraStops
  <2>1. PICK notice \in {"stopped", "error", "reset"} : Post(notice)
    BY <1>2 DEF CameraStops
  <2>2. FailureCovered' /\ Posted(notice)' /\ running' = FALSE
    BY <1>2, <1>p, <2>1 DEF CameraStops, Blocks
  <2>3. RetryArmed'
    BY <2>1, <2>2 DEF RetryArmed
  <2> QED
    BY <2>2, <2>3 DEF StopCovered
<1>3. CASE CameraErrs
  BY <1>3, <1>k DEF CameraErrs, Blocks
<1>4. CASE CameraInterrupted
  BY <1>4, <1>p DEF CameraInterrupted, StopCovered, Blocks
<1>5. CASE InterruptionEnds
  <2>1. FailureCovered' /\ Posted("resume")'
    BY <1>5, <1>p DEF InterruptionEnds, Blocks
  <2> QED
    BY <2>1 DEF StopCovered, RetryArmed
<1>6. CASE WillResignActive
  BY <1>6, <1>k DEF WillResignActive, Blocks
<1>7. CASE DidBecomeActive
  BY <1>7, <1>k DEF DidBecomeActive, Blocks
<1>8. CASE Terminates
  BY <1>8, <1>k DEF Terminates, Blocks
<1> QED
  BY <1>1, <1>2, <1>3, <1>4, <1>5, <1>6, <1>7, <1>8 DEF System

LEMMA RecoveryStep == RecoveryInv /\ [Next]_vars => RecoveryInv'
<1> SUFFICES ASSUME RecoveryInv, [Next]_vars PROVE RecoveryInv'
  OBVIOUS
<1>1. TypeInv'
  BY TypeStep DEF RecoveryInv
<1>k. ASSUME UNCHANGED <<app, recovery, work, interrupted, running, blocks,
                         encoderSetupFailed, capture>>
      PROVE  FailureCovered' /\ StopCovered'
  BY <1>k, CoveredKept DEF Posted
<1>2. CASE UNCHANGED vars
  BY <1>1, <1>2, <1>k DEF vars, queue, locked, camera, system, RecoveryInv
<1>3. CASE VideoToolbox
  BY <1>1, <1>3, <1>k DEF VideoToolbox, WriteAnnexB, DiscardFrame, SendFrame, queue, locked,
        system, RecoveryInv
<1> QED
  BY <1>1, <1>2, <1>3, RecoverySessionQueue, RecoveryCaptureQueue, RecoverySystem
     DEF Next, RecoveryInv

(* While the app is active and has the camera, a session that is down or   *)
(* an encoder that could not be set up always has a retry coming: no       *)
(* crossing of notifications, failures, timers and pauses loses it.        *)
THEOREM RetryNeverLost == Spec => []RecoveryComing
<1>1. Spec => []RecoveryInv
  BY RecoveryInit, RecoveryStep, PTL DEF Spec
<1>2. RecoveryInv => RecoveryComing
  BY DEF RecoveryInv, FailureCovered, StopCovered, RecoveryComing, RetryArmed
<1> QED
  BY <1>1, <1>2, PTL

-----------------------------------------------------------------------------
(* The request for a key frame.                                            *)

(* A frame goes to the encoder unless that was dropped meanwhile, carries  *)
(* the request only on its way there, and a session that is about to be    *)
(* published has been given none.                                          *)
CaptureInv ==
  /\ capture.at \in {"force", "encode"} => encoder \in {None, capture.enc}
  /\ capture.key => capture.at = "encode"
  /\ capture.at = "publish" => capture.enc \notin begun

KeyInv == TrackInv /\ CaptureInv /\ KeyFrameComing

LEMMA KeyInit == Init => KeyInv
<1> SUFFICES ASSUME Init PROVE KeyInv
  OBVIOUS
<1>1. capture.at = "idle" /\ capture.key = FALSE
  BY DEF Init, Resting, CaptureAt
<1>2. request = "met"
  BY DEF Init
<1> QED
  BY <1>1, <1>2, TrackInit DEF KeyInv, CaptureInv, KeyFrameComing, KeyFrameDue

LEMMA NoEncoderIsNew ==
  ASSUME TypeInv PROVE None \notin begun
BY DEF TypeInv, TypeOK

(* The steps of invalidateEncoder: forgetting the encoder renews the       *)
(* request, and invalidating what was forgotten discards no frame of the   *)
(* encoder there is now.                                                   *)
LEMMA ForgettingKeeps ==
  ASSUME KeyInv, ForgetEncoder, UNCHANGED begun,
         capture' = capture \/ (capture'.at = "invalidate" /\ ~capture'.key)
  PROVE  CaptureInv' /\ KeyFrameComing'
BY DEF KeyInv, CaptureInv, KeyFrameComing, KeyFrameDue, ForgetEncoder

LEMMA InvalidatingKeeps ==
  ASSUME KeyInv, NEW old, Invalidate(old), old = encoder => encoder = None,
         UNCHANGED <<locked, output, request>>,
         capture' = capture \/ (capture.at = "invalidate" /\ capture'.at = "post" /\ ~capture'.key)
  PROVE  CaptureInv' /\ KeyFrameComing'
<1> USE DEF locked
<1>1. CaptureInv'
  BY DEF KeyInv, CaptureInv, Invalidate
<1>2. CASE encoder = None
  <2>1. encoder' \notin begun'
    BY <1>2, NoEncoderIsNew DEF KeyInv, TrackInv, Invalidate
  <2> QED
    BY <1>1, <2>1 DEF KeyFrameComing, KeyFrameDue
<1>3. CASE encoder # None
  <2>1. encoder' \notin begun' \/ encoder \in begun
    BY DEF Invalidate
  <2>2. \A f \in coding : f.enc = encoder => f \in coding'
    BY <1>3 DEF Invalidate
  <2>3. capture.at # "error" \/ capture' = capture
    OBVIOUS
  <2>4. capture.key => capture'.key
    BY DEF KeyInv, CaptureInv
  <2> QED
    BY <1>1, <2>1, <2>2, <2>3, <2>4 DEF KeyInv, KeyFrameComing, KeyFrameDue
<1> QED
  BY <1>2, <1>3

(* A step that leaves alone what the request depends on, or only raises    *)
(* the request.                                                            *)
LEMMA RequestUntouched ==
  ASSUME KeyInv, UNCHANGED <<encoder, capture, begun, coding, output>>,
         forceNextKeyFrame' \/ UNCHANGED <<forceNextKeyFrame, request>>
  PROVE  CaptureInv' /\ KeyFrameComing'
BY DEF KeyInv, CaptureInv, KeyFrameComing, KeyFrameDue

LEMMA KeySessionQueue ==
  ASSUME KeyInv, SessionQueue
  PROVE  CaptureInv' /\ KeyFrameComing'
<1> USE DEF app, locked, camera, videoToolbox, frames, system
<1>k. ASSUME UNCHANGED <<locked, camera>>
      PROVE  CaptureInv' /\ KeyFrameComing'
  BY <1>k, RequestUntouched
<1>f. ASSUME ForgetEncoder, UNCHANGED camera
      PROVE  CaptureInv' /\ KeyFrameComing'
  BY <1>f, ForgettingKeeps
<1>1. CASE ConfigureSession
  BY <1>1, <1>f DEF ConfigureSession
<1>2. CASE Stop
  BY <1>2, <1>f DEF Stop, InvalidateThen
<1>r. ASSUME NEW active, NEW r, RecoverSession(active, r), UNCHANGED camera
      PROVE  CaptureInv' /\ KeyFrameComing'
  BY <1>r, <1>f, <1>k DEF RecoverSession, InvalidateThen
<1>3. CASE ResumeAfterForeground
  BY <1>3, <1>r DEF ResumeAfterForeground
<1>4. CASE PauseRecoveryForBackground
  BY <1>4, <1>k DEF PauseRecoveryForBackground
<1>5. CASE HandleNotification
  <2>1. PICK notice, next : Handles(notice, next)
    BY <1>5 DEF HandleNotification
  <2> QED
    BY <2>1, <1>f, <1>k DEF Handles, InvalidateThen
<1>6. CASE ScheduleRecovery
  BY <1>6, <1>k DEF ScheduleRecovery
<1>7. CASE TimerFires
  BY <1>7, <1>r DEF TimerFires
<1>8. CASE InvalidateOld
  <2>1. work.old = encoder => encoder = None
    BY DEF KeyInv, TrackInv, EveryEncoderTracked
  <2> QED
    BY <1>8, <2>1, InvalidatingKeeps DEF InvalidateOld
<1>9. CASE StartRunning
  BY <1>9, <1>k DEF StartRunning
<1>10. CASE SessionRecovered
  BY <1>10, RequestUntouched DEF SessionRecovered
<1> QED
  BY <1>1, <1>2, <1>3, <1>4, <1>5, <1>6, <1>7, <1>8, <1>9, <1>10 DEF SessionQueue

(* Reading the request moves it into the frame, and encoding the frame     *)
(* moves it into VideoToolbox.  A frame refused there is one of an encoder *)
(* already forgotten, or makes captureOutput forget it.                    *)
LEMMA KeyCaptureQueue ==
  ASSUME KeyInv, CaptureQueue
  PROVE  CaptureInv' /\ KeyFrameComing'
<1> USE DEF captureKeeps, app, locked, videoToolbox, system, CaptureAt, Resting
<1>t. TypeInv /\ None \notin begun
  BY NoEncoderIsNew DEF KeyInv, TrackInv
<1>k. ASSUME UNCHANGED <<encoder, forceNextKeyFrame, request, begun, coding, output>>,
             capture.at \notin {"encode", "error"},
             capture'.key = FALSE, capture'.at \notin {"force", "encode"},
             capture'.at = "publish" => capture'.enc \notin begun
      PROVE  CaptureInv' /\ KeyFrameComing'
  BY <1>k DEF KeyInv, CaptureInv, KeyFrameComing, KeyFrameDue
<1>1. CASE CaptureOutput
  <2>1. capture.at = "idle" /\ capture'.at \in {"create", "get"} /\ capture'.key = FALSE
    BY <1>1 DEF CaptureOutput
  <2> QED
    BY <1>1, <2>1, <1>k DEF CaptureOutput
<1>2. CASE CreateEncoder
  <2>1. \A enc \in Encoders \ sessions : enc \notin begun
    BY <1>t DEF TypeInv, TypeOK
  <2>2. /\ capture.at = "create" /\ capture'.at \in {"publish", "failed"}
        /\ capture'.key = FALSE
        /\ capture'.at = "publish" => capture'.enc \notin begun
    BY <1>2, <2>1 DEF CreateEncoder
  <2> QED
    BY <1>2, <2>2, <1>k DEF CreateEncoder
<1>3. CASE PublishEncoder
  <2>1. encoder' \notin begun' /\ capture'.at = "get" /\ capture'.key = FALSE
    BY <1>3 DEF PublishEncoder, KeyInv, CaptureInv
  <2> QED
    BY <2>1 DEF CaptureInv, KeyFrameComing, KeyFrameDue
<1>4. CASE SetEncoderSetupFailed
  BY <1>4, <1>k DEF SetEncoderSetupFailed
<1>5. CASE ActiveEncoder
  <2>1. CASE encoder = None
    BY <1>5, <2>1, <1>k DEF ActiveEncoder
  <2>2. CASE encoder # None
    <3>1. /\ capture'.at = "force" /\ capture'.enc = encoder /\ capture'.key = FALSE
          /\ UNCHANGED <<encoder, forceNextKeyFrame, request, begun, coding, output>>
      BY <1>5, <2>2 DEF ActiveEncoder
    <3>2. capture.at = "get"
      BY <1>5 DEF ActiveEncoder
    <3> QED
      BY <3>1, <3>2 DEF KeyInv, CaptureInv, KeyFrameComing, KeyFrameDue
  <2> QED
    BY <2>1, <2>2
<1>6. CASE ConsumeForcedKeyFrame
  <2>1. /\ capture'.at = "encode" /\ capture'.enc = capture.enc
        /\ capture'.key = forceNextKeyFrame /\ capture.at = "force"
        /\ UNCHANGED <<encoder, request, begun, coding, output>>
    BY <1>6, <1>t DEF ConsumeForcedKeyFrame, TypeInv, TypeOK, Capture
  <2> QED
    BY <2>1 DEF KeyInv, CaptureInv, KeyFrameComing, KeyFrameDue
<1>7. CASE EncodeFrame
  <2>1. CASE capture' = CaptureAt("error", None)
    BY <2>1 DEF CaptureInv, KeyFrameComing, KeyFrameDue
  <2>2. CASE capture' = Resting
    <3> DEFINE frame == [enc |-> capture.enc, key |-> capture.key \/ capture.enc \notin begun]
    <3>1. /\ coding' = coding \cup {frame} /\ begun' = begun \cup {capture.enc}
          /\ capture.at = "encode"
          /\ UNCHANGED <<encoder, forceNextKeyFrame, request, output>>
      BY <1>7, <2>2 DEF EncodeFrame
    <3>2. CaptureInv'
      BY <2>2 DEF CaptureInv
    <3>3. CASE encoder = None
      <4>1. capture.enc # None
        BY <1>7, <2>2, <1>t DEF EncodeFrame, TypeInv, TypeOK
      <4> QED
        BY <3>1, <3>2, <3>3, <4>1, <1>t DEF KeyFrameComing, KeyFrameDue
    <3>4. CASE encoder # None
      <4>1. encoder = capture.enc /\ frame \in coding' /\ frame.enc = encoder'
        BY <3>1, <3>4 DEF KeyInv, CaptureInv
      <4>2. capture.key \/ encoder \notin begun => frame.key
        BY <4>1
      <4>3. \A f \in coding : f \in coding'
        BY <3>1
      <4>4. KeyFrameComing'
        BY <3>1, <4>1, <4>2, <4>3 DEF KeyInv, KeyFrameComing, KeyFrameDue
      <4> QED
        BY <3>2, <4>4
    <3> QED
      BY <3>3, <3>4
  <2> QED
    BY <1>7, <2>1, <2>2 DEF EncodeFrame
<1>8. CASE EncodeFails
  BY <1>8, ForgettingKeeps DEF EncodeFails
<1>9. CASE InvalidateFailed
  <2>1. capture.enc = encoder => encoder = None
    BY <1>9 DEF InvalidateFailed, KeyInv, TrackInv, EveryEncoderTracked, CaptureHolds
  <2> QED
    BY <1>9, <2>1, InvalidatingKeeps DEF InvalidateFailed
<1>10. CASE PostRecovery
  BY <1>10, <1>k DEF PostRecovery
<1> QED
  BY <1>1, <1>2, <1>3, <1>4, <1>5, <1>6, <1>7, <1>8, <1>9, <1>10 DEF CaptureQueue

LEMMA KeyVideoToolbox ==
  ASSUME KeyInv, VideoToolbox
  PROVE  CaptureInv' /\ KeyFrameComing'
<1> USE DEF queue, locked, videoToolbox, frames
<1>1. ASSUME NEW f \in coding, WriteAnnexB(f)
      PROVE  CaptureInv' /\ KeyFrameComing'
  <2>1. UNCHANGED <<encoder, forceNextKeyFrame, capture, begun, request>>
        /\ f \in output' /\ output \subseteq output' /\ coding' = coding \ {f}
    BY <1>1 DEF WriteAnnexB
  <2>2. (\E g \in coding : g.key /\ g.enc = encoder) =>
          \/ \E g \in output' : g.key
          \/ \E g \in coding' : g.key /\ g.enc = encoder
    BY <2>1
  <2> QED
    BY <2>1, <2>2 DEF KeyInv, CaptureInv, KeyFrameComing, KeyFrameDue
<1>2. ASSUME NEW f \in coding, DiscardFrame(f)
      PROVE  CaptureInv' /\ KeyFrameComing'
  <2>1. UNCHANGED <<encoder, forceNextKeyFrame, capture, begun, output>>
        /\ coding' = coding \ {f} /\ request' \in {request, "lost"}
    BY <1>2 DEF DiscardFrame
  <2>2. KeyFrameDue => KeyFrameDue'
    BY <2>1 DEF KeyFrameDue
  <2>3. CASE request' = "open"
    <3>1. request = "open" /\ (KeyFrameDue \/ ~f.key \/ f.enc # encoder)
      BY <1>2, <2>1, <2>3 DEF DiscardFrame
    <3>2. KeyFrameDue \/ \E g \in coding' : g.key /\ g.enc = encoder'
      BY <2>1, <3>1 DEF KeyInv, KeyFrameComing, KeyFrameDue
    <3> QED
      BY <2>1, <2>2, <3>2 DEF KeyInv, CaptureInv, KeyFrameComing, KeyFrameDue
  <2> QED
    BY <2>1, <2>3 DEF KeyInv, CaptureInv, KeyFrameComing, KeyFrameDue
<1>3. ASSUME NEW f \in output, SendFrame(f)
      PROVE  CaptureInv' /\ KeyFrameComing'
  <2>1. UNCHANGED <<encoder, forceNextKeyFrame, capture, begun, coding>>
        /\ output' = output \ {f} /\ request' = IF f.key THEN "met" ELSE request
    BY <1>3 DEF SendFrame
  <2> QED
    BY <2>1 DEF KeyInv, CaptureInv, KeyFrameComing, KeyFrameDue
<1> QED
  BY <1>1, <1>2, <1>3 DEF VideoToolbox

LEMMA KeyStep == KeyInv /\ [Next]_vars => KeyInv'
<1> SUFFICES ASSUME KeyInv, [Next]_vars PROVE KeyInv'
  OBVIOUS
<1> USE DEF locked, camera, videoToolbox, frames
<1>1. TrackInv'
  BY TrackStep DEF KeyInv
<1>2. CASE UNCHANGED vars
  BY <1>1, <1>2, RequestUntouched DEF vars, KeyInv
<1>3. CASE System
  BY <1>1, <1>3, RequestUntouched DEF KeyInv, System, ClientConnects, CameraStops, CameraErrs,
        CameraInterrupted, InterruptionEnds, WillResignActive, DidBecomeActive, Terminates,
        systemKeeps
<1> QED
  BY <1>1, <1>2, <1>3, KeySessionQueue, KeyCaptureQueue, KeyVideoToolbox DEF Next, KeyInv

(* A client's request for a key frame is lost only together with the frame *)
(* that carries it: whatever sessions are dropped, replaced and            *)
(* invalidated on either queue, a key frame is due, or inside an encoder   *)
(* that stays, until one has been handed to the sender or the frame inside *)
(* the encoder was not encoded or could not be read (CameraStreamer.swift  *)
(* 225-231, 285-303, 328-384, 597-640).                                    *)
THEOREM RequestLostOnlyWithItsFrame == Spec => []KeyFrameComing
<1>1. Spec => []KeyInv
  BY KeyInit, KeyStep, PTL DEF Spec
<1>2. KeyInv => KeyFrameComing
  BY DEF KeyInv
<1> QED
  BY <1>1, <1>2, PTL
===============================================================================

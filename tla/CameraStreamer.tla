---------------------------- MODULE CameraStreamer ----------------------------
(***************************************************************************)
(* Capture, encoding and recovery on the phone (ios/CameraStreamer.swift). *)
(*                                                                         *)
(* Four threads meet here: the serial sessionQueue, where notifications    *)
(* and recovery run; the queue the camera delivers frames on; VideoToolbox *)
(* calling back with encoded frames; and the sender's queue, on which a    *)
(* client connects.  They share the encoder, its failure flag and the      *)
(* key-frame request under encoderStateLock, each critical section a step  *)
(* of its own.                                                             *)
(*                                                                         *)
(* Left out: telemetry and the frame number, status texts, frames that are *)
(* not 4K (dropped on arrival), the output file (off), the thermal and     *)
(* pressure labels, and an attempt at configureSession that fails: nothing *)
(* ever runs then.  The main queue, which forwards notifications in order, *)
(* is merged with sessionQueue.  start() is called once and stop() as the  *)
(* app terminates (CameraViewController, AppDelegate).                     *)
(***************************************************************************)
EXTENDS Naturals, Sequences

CONSTANTS
  Encoders,    \* identities of compression sessions
  None,        \* no compression session
  MaxAttempt,  \* cap of recoveryAttempt, 5 in the source
  MaxEvents    \* bound: failures, notifications and clients from outside

ASSUME CameraAssumption ==
  /\ None \notin Encoders
  /\ MaxAttempt \in Nat /\ MaxEvents \in Nat

VARIABLES
  \* Touched on sessionQueue only.
  isConfigured, stopped, appIsActive,
  recovery,    \* recoveryScheduled, recoveryAttempt, and the timers set
  blocks,      \* what has been posted to sessionQueue
  work,        \* the block that runs: where it is, the encoder it releases
  \* Under encoderStateLock.
  encoder, encoderSetupFailed, forceNextKeyFrame,
  capture,     \* the capture callback: where it is, its encoder, its request
  sessions,    \* compression sessions created and not yet invalidated
  begun,       \* those that have been given a frame
  coding,      \* frames inside a compression session
  output,      \* encoded frames on their way to sender.send
  request,     \* history: what became of the last client's request for a key frame
  \* The system.
  running,     \* AVCaptureSession.isRunning
  interrupted, \* the camera belongs to somebody else
  foreground,  \* the app is the active one
  events

app    == <<isConfigured, stopped, appIsActive>>
queue  == <<app, recovery, blocks, work>>
locked == <<encoder, encoderSetupFailed, forceNextKeyFrame>>
videoToolbox == <<sessions, begun>>
frames == <<coding, output>>
system == <<running, interrupted, foreground>>
camera == <<capture, videoToolbox, frames, request>>
vars   == <<queue, locked, camera, system, events>>

-----------------------------------------------------------------------------
Blocks  == {"configure", "stop", "resume", "pause", "interruption",
            "error", "reset", "stopped", "schedule"}
MaybeEncoder == Encoders \cup {None}
Frames  == [enc : Encoders, key : BOOLEAN]
Requests == {"open", "met", "lost"}

(* What a block goes on to once the encoder it dropped is invalidated.     *)
After == {"return", "check", "schedule", "start", "stop"}
Work  == [at : {"idle", "invalidate", "start", "request"},
          old : MaybeEncoder, next : After]
WorkAt(at) == [at |-> at, old |-> None, next |-> "return"]
Idle  == WorkAt("idle")

Capture == [at : {"idle", "create", "publish", "failed", "get", "force",
                  "encode", "error", "invalidate", "post"},
            enc : MaybeEncoder, key : BOOLEAN]
CaptureAt(at, enc) == [at |-> at, enc |-> enc, key |-> FALSE]
Resting == CaptureAt("idle", None)

Init ==
  /\ isConfigured = FALSE /\ stopped = FALSE /\ appIsActive = TRUE
  /\ recovery = [scheduled |-> FALSE, attempt |-> 0, timers |-> 0]
  /\ blocks = <<"configure">>     \* start() has been called
  /\ work = Idle
  /\ encoder = None /\ encoderSetupFailed = FALSE /\ forceNextKeyFrame = FALSE
  /\ capture = Resting
  /\ sessions = {} /\ begun = {} /\ coding = {} /\ output = {} /\ request = "met"
  /\ running = FALSE /\ interrupted = FALSE /\ foreground = TRUE
  /\ events = 0

Event == events < MaxEvents /\ events' = events + 1

Post(block)   == blocks' = Append(blocks, block)
Posted(block) == \E i \in DOMAIN blocks : blocks[i] = block

-----------------------------------------------------------------------------
(* The sessionQueue.                                                       *)

Runs(block) ==
  work.at = "idle" /\ blocks # <<>> /\ Head(blocks) = block /\ blocks' = Tail(blocks)

MayRecover(active) == active /\ isConfigured /\ ~stopped

(* Mutant: the delay doubles without a cap.                                *)
ScheduledUncapped(active, r) ==
  IF MayRecover(active) /\ ~r.scheduled
  THEN [scheduled |-> TRUE, attempt |-> r.attempt + 1, timers |-> r.timers + 1]
  ELSE r

(* scheduleRecoveryOnSessionQueue, when r is what `recovery' holds.        *)
Scheduled(active, r) ==
  IF MayRecover(active) /\ ~r.scheduled
  THEN [scheduled |-> TRUE,
        attempt   |-> IF r.attempt < MaxAttempt THEN r.attempt + 1 ELSE MaxAttempt,
        timers    |-> r.timers + 1]
  ELSE r

(* The critical section of invalidateEncoder, and the call after it.       *)
ForgetEncoder ==
  encoder' = None /\ encoderSetupFailed' = FALSE /\ forceNextKeyFrame' = TRUE

Invalidate(old) ==
  /\ sessions' = sessions \ {old}
  /\ begun' = begun \ {old}
  /\ coding' = {f \in coding : f.enc # old}

InvalidateThen(next) ==
  ForgetEncoder /\ work' = [at |-> "invalidate", old |-> encoder, next |-> next]

(* recoverSession up to invalidateEncoder: its guard, then apply4K60Format, *)
(* which may fail.                                                         *)
RecoverSession(active, r) ==
  \/ /\ ~MayRecover(active)
     /\ recovery' = r
     /\ UNCHANGED <<work, locked, events>>
  \/ /\ MayRecover(active) /\ Event
     /\ recovery' = Scheduled(active, r)
     /\ UNCHANGED <<work, locked>>
  \/ /\ MayRecover(active)
     /\ recovery' = r /\ InvalidateThen("start")
     /\ UNCHANGED events

(* configureSession.  If startRunning fails or the camera is taken, a      *)
(* notification says so: CameraStops, CameraInterrupted.                   *)
ConfigureSession ==
  /\ Runs("configure") /\ ~isConfigured
  /\ isConfigured' = TRUE /\ stopped' = FALSE
  /\ ForgetEncoder /\ running' = TRUE
  /\ UNCHANGED <<appIsActive, recovery, work, camera, interrupted, foreground, events>>

Stop ==
  /\ Runs("stop")
  /\ stopped' = TRUE /\ running' = FALSE
  /\ InvalidateThen("stop")
  /\ UNCHANGED <<isConfigured, appIsActive, recovery, camera, interrupted, foreground, events>>

ResumeAfterForeground ==
  /\ Runs("resume")
  /\ appIsActive' = TRUE
  /\ RecoverSession(TRUE, [recovery EXCEPT !.attempt = 0])
  /\ UNCHANGED <<isConfigured, stopped, camera, system>>

PauseRecoveryForBackground ==
  /\ Runs("pause")
  /\ appIsActive' = FALSE
  /\ UNCHANGED <<isConfigured, stopped, recovery, work, locked, camera, system, events>>

(* The handlers of the session's notifications.  A runtime error that is   *)
(* not mediaServicesWereReset is retried only if the session has stopped.  *)
Handles(notice, next) ==
  /\ Runs(notice)
  /\ IF isConfigured /\ ~stopped THEN InvalidateThen(next) ELSE UNCHANGED <<locked, work>>
  /\ UNCHANGED <<app, recovery, camera, system, events>>

HandleNotification ==
  \/ Handles("interruption", "return")
  \/ Handles("error", "check")
  \/ Handles("reset", "schedule")
  \/ Handles("stopped", "schedule")

ScheduleRecovery ==
  /\ Runs("schedule")
  /\ recovery' = Scheduled(appIsActive, recovery)
  /\ UNCHANGED <<app, work, locked, camera, system, events>>

(* What the timer leaves of `recovery'.                                     *)
Fired(r) == [scheduled |-> FALSE, attempt |-> r.attempt, timers |-> r.timers - 1]

(* Mutant: the timer does not clear recoveryScheduled.                     *)
TimerKeepsFlag ==
  /\ work.at = "idle" /\ recovery.timers > 0
  /\ RecoverSession(appIsActive, [recovery EXCEPT !.timers = @ - 1])
  /\ UNCHANGED <<app, blocks, camera, system>>

(* The asyncAfter block, at any time after it was set.                     *)
TimerFires ==
  /\ work.at = "idle" /\ recovery.timers > 0
  /\ RecoverSession(appIsActive, Fired(recovery))
  /\ UNCHANGED <<app, blocks, camera, system>>

InvalidateOld ==
  /\ work.at = "invalidate"
  /\ Invalidate(work.old)
  /\ LET retries == work.next = "schedule" \/ (work.next = "check" /\ ~running)
     IN  recovery' = IF retries THEN Scheduled(appIsActive, recovery) ELSE recovery
  /\ work' = IF work.next = "start" THEN WorkAt("start") ELSE Idle
  /\ UNCHANGED <<app, blocks, locked, capture, output, request, system, events>>

(* recoverSession after invalidateEncoder.                                 *)
StartRunning ==
  /\ work.at = "start"
  /\ \/ /\ running \/ ~interrupted
        /\ running' = TRUE
        /\ work' = WorkAt("request")
        /\ UNCHANGED <<recovery, events>>
     \/ /\ ~running
        /\ IF interrupted THEN UNCHANGED events ELSE Event
        /\ recovery' = Scheduled(appIsActive, recovery)
        /\ work' = Idle
        /\ UNCHANGED running
  /\ UNCHANGED <<app, blocks, locked, camera, interrupted, foreground>>

(* The rest of recoverSession.  What sender.restartListening does then is  *)
(* in StreamSender.                                                        *)
SessionRecovered ==
  /\ work.at = "request"
  /\ forceNextKeyFrame' = TRUE
  /\ recovery' = [recovery EXCEPT !.attempt = 0]
  /\ work' = Idle
  /\ UNCHANGED <<app, blocks, encoder, encoderSetupFailed, camera, system, events>>

SessionQueue ==
  \/ ConfigureSession \/ Stop \/ ResumeAfterForeground \/ PauseRecoveryForBackground
  \/ HandleNotification \/ ScheduleRecovery \/ TimerFires
  \/ InvalidateOld \/ StartRunning \/ SessionRecovered

-----------------------------------------------------------------------------
(* The capture queue.  Only it sets the encoder, so once it has seen none  *)
(* there is none until it makes one: reading the encoder and then the      *)
(* failure flag is one step.                                               *)

captureKeeps == <<app, recovery, work, output, request, system>>

(* Bound: one frame of a session in VideoToolbox and on its way out.       *)
OneFrame == \A f \in coding \cup output : f.enc # encoder

CaptureOutput ==
  /\ capture.at = "idle" /\ running
  /\ \/ encoder = None /\ ~encoderSetupFailed /\ capture' = CaptureAt("create", None)
     \/ encoder # None /\ OneFrame /\ capture' = CaptureAt("get", None)
  /\ UNCHANGED <<captureKeeps, blocks, locked, videoToolbox, coding, events>>

(* Mutant: a session that cannot be set up is dropped, not invalidated.    *)
CreateEncoderLeaks ==
  /\ capture.at = "create"
  /\ \E enc \in Encoders \ (sessions \cup {f.enc : f \in output}) :
       /\ sessions' = sessions \cup {enc}
       /\ \/ capture' = CaptureAt("publish", enc) /\ UNCHANGED events
          \/ Event /\ capture' = CaptureAt("failed", None)
  /\ UNCHANGED <<captureKeeps, blocks, locked, begun, coding>>

(* createEncoder: a session that cannot be set up is invalidated at once.  *)
CreateEncoder ==
  /\ capture.at = "create"
  /\ \/ \E enc \in Encoders \ (sessions \cup {f.enc : f \in output}) :
          /\ sessions' = sessions \cup {enc}
          /\ capture' = CaptureAt("publish", enc)
          /\ UNCHANGED events
     \/ Event /\ capture' = CaptureAt("failed", None) /\ UNCHANGED sessions
  /\ UNCHANGED <<captureKeeps, blocks, locked, begun, coding>>

PublishEncoder ==
  /\ capture.at = "publish"
  /\ encoder' = capture.enc /\ encoderSetupFailed' = FALSE
  /\ capture' = CaptureAt("get", None)
  /\ UNCHANGED <<captureKeeps, blocks, forceNextKeyFrame, videoToolbox, coding, events>>

SetEncoderSetupFailed ==
  /\ capture.at = "failed"
  /\ encoderSetupFailed' = TRUE
  /\ capture' = CaptureAt("post", None)
  /\ UNCHANGED <<captureKeeps, blocks, encoder, forceNextKeyFrame, videoToolbox, coding, events>>

ActiveEncoder ==
  /\ capture.at = "get"
  /\ capture' = IF encoder = None THEN Resting ELSE CaptureAt("force", encoder)
  /\ UNCHANGED <<captureKeeps, blocks, locked, videoToolbox, coding, events>>

ConsumeForcedKeyFrame ==
  /\ capture.at = "force"
  /\ capture' = [capture EXCEPT !.at = "encode", !.key = forceNextKeyFrame]
  /\ forceNextKeyFrame' = FALSE
  /\ UNCHANGED <<captureKeeps, blocks, encoder, encoderSetupFailed, videoToolbox, coding, events>>

(* Mutant: the request is cleared once its frame is in, not when it is     *)
(* read.                                                                   *)
ClearsLate ==
  /\ capture.at = "encode" /\ capture.enc \in sessions
  /\ coding' = coding \cup
          {[enc |-> capture.enc, key |-> capture.key \/ capture.enc \notin begun]}
  /\ begun' = begun \cup {capture.enc}
  /\ capture' = Resting
  /\ forceNextKeyFrame' = FALSE
  /\ UNCHANGED <<captureKeeps, blocks, encoder, encoderSetupFailed, sessions, events>>

(* VTCompressionSessionEncodeFrame refuses an invalidated session.  The    *)
(* first frame of a session is always a key frame.                         *)
EncodeFrame ==
  /\ capture.at = "encode"
  /\ \/ /\ capture.enc \in sessions
        /\ coding' = coding \cup
                {[enc |-> capture.enc, key |-> capture.key \/ capture.enc \notin begun]}
        /\ begun' = begun \cup {capture.enc}
        /\ capture' = Resting
        /\ UNCHANGED events
     \/ /\ IF capture.enc \in sessions THEN Event ELSE UNCHANGED events
        /\ capture' = CaptureAt("error", None)
        /\ UNCHANGED <<begun, coding>>
  /\ UNCHANGED <<captureKeeps, blocks, locked, sessions>>

EncodeFails ==
  /\ capture.at = "error"
  /\ ForgetEncoder
  /\ capture' = CaptureAt("invalidate", encoder)
  /\ UNCHANGED <<captureKeeps, blocks, videoToolbox, coding, events>>

InvalidateFailed ==
  /\ capture.at = "invalidate"
  /\ Invalidate(capture.enc)
  /\ capture' = CaptureAt("post", None)
  /\ UNCHANGED <<captureKeeps, blocks, locked, events>>

(* scheduleRecovery, and the return of the callback.                       *)
PostRecovery ==
  /\ capture.at = "post"
  /\ Post("schedule")
  /\ capture' = Resting
  /\ UNCHANGED <<captureKeeps, locked, videoToolbox, coding, events>>

CaptureQueue ==
  \/ CaptureOutput \/ CreateEncoder \/ PublishEncoder \/ SetEncoderSetupFailed
  \/ ActiveEncoder \/ ConsumeForcedKeyFrame \/ EncodeFrame \/ EncodeFails
  \/ InvalidateFailed \/ PostRecovery

-----------------------------------------------------------------------------
(* VideoToolbox's callback, one thread for each session.                   *)

(* writeAnnexB up to sender.send.                                          *)
WriteAnnexB(f) ==
  /\ coding' = coding \ {f} /\ output' = output \cup {f}
  /\ UNCHANGED <<queue, locked, capture, videoToolbox, request, system, events>>

(* A key frame is due without a look at what is inside the encoder: the    *)
(* request stands, the frame being captured has taken it, that frame       *)
(* failed and the encoder goes with a new request, a key frame is past     *)
(* every early return, or the encoder's next frame is its first.           *)
KeyFrameDue ==
  \/ forceNextKeyFrame \/ capture.key \/ capture.at = "error"
  \/ \E f \in output : f.key
  \/ encoder \notin begun

(* The frame was not encoded, or writeAnnexB cannot read it, and nobody    *)
(* asks again: a request that only this frame carried is lost.  (The next  *)
(* key frame is then the encoder's own, one in every 60 frames.)           *)
DiscardFrame(f) ==
  /\ Event
  /\ coding' = coding \ {f}
  /\ request' = IF request = "open" /\ f.key /\ f.enc = encoder /\ ~KeyFrameDue
                THEN "lost" ELSE request
  /\ UNCHANGED <<queue, locked, capture, videoToolbox, output, system>>

SendFrame(f) ==
  /\ output' = output \ {f}
  /\ request' = IF f.key THEN "met" ELSE request
  /\ UNCHANGED <<queue, locked, capture, videoToolbox, coding, system, events>>

VideoToolbox ==
  \/ \E f \in coding : WriteAnnexB(f) \/ DiscardFrame(f)
  \/ \E f \in output : SendFrame(f)

-----------------------------------------------------------------------------
(* The sender's queue and the system around the app.                       *)

(* onClientConnected: requestKeyFrame.                                     *)
ClientConnects ==
  /\ isConfigured /\ ~stopped /\ Event
  /\ forceNextKeyFrame' = TRUE
  /\ request' = "open"
  /\ UNCHANGED <<queue, encoder, encoderSetupFailed, capture, videoToolbox, frames, system>>

systemKeeps == <<app, recovery, work, locked, camera>>

(* The capture session stops by itself, or only reports an error.          *)
CameraStops ==
  /\ running /\ Event
  /\ running' = FALSE
  /\ \E notice \in {"stopped", "error", "reset"} : Post(notice)
  /\ UNCHANGED <<systemKeeps, interrupted, foreground>>

CameraErrs ==
  /\ running /\ Event
  /\ \E notice \in {"error", "reset"} : Post(notice)
  /\ UNCHANGED <<systemKeeps, system>>

(* Another app or a call takes the camera, and gives it back.  iOS may     *)
(* restart the session itself.                                             *)
CameraInterrupted ==
  /\ isConfigured /\ ~interrupted /\ Event
  /\ interrupted' = TRUE /\ running' = FALSE
  /\ Post("interruption")
  /\ UNCHANGED <<systemKeeps, foreground>>

InterruptionEnds ==
  /\ interrupted
  /\ interrupted' = FALSE
  /\ running' \in {FALSE, ~stopped}
  /\ Post("resume")
  /\ UNCHANGED <<systemKeeps, foreground, events>>

WillResignActive ==
  /\ foreground /\ Event
  /\ foreground' = FALSE
  /\ Post("pause")
  /\ UNCHANGED <<systemKeeps, running, interrupted>>

DidBecomeActive ==
  /\ ~foreground
  /\ foreground' = TRUE
  /\ Post("resume")
  /\ UNCHANGED <<systemKeeps, running, interrupted, events>>

Terminates ==
  /\ ~stopped /\ ~Posted("stop") /\ Event
  /\ Post("stop")
  /\ UNCHANGED <<systemKeeps, system>>

System ==
  \/ ClientConnects \/ CameraStops \/ CameraErrs \/ CameraInterrupted
  \/ InterruptionEnds \/ WillResignActive \/ DidBecomeActive \/ Terminates

Next == SessionQueue \/ CaptureQueue \/ VideoToolbox \/ System

Spec == Init /\ [][Next]_vars

(* The queues are served, timers fire, and the camera delivers frames      *)
(* while it runs.  Nothing from outside has to happen, and by MaxEvents    *)
(* failures come to an end.                                                *)
FairSpec ==
  Spec /\ WF_vars(SessionQueue) /\ WF_vars(CaptureQueue) /\ WF_vars(VideoToolbox)

-----------------------------------------------------------------------------
(* Every variable has its type.                                            *)
TypeOK ==
  /\ isConfigured \in BOOLEAN /\ stopped \in BOOLEAN /\ appIsActive \in BOOLEAN
  /\ recovery \in [scheduled : BOOLEAN, attempt : 0..MaxAttempt, timers : 0..1]
  /\ blocks \in Seq(Blocks) /\ work \in Work
  /\ encoder \in MaybeEncoder
  /\ encoderSetupFailed \in BOOLEAN /\ forceNextKeyFrame \in BOOLEAN
  /\ capture \in Capture
  /\ begun \subseteq sessions /\ sessions \subseteq Encoders
  /\ coding \subseteq Frames /\ output \subseteq Frames /\ request \in Requests
  /\ running \in BOOLEAN /\ interrupted \in BOOLEAN /\ foreground \in BOOLEAN
  /\ events \in 0..MaxEvents

(* Something will run that retries: a timer, a block that recovers or sets *)
(* a timer, the rest of one, or a callback about to post one.              *)
RetryArmed ==
  \/ recovery.timers > 0
  \/ Posted("schedule") \/ Posted("resume") \/ Posted("stopped") \/ Posted("reset")
  \/ Posted("error") /\ ~running
  \/ work.at = "start"
  \/ work.at = "invalidate" /\ work.next \in {"start", "schedule"}
  \/ work.at = "invalidate" /\ work.next = "check" /\ ~running
  \/ capture.at = "post"

(* The stream is never left dead.  While the app is active and the camera  *)
(* is its own, a capture session that is down, or an encoder that could    *)
(* not be set up (after which captureOutput makes no other), has a retry   *)
(* coming, whatever notifications, failures and timers crossed.            *)
RecoveryComing ==
  MayRecover(appIsActive) /\ ~interrupted /\ (encoderSetupFailed \/ ~running)
    => RetryArmed

(* Compression sessions do not leak, and the published one is usable: each *)
(* one that exists is the encoder, is on its way to become it, or is being *)
(* invalidated, by exactly one of the two queues.                          *)
CaptureHolds == IF capture.at \in {"publish", "invalidate"} THEN capture.enc ELSE None

EveryEncoderTracked ==
  /\ sessions = {encoder, CaptureHolds, work.old} \ {None}
  /\ encoder \in {CaptureHolds, work.old} => encoder = None
  /\ CaptureHolds = work.old => work.old = None

(* A client's request for a key frame is lost in one way only: the frame    *)
(* that carries it is not encoded or cannot be read.  No session dropped,   *)
(* failed or replaced on either queue takes it along: until a key frame is  *)
(* handed to the sender one is due, or inside an encoder that nobody is     *)
(* about to invalidate.                                                     *)
KeyFrameComing ==
  request = "open" => KeyFrameDue \/ \E f \in coding : f.key /\ f.enc = encoder

(* While the app is active and the camera is its own, the stream comes     *)
(* back after every failure.                                               *)
Serving  == running /\ encoder # None
Recovers == []<>(Serving \/ ~MayRecover(appIsActive) \/ interrupted)
===============================================================================

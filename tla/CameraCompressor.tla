--------------------------- MODULE CameraCompressor ---------------------------
(***************************************************************************)
(* camera_compressor.py: a trigger starts `ros2 run camera_ros', the first *)
(* image that arrives is compressed and published, and the camera is taken *)
(* down again, after 15 s at the latest.  The callbacks run one after the  *)
(* other; the `ros2 run' process, the camera under it, the arrival of      *)
(* images and triggers and the clock go on beside them.                    *)
(***************************************************************************)
EXTENDS Integers, Sequences, SequencesExt

CONSTANTS CaptureTimeout,     \* the 15 s of the timer, in ticks
          CameraDepth,       \* depth of the two subscriptions, 10
          MaxTriggers, \* bound
          Deaf         \* TRUE: a camera may hang and ignore SIGTERM

ASSUME CameraAssumption == {CaptureTimeout, CameraDepth, MaxTriggers} \subseteq Nat \ {0} /\ Deaf \in BOOLEAN

Captures == 1..MaxTriggers

NoSub == <<0>> \* stands for temp_sub = None

VARIABLES
  triggers,       \* messages of /camera/trigger not yet handled
  is_capturing,
  capture,        \* the number of the last capture
  images,         \* queue of temp_sub: for each image the capture it was sent in
  camera_process, \* the capture whose process is kept, 0 for None
  timeout_timer,  \* ticks to go, -1 for None
  cleaning,       \* in _cleanup, waiting for the process
  leader,         \* the `ros2 run' process of each capture
  camera,         \* the camera under it
  spinning,       \* the node has not been stopped
  published,      \* images published: [answers, sent], in captures
  pressed         \* triggers sent

camera_vars == <<triggers, is_capturing, capture, images, camera_process, timeout_timer,
                 cleaning, leader, camera, spinning, published, pressed>>
outside == <<triggers, pressed, spinning>>

\* A camera that was told to end goes on until it has shut down.
Running(c)   == camera[c] \in {"starting", "on", "ending", "deaf"}
Streaming(c) == camera[c] \in {"on", "ending", "deaf"}

\* First part of _cleanup: the subscription goes, SIGTERM to the process group.
\* Mutant: to the leader alone.
Terminated_Leader(c) == /\ leader' = [leader EXCEPT ![c] = IF @ = "alive" THEN "told" ELSE @]
                        /\ UNCHANGED camera
Terminated(c) ==
  /\ leader' = [leader EXCEPT ![c] = IF @ = "alive" THEN "told" ELSE @]
  /\ camera' = [camera EXCEPT ![c] = IF @ \in {"starting", "on"} THEN "ending" ELSE @]

Unsubscribed == NoSub

Cleanup ==
  /\ images' = Unsubscribed
  /\ IF camera_process = 0
     THEN is_capturing' = FALSE /\ UNCHANGED <<leader, camera, cleaning>>
     ELSE Terminated(camera_process) /\ cleaning' = TRUE /\ UNCHANGED is_capturing
  /\ UNCHANGED <<camera_process, capture>>

\* wait(timeout=2.0) ends with the leader, whatever the camera does, or SIGKILL
\* follows to the group.
CleanupEnds ==
  /\ cleaning
  /\ \/ leader[camera_process] = "dead" /\ UNCHANGED <<leader, camera>>
     \/ /\ leader[camera_process] = "told"
        /\ leader' = [leader EXCEPT ![camera_process] = "dead"]
        /\ camera' = [camera EXCEPT ![camera_process] = "dead"]
  /\ camera_process' = 0 /\ cleaning' = FALSE /\ is_capturing' = FALSE
  /\ UNCHANGED <<capture, images, timeout_timer, published, outside>>

\* The executor is free for the next callback.
Idle == spinning /\ ~cleaning

\* trigger_compression_sub.  Popen may fail, or with the process running the
\* subscription or the timer.
Free == ~is_capturing

Trigger ==
  /\ Idle /\ triggers > 0 /\ triggers' = triggers - 1
  /\ IF ~Free
     THEN UNCHANGED <<is_capturing, capture, images, camera_process, timeout_timer, cleaning,
                      leader, camera>>
     ELSE \/ /\ is_capturing' = TRUE /\ capture' = capture + 1
             /\ camera_process' = capture'
             /\ leader' = [leader EXCEPT ![capture'] = "alive"]
             /\ camera' = [camera EXCEPT ![capture'] = "starting"]
             /\ images' = <<>> /\ timeout_timer' = CaptureTimeout /\ UNCHANGED cleaning
          \/ Cleanup /\ UNCHANGED timeout_timer
          \/ /\ is_capturing' = TRUE /\ capture' = capture + 1 /\ camera_process' = capture'
             /\ leader' = [leader EXCEPT ![capture'] = "told"]
             /\ camera' = [camera EXCEPT ![capture'] = "ending"]
             /\ cleaning' = TRUE /\ UNCHANGED <<images, timeout_timer>>
  /\ UNCHANGED <<published, pressed, spinning>>

\* image_callback: compression may fail, _cleanup is in the finally.
ImageCallback ==
  /\ Idle /\ images \notin {<<>>, NoSub}
  /\ timeout_timer' = -1
  /\ \/ published' = Append(published, [answers |-> capture, sent |-> Head(images)])
     \/ UNCHANGED published
  /\ Cleanup
  /\ UNCHANGED outside

\* Mutant: the timer is not made.
Fires_Never == FALSE
Fires == timeout_timer = 0

TimeoutCallback ==
  /\ Idle /\ Fires
  /\ timeout_timer' = -1
  /\ Cleanup
  /\ UNCHANGED <<published, outside>>

\* destroy_node, after a Ctrl-C between two callbacks, or inside the wait of a
\* cleanup: then camera_process is None and there is nothing left to do.
DestroyNode ==
  /\ spinning /\ spinning' = FALSE
  /\ \/ ~cleaning /\ Cleanup
     \/ /\ cleaning /\ cleaning' = FALSE /\ camera_process' = 0 /\ is_capturing' = FALSE
        /\ UNCHANGED <<capture, images, leader, camera>>
  /\ UNCHANGED <<triggers, timeout_timer, published, pressed>>

Callbacks == CleanupEnds \/ Trigger \/ ImageCallback \/ TimeoutCallback

-----------------------------------------------------------------------------
(* Around the node *)

\* The device has one owner: a second camera ends at once.
CameraStarts(c) ==
  /\ camera[c] = "starting"
  /\ camera' = [camera EXCEPT ![c] =
       IF \E d \in Captures : Streaming(d) THEN "dead" ELSE "on"]
  /\ UNCHANGED <<is_capturing, capture, images, camera_process, timeout_timer, cleaning,
                 leader, published, outside>>

CameraHangs(c) ==
  /\ Deaf /\ camera[c] \in {"on", "ending"} /\ camera' = [camera EXCEPT ![c] = "deaf"]
  /\ UNCHANGED <<is_capturing, capture, images, camera_process, timeout_timer, cleaning,
                 leader, published, outside>>

\* A camera that was told to end has shut down.
CameraEnds(c) ==
  /\ camera[c] = "ending" /\ camera' = [camera EXCEPT ![c] = "dead"]
  /\ UNCHANGED <<is_capturing, capture, images, camera_process, timeout_timer, cleaning,
                 leader, published, outside>>

\* An image is sent now and reaches the subscription there is now, also from the
\* camera of an earlier capture.
CameraImage(c) ==
  /\ Streaming(c) /\ images # NoSub /\ Len(images) < CameraDepth
  /\ images' = Append(images, capture)
  /\ UNCHANGED <<is_capturing, capture, camera_process, timeout_timer, cleaning, leader,
                 camera, published, outside>>

\* `ros2 run' ends on SIGTERM, or when its camera ends.
LeaderEnds(c) ==
  /\ leader[c] = "told" \/ (leader[c] = "alive" /\ camera[c] = "dead")
  /\ leader' = [leader EXCEPT ![c] = "dead"]
  /\ UNCHANGED <<is_capturing, capture, images, camera_process, timeout_timer, cleaning,
                 camera, published, outside>>

TriggerSent ==
  /\ pressed < MaxTriggers /\ pressed' = pressed + 1
  /\ triggers' = IF triggers < CameraDepth THEN triggers + 1 ELSE triggers
  /\ UNCHANGED <<is_capturing, capture, images, camera_process, timeout_timer, cleaning,
                 leader, camera, spinning, published>>

CameraTick ==
  /\ timeout_timer > 0 /\ timeout_timer' = timeout_timer - 1
  /\ UNCHANGED <<is_capturing, capture, images, camera_process, cleaning, leader, camera,
                 published, outside>>

CameraInit ==
  /\ triggers = 0 /\ is_capturing = FALSE /\ capture = 0 /\ images = NoSub
  /\ camera_process = 0 /\ timeout_timer = -1 /\ cleaning = FALSE /\ spinning = TRUE
  /\ leader = [c \in Captures |-> "none"] /\ camera = [c \in Captures |-> "none"]
  /\ published = <<>> /\ pressed = 0

CameraNext ==
  \/ Callbacks \/ DestroyNode \/ TriggerSent \/ CameraTick
  \/ \E c \in Captures : CameraStarts(c) \/ CameraHangs(c) \/ CameraEnds(c) \/ CameraImage(c) \/ LeaderEnds(c)

CameraSpec == CameraInit /\ [][CameraNext]_camera_vars
CameraFair == CameraSpec /\ WF_camera_vars(Callbacks) /\ WF_camera_vars(CameraTick)

-----------------------------------------------------------------------------
(* Properties *)

\* A trigger is answered by at most one image, and by one that was sent after
\* it: nothing of an earlier capture is left to be published.
AnsweredOnceAndFresh ==
  \A i, j \in DOMAIN published :
    /\ published[i].sent = published[i].answers
    /\ i # j => published[i].answers # published[j].answers

\* A capture ends, whether the camera starts, hangs or never delivers.
CaptureEnds == is_capturing ~> ~is_capturing

\* Between captures no camera goes on untold: each one that was started has been
\* sent SIGTERM or has hung, and no `ros2 run' is left while the node spins.
NoCameraUntold ==
  ~is_capturing => \A c \in Captures :
    /\ camera[c] \notin {"starting", "on"}
    /\ spinning => leader[c] \in {"none", "dead"}

\* camera_compressor.py:139-140, "Sometimes the camera process will not die when
\* killing the node. We need to kill it manually": only `ros2 run' is waited for,
\* so a camera that takes its time to shut down, or hangs, outlives its capture.
CameraKilled == spinning /\ ~is_capturing => \A c \in Captures : ~Running(c)

\* A trigger is answered once, by an image sent after it, and when its capture is
\* over its camera has been told to end.
CaptureIsClosed == AnsweredOnceAndFresh /\ NoCameraUntold
=============================================================================

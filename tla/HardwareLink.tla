------------------------------ MODULE HardwareLink ------------------------------
(***************************************************************************)
(* The ros2_control hardware component of the car (ackermann_system.cpp    *)
(* with can_comms.cpp): its life cycle, the read and write of each control *)
(* cycle, the counters that decide when a broken link is an error, and the *)
(* frames of the Tiva controller it reads.                                 *)
(*                                                                         *)
(* controller_manager calls one handler at a time.  A read drains the      *)
(* socket and keeps the last frame of each kind, so the socket is the last *)
(* frame of each kind since the last read.  Wheel speed is in ticks, time  *)
(* in units in which a wheel turns at most one tick; commands are left out *)
(* (write sends whatever the controllers left, after a clamp).             *)
(***************************************************************************)
EXTENDS Integers

CONSTANTS FailureLimit,     \* CAN_WRITE_FAILURE_LIMIT
          CongestionLimit,  \* CAN_WRITE_CONGESTION_LIMIT
          StaleLimit,       \* ENC_STALE_LIMIT_S
          SettleCycles,     \* ACTIVATION_SETTLE_CYCLES
          Samples,          \* IMU_CALIBRATION_SAMPLES
          SeqMod,           \* 2^8: the IMU sequence number wraps there
          SendResults,      \* how a send may end
          TivaSends,        \* what the Tiva sends in an instance
          MaxPeriod,        \* the control loop is never later than that
          MaxBurst,         \* IMU samples between two reads
          MaxTicks,         \* bound: how far a wheel turns
          MaxSamples,       \* bound: IMU samples in all
          MaxSessions       \* bound: activations

ASSUME HardwareLinkAssumption ==
  /\ FailureLimit \in Nat \ {0} /\ CongestionLimit \in Nat \ {0}
  /\ StaleLimit \in Nat \ {0} /\ SettleCycles \in Nat /\ Samples \in Nat \ {0}
  /\ SendResults \subseteq {"ok", "transient", "hard"}
  /\ TivaSends \subseteq {"encoder", "imu"}
  /\ MaxPeriod \in Nat /\ MaxBurst \in Nat
  /\ SeqMod \in Nat \ {0} /\ MaxBurst < SeqMod
  /\ MaxTicks \in Nat /\ MaxSamples \in Nat /\ MaxSessions \in Nat

VARIABLES
  lifecycle,             \* as controller_manager has it
  connected,             \* socket_fd_ >= 0
  can_write_failures,
  can_write_congestion,
  streak,                \* history: write cycles failed since one succeeded
  silent,                \* history: the same, since the last activation at most
  session,               \* history: activations so far
  host_ticks,            \* wheel_l_.enc and .pos
  vel,                   \* wheel_l_.vel, as movement and the time it took
  enc_dt_accum,
  base,                  \* history: the reset host_ticks counts from, or None
  across,                \* history: vel spans a reset of the Tiva's counter
  expected_seq,          \* expected_seq_, or None while seq_initialized_ is not set
  accepted,              \* history: the IMU sample accepted last
  is_imu_calibrating,
  activation_settle_cycles,
  sample_count,          \* imu_calibration_sample_count_
  imu_reads,             \* history: IMU samples read since the last activation
  gyro_z,                \* imu_gyro_[2]: "zero", or "live" when a rate is exported
  steering_pos,          \* steering_.left_pos, .right_pos: "initial" or "measured"
  elapsed,               \* time since the last cycle
  ticks, epoch,          \* the Tiva's counter and the last reset it obeyed
  resets,                \* reset commands on the wire
  imu_sample, imu_next,  \* the Tiva's current IMU sample and its next frame
  burst,                 \* IMU samples since the last read
  enc_frame, accel_frame, gyro_frame  \* in the socket: the last of each kind

hostVars  == <<host_ticks, vel, enc_dt_accum, base, across>>
imuVars   == <<expected_seq, accepted, is_imu_calibrating,
               activation_settle_cycles, sample_count, imu_reads, gyro_z>>
writeVars == <<can_write_failures, can_write_congestion, streak, silent>>
socket    == <<enc_frame, accel_frame, gyro_frame, burst>>
tivaVars  == <<ticks, epoch, resets, imu_sample, imu_next>>
vars == <<lifecycle, connected, writeVars, session, hostVars, imuVars, steering_pos,
          elapsed, tivaVars, socket>>

None == -1
NoFrame == [ticks |-> 0, epoch |-> None]
NoGyro == [sample |-> None, imu_reset |-> FALSE]
Usable == lifecycle \in {"inactive", "active"}

TypeOK ==
  /\ lifecycle \in {"unconfigured", "inactive", "active", "finalized"}
  /\ connected \in BOOLEAN
  /\ can_write_failures \in Nat /\ can_write_congestion \in Nat
  /\ streak \in Nat /\ silent \in Nat /\ session \in Nat
  /\ host_ticks \in Nat /\ vel \in [moved : Int, during : Nat]
  /\ enc_dt_accum \in Nat /\ base \in Int /\ across \in BOOLEAN
  /\ expected_seq \in Int /\ accepted \in Int
  /\ is_imu_calibrating \in BOOLEAN /\ activation_settle_cycles \in Nat
  /\ sample_count \in Nat /\ imu_reads \in Nat
  /\ gyro_z \in {"zero", "live"} /\ steering_pos \in {"initial", "measured"}
  /\ elapsed \in Nat
  /\ ticks \in Nat /\ epoch \in Nat /\ resets \subseteq Nat
  /\ imu_sample \in Nat /\ imu_next \in {"accel", "gyro"} /\ burst \in Nat
  /\ enc_frame \in [ticks : Nat, epoch : Int]
  /\ accel_frame \in Int
  /\ gyro_frame \in [sample : Int, imu_reset : BOOLEAN]

Init ==
  /\ lifecycle = "unconfigured" /\ connected = FALSE
  /\ can_write_failures = 0 /\ can_write_congestion = 0
  /\ streak = 0 /\ silent = 0 /\ session = 0
  /\ host_ticks = 0 /\ vel = [moved |-> 0, during |-> 0]
  /\ enc_dt_accum = 0 /\ base = None /\ across = FALSE
  /\ expected_seq = None /\ accepted = None
  /\ is_imu_calibrating = TRUE /\ activation_settle_cycles = 0
  /\ sample_count = 0 /\ imu_reads = 0 /\ gyro_z = "zero"
  /\ steering_pos = "initial"
  /\ elapsed = 0 /\ ticks \in 0..MaxTicks /\ epoch = 0 /\ resets = {}
  /\ imu_sample = 0 /\ imu_next = "accel" /\ burst = 0
  /\ enc_frame = NoFrame /\ accel_frame = None /\ gyro_frame = NoGyro

\* Every read drains the socket; closing it loses what was in it.
Drained ==
  enc_frame' = NoFrame /\ accel_frame' = None /\ gyro_frame' = NoGyro /\ burst' = 0

Opened == connected' = TRUE /\ Drained

Closed == connected' = FALSE /\ Drained

\* The reset command goes out, or the send fails.
ResetSent(k) == \E result \in SendResults :
  resets' = IF result = "ok" THEN resets \cup {k} ELSE resets

\* Where controller_manager leaves a component whose read or write failed: out
\* of service, for good or until it is activated again.
Fails == lifecycle' \in {"unconfigured", "inactive", "finalized"}
-----------------------------------------------------------------------------
(* Life cycle *)

\* on_configure closes a socket that is still open and opens a new one.
Configure ==
  /\ lifecycle = "unconfigured"
  /\ \/ Opened /\ lifecycle' = "inactive"
     \/ Closed /\ lifecycle' \in {"unconfigured", "finalized"}
  /\ UNCHANGED <<writeVars, session, hostVars, imuVars, steering_pos, elapsed,
                 tivaVars>>

Cleanup ==
  /\ lifecycle = "inactive"
  /\ lifecycle' = "unconfigured" /\ Closed
  /\ UNCHANGED <<writeVars, session, hostVars, imuVars, steering_pos, elapsed,
                 tivaVars>>

\* Mutant: the settle window is not started anew.
StartCalibration_Unsettled ==
  /\ is_imu_calibrating' = TRUE /\ sample_count' = 0 /\ imu_reads' = 0
  /\ UNCHANGED <<activation_settle_cycles, expected_seq, accepted, gyro_z>>

StartCalibration ==
  /\ is_imu_calibrating' = TRUE /\ sample_count' = 0 /\ imu_reads' = 0
  /\ activation_settle_cycles' = SettleCycles
  /\ UNCHANGED <<expected_seq, accepted, gyro_z>>

\* on_activate: ask the Tiva to zero its counter, count from zero here, centre
\* the steering.  Nobody looks at how the sends ended, nor at the write counters.
Activate ==
  /\ lifecycle = "inactive" /\ connected /\ session < MaxSessions
  /\ lifecycle' = "active" /\ session' = session + 1
  /\ ResetSent(session + 1)
  /\ host_ticks' = 0 /\ vel' = [moved |-> 0, during |-> 0] /\ enc_dt_accum' = 0
  /\ base' = session + 1 /\ across' = FALSE
  /\ StartCalibration
  /\ silent' = 0
  /\ UNCHANGED <<connected, can_write_failures, can_write_congestion, streak,
                 steering_pos, elapsed, ticks, epoch, imu_sample, imu_next, socket>>

\* on_deactivate sends a stop and does not look at how the send ended.
Deactivate ==
  /\ lifecycle = "active"
  /\ lifecycle' = "inactive"
  /\ UNCHANGED <<connected, writeVars, session, hostVars, imuVars, steering_pos,
                 elapsed, tivaVars, socket>>

-----------------------------------------------------------------------------
(* read: usable components have a socket (SocketInv), so the branch        *)
(* that tests for none is never taken.                                     *)

Seq8(sample) == sample % SeqMod

\* Mutant: the two halves are not compared.
PairMatches_Any == accel_frame # None /\ gyro_frame # NoGyro

\* Both halves of an IMU sample, with the same sequence number.
PairMatches ==
  /\ accel_frame # None /\ gyro_frame # NoGyro
  /\ Seq8(accel_frame) = Seq8(gyro_frame.sample)

\* status.imu: the number has moved since the last sample taken.
ImuValid == PairMatches /\ Seq8(accel_frame) # expected_seq

\* Mutant: the number is not remembered.
Remember_Never == UNCHANGED expected_seq

Remember == expected_seq' = Seq8(accel_frame)

Calibrate ==
  \/ /\ activation_settle_cycles > 0
     /\ activation_settle_cycles' = activation_settle_cycles - 1
     /\ UNCHANGED <<is_imu_calibrating, sample_count>>
  \/ /\ activation_settle_cycles = 0 /\ ~gyro_frame.imu_reset
     /\ sample_count' = sample_count + 1
     /\ is_imu_calibrating' = (sample_count + 1 < Samples)
     /\ UNCHANGED activation_settle_cycles
  \/ /\ activation_settle_cycles = 0 /\ gyro_frame.imu_reset
     /\ UNCHANGED <<is_imu_calibrating, sample_count, activation_settle_cycles>>

\* imu_reads is counted no further than a calibration takes.
TakeSample ==
  /\ Remember
  /\ accepted' = accel_frame
  /\ imu_reads' = IF imu_reads < SettleCycles + Samples THEN imu_reads + 1
                                                        ELSE imu_reads
  /\ IF is_imu_calibrating
     THEN Calibrate
     ELSE UNCHANGED <<is_imu_calibrating, sample_count, activation_settle_cycles>>
  /\ gyro_z' = IF is_imu_calibrating \/ gyro_frame.imu_reset THEN "zero" ELSE "live"

ReadImu == IF ImuValid THEN TakeSample ELSE UNCHANGED imuVars

Age == enc_dt_accum + elapsed

\* Mutant: a missed frame does not age the next.
NextAge_Forgets == elapsed

\* The age is counted no further than the limit, from which on every read without
\* a frame is an error; on_activate starts it anew.
NextAge == IF Age < StaleLimit THEN Age ELSE StaleLimit

\* A frame came: the movement since the last one, over the time since then.
\* Two cycles at the same instant leave the velocity alone.
UseEncoder ==
  /\ host_ticks' = enc_frame.ticks /\ base' = enc_frame.epoch
  /\ enc_dt_accum' = 0
  /\ IF Age > 0
     THEN /\ vel' = [moved |-> enc_frame.ticks - host_ticks, during |-> Age]
          /\ across' = (base # enc_frame.epoch)
     ELSE UNCHANGED <<vel, across>>
  /\ UNCHANGED lifecycle

\* None came: hold the last values, for so long.
MissEncoder ==
  /\ enc_dt_accum' = NextAge
  /\ UNCHANGED <<host_ticks, vel, base, across>>
  /\ IF Age >= StaleLimit THEN Fails ELSE UNCHANGED lifecycle

\* A steering angle is taken over unless the pot reports a fault.
Read ==
  /\ Usable /\ connected
  /\ ReadImu
  /\ IF enc_frame # NoFrame THEN UseEncoder ELSE MissEncoder
  /\ steering_pos' \in {steering_pos, "measured"}
  /\ elapsed' = 0
  /\ Drained
  /\ UNCHANGED <<connected, writeVars, session, tivaVars>>

-----------------------------------------------------------------------------
(* write: two sends, steering then motors, whatever becomes of the first   *)

CycleFails == streak' = streak + 1 /\ silent' = silent + 1

\* Mutant: a cycle that succeeds does not reset the counter.
WriteSucceeds_KeepsCount ==
  /\ can_write_congestion' = 0 /\ UNCHANGED can_write_failures
  /\ streak' = 0 /\ silent' = 0
  /\ UNCHANGED lifecycle

WriteSucceeds ==
  /\ can_write_failures' = 0 /\ can_write_congestion' = 0
  /\ streak' = 0 /\ silent' = 0
  /\ UNCHANGED lifecycle

\* The transmit queue is full.
WriteCongested ==
  /\ can_write_failures' = 0
  /\ can_write_congestion' = can_write_congestion + 1
  /\ CycleFails
  /\ IF can_write_congestion + 1 >= CongestionLimit THEN Fails ELSE UNCHANGED lifecycle

\* Mutant: the limit of the other counter.
WriteFails_Congestion ==
  /\ can_write_failures' = can_write_failures + 1
  /\ UNCHANGED can_write_congestion
  /\ CycleFails
  /\ IF can_write_failures + 1 >= FailureLimit * CongestionLimit
     THEN Fails ELSE UNCHANGED lifecycle

WriteFails ==
  /\ can_write_failures' = can_write_failures + 1
  /\ UNCHANGED can_write_congestion
  /\ CycleFails
  /\ IF can_write_failures + 1 >= FailureLimit THEN Fails ELSE UNCHANGED lifecycle

\* set_steering, set_motor_values: a full queue or a signal is transient.
Delivered(result) == result = "ok"

Transient(result) == result = "transient"

\* last_write_transient_ is set by every send, also by one that succeeds: write
\* sees what the motor command left there.
Write(steering, motors) ==
  /\ lifecycle = "active" /\ connected
  /\ \/ Delivered(steering) /\ Delivered(motors) /\ WriteSucceeds
     \/ Transient(motors) /\ WriteCongested
     \/ ~Transient(motors) /\ ~(Delivered(steering) /\ Delivered(motors)) /\ WriteFails
  /\ UNCHANGED <<connected, session, hostVars, imuVars, steering_pos, elapsed,
                 tivaVars, socket>>

-----------------------------------------------------------------------------
(* The Tiva, the bus and the clock *)

Elapse ==
  /\ elapsed < MaxPeriod
  /\ elapsed' = elapsed + 1
  /\ ticks' \in {ticks, ticks + 1} /\ ticks' <= MaxTicks
  /\ UNCHANGED <<lifecycle, connected, writeVars, session, hostVars, imuVars,
                 steering_pos, epoch, resets, imu_sample, imu_next, socket>>

\* A cycle of the control loop without this component.
CycleWithout ==
  /\ ~Usable
  /\ elapsed' = 0
  /\ UNCHANGED <<lifecycle, connected, writeVars, session, hostVars, imuVars,
                 steering_pos, tivaVars, socket>>

ResetArrives(k) ==
  /\ k \in resets
  /\ resets' = resets \ {k}
  /\ \/ ticks' = 0 /\ epoch' = k
     \/ UNCHANGED <<ticks, epoch>>  \* it is lost
  /\ UNCHANGED <<lifecycle, connected, writeVars, session, hostVars, imuVars,
                 steering_pos, elapsed, imu_sample, imu_next, socket>>

\* What reaches a socket nobody reads goes with it in the next on_configure.
EncoderSent ==
  /\ Usable /\ "encoder" \in TivaSends
  /\ enc_frame' = [ticks |-> ticks, epoch |-> epoch]
  /\ UNCHANGED <<lifecycle, connected, writeVars, session, hostVars, imuVars,
                 steering_pos, elapsed, tivaVars, accel_frame, gyro_frame, burst>>

\* The IMU's sample is a new one or, when the sensor is frozen, the last again.
AccelSent ==
  /\ imu_next = "accel" /\ "imu" \in TivaSends
  /\ imu_next' = "gyro"
  /\ imu_sample' \in {imu_sample, imu_sample + 1} /\ imu_sample' <= MaxSamples
  /\ burst' = burst + (IF Usable THEN imu_sample' - imu_sample ELSE 0)
  /\ burst' <= MaxBurst
  /\ \/ UNCHANGED accel_frame
     \/ Usable /\ accel_frame' = imu_sample'
  /\ UNCHANGED <<lifecycle, connected, writeVars, session, hostVars, imuVars,
                 steering_pos, elapsed, ticks, epoch, resets, enc_frame, gyro_frame>>

GyroSent ==
  /\ imu_next = "gyro"
  /\ imu_next' = "accel"
  /\ \/ UNCHANGED gyro_frame
     \/ /\ Usable
        /\ \E b \in BOOLEAN : gyro_frame' = [sample |-> imu_sample, imu_reset |-> b]
  /\ UNCHANGED <<lifecycle, connected, writeVars, session, hostVars, imuVars,
                 steering_pos, elapsed, ticks, epoch, resets, imu_sample, enc_frame,
                 accel_frame, burst>>

-----------------------------------------------------------------------------
Manager ==
  \/ Configure \/ Cleanup \/ Activate \/ Deactivate \/ Read \/ CycleWithout
  \/ \E steering, motors \in SendResults : Write(steering, motors)

Surroundings ==
  \/ Elapse \/ EncoderSent \/ AccelSent \/ GyroSent
  \/ \E k \in resets : ResetArrives(k)

Next == Manager \/ Surroundings

Spec == Init /\ [][Next]_vars

-----------------------------------------------------------------------------
(* A write is an error only after a run of failed cycles as long as one of *)
(* the limits, over deactivations and errors in between: an isolated lost  *)
(* command never takes the car out of service.                             *)
WriteErrorMeansStreak ==
  [][streak' > streak /\ lifecycle' # lifecycle
       => streak' >= FailureLimit \/ streak' >= CongestionLimit]_vars

(* Commands never get lost unnoticed for longer than the two limits allow  *)
(* together, however the two kinds of failure are mixed.                   *)
SilenceBounded == lifecycle = "active" => silent < FailureLimit * CongestionLimit

(* The two counters, against what was really lost.                         *)
FailuresCounted == []SilenceBounded /\ WriteErrorMeansStreak

(* Over missed frames and late cycles, a velocity an active component      *)
(* takes between two frames of the same count is one the wheel can turn:   *)
(* it is never more ticks than the time it is taken over, and the age its  *)
(* first frame may have had.                                               *)
NoFalseSpeed ==
  lifecycle = "active" /\ ~across => vel.moved \in 0..(vel.during + MaxPeriod)

(* A matching pair is one sample, although the number wraps and frames of  *)
(* either half are lost.                                                   *)
PairIsOneSample == PairMatches => accel_frame = gyro_frame.sample

(* A sample is taken if and only if it is new, short of a gap of a whole   *)
(* turn of the number.                                                     *)
NewSampleTaken ==
  PairMatches /\ accel_frame - accepted < SeqMod =>
    (ImuValid <=> accel_frame # accepted)

(* What is read of the IMU are its samples, each of them once.             *)
EachSampleOnce == PairIsOneSample /\ NewSampleTaken

(* The gyro bias of an active component comes from samples read after the  *)
(* settle window of this activation, and from a full set of them.          *)
BiasFromSettled ==
  lifecycle = "active" =>
    /\ sample_count > 0 => sample_count + SettleCycles <= imu_reads
    /\ ~is_imu_calibrating => sample_count = Samples

\* What makes these inductive.
SocketInv ==
  /\ Usable => connected
  /\ enc_frame # NoFrame => enc_frame.epoch <= session
  /\ base <= session /\ epoch <= session /\ \A k \in resets : k <= session
-----------------------------------------------------------------------------
(* What comments say and the code does not do.                             *)

\* ackermann_system.cpp:285: zeroing both sides "keeps host and Tiva
\* consistent": no reading after an activation is an impossible speed.
HostAndTivaConsistent ==
  lifecycle = "active" => vel.moved \in 0..(vel.during + MaxPeriod)

\* ackermann_system.hpp:143: a momentarily full queue "is not a broken link and
\* must not be counted against the 5-cycle bus-off limit".
CongestionRiddenOut ==
  [][streak' > streak /\ "hard" \notin SendResults /\ lifecycle' # lifecycle
       => streak' >= CongestionLimit]_vars

\* ackermann_system.cpp:504: "Enforce strict 0 to prevent drift in EKF during
\* setup": what an active component exports after a read.
GyroStillDuringSetup ==
  [][Read /\ lifecycle = "active" /\ is_imu_calibrating => gyro_z' = "zero"]_vars
=================================================================================

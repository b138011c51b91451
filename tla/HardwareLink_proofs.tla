-------------------------- MODULE HardwareLink_proofs --------------------------
(***************************************************************************)
(* What the hardware component promises, for all limits, numbers of        *)
(* samples and moduli, and without a bound on ticks, samples or sessions.  *)
(* Each part of the invariant is about one device, and its proof           *)
(* uses SocketInv and the types only.                                      *)
(***************************************************************************)
EXTENDS HardwareLink, TLAPS

\* What the write counters know of the cycles that failed.  A component may be
\* activated with a counter at its limit, hence the last two lines.
CountInv ==
  /\ can_write_failures <= streak /\ can_write_congestion <= streak
  /\ lifecycle = "active" =>
       /\ silent <= FailureLimit * can_write_congestion + can_write_failures
       /\ silent > 0 => can_write_failures < FailureLimit
       /\ can_write_congestion >= CongestionLimit => silent <= can_write_failures

\* A count the host may still be behind the Tiva by.
Lag == enc_dt_accum + elapsed + MaxPeriod

\* A reset that is on its way has not been seen by anybody; what the host took
\* last and what is in the socket are behind the Tiva by no more than the time
\* since, as long as they count from the same reset.
EncoderInv ==
  /\ elapsed <= MaxPeriod
  /\ epoch \notin resets
  /\ enc_frame # NoFrame => enc_frame.epoch \notin resets
  /\ base \in resets => host_ticks = 0
  /\ Usable /\ enc_frame # NoFrame /\ enc_frame.epoch = epoch =>
       ticks \in enc_frame.ticks..(enc_frame.ticks + elapsed)
  /\ lifecycle = "active" =>
       /\ base = epoch => ticks \in host_ticks..(host_ticks + Lag)
       /\ enc_frame # NoFrame /\ enc_frame.epoch = base =>
            enc_frame.ticks \in host_ticks..(host_ticks + Lag)

\* The oldest sample a frame in a socket that is read can be of.
Oldest == imu_sample - burst

Near(a, b) == a <= b + MaxBurst /\ b <= a + MaxBurst

\* The frame of each half in the socket was sampled since the last read, if it
\* can still be read, and what was accepted is older.
FramesRecent ==
  /\ accel_frame # None => accel_frame \in Oldest..imu_sample
  /\ gyro_frame # NoGyro => gyro_frame.sample \in Oldest..imu_sample

FramesClose ==
  /\ accel_frame # None => accel_frame >= 0 /\ accel_frame >= accepted
  /\ gyro_frame # NoGyro => gyro_frame.sample >= 0
  /\ accel_frame # None /\ gyro_frame # NoGyro => Near(accel_frame, gyro_frame.sample)

ImuInv ==
  /\ burst <= MaxBurst /\ Oldest >= 0
  /\ accepted <= Oldest
  /\ expected_seq = IF accepted = None THEN None ELSE Seq8(accepted)
  /\ accepted = None \/ accepted \in Nat
  /\ Usable => FramesRecent
  /\ FramesClose

\* Settled cycles and samples are all reads of this activation.
BiasInv ==
  lifecycle = "active" =>
    /\ activation_settle_cycles <= SettleCycles
    /\ (SettleCycles - activation_settle_cycles) + sample_count <= imu_reads
    /\ sample_count > 0 => activation_settle_cycles = 0
    /\ IF is_imu_calibrating THEN sample_count < Samples ELSE sample_count = Samples
    /\ imu_reads <= SettleCycles + Samples

IInv == TypeOK /\ SocketInv /\ CountInv /\ EncoderInv /\ ImuInv /\ BiasInv /\ NoFalseSpeed

-----------------------------------------------------------------------------
(* Types.                                                                  *)

LEMMA ConstantsTyped ==
  /\ FailureLimit \in Nat /\ FailureLimit > 0
  /\ CongestionLimit \in Nat /\ CongestionLimit > 0
  /\ StaleLimit \in Nat /\ SettleCycles \in Nat
  /\ Samples \in Nat /\ Samples > 0
  /\ SeqMod \in Nat /\ SeqMod > 0 /\ MaxBurst \in Nat /\ MaxBurst < SeqMod
  /\ MaxPeriod \in Nat /\ MaxSessions \in Nat
BY HardwareLinkAssumption

LEMMA SeqTyped ==
  ASSUME NEW sample \in Int
  PROVE  Seq8(sample) \in 0..(SeqMod - 1)
BY ConstantsTyped DEF Seq8

LEMMA NothingTyped ==
  /\ None \in Int /\ None < 0
  /\ NoFrame \in [ticks : Nat, epoch : Int] /\ NoFrame.epoch = None /\ NoFrame.ticks = 0
  /\ NoGyro \in [sample : Int, imu_reset : BOOLEAN] /\ NoGyro.sample = None
BY DEF None, NoFrame, NoGyro

\* Every handler leaves the socket as it is or empties it.
LEMMA DrainedTyped ==
  ASSUME Drained
  PROVE  /\ enc_frame' = NoFrame /\ accel_frame' = None /\ gyro_frame' = NoGyro /\ burst' = 0
         /\ enc_frame' \in [ticks : Nat, epoch : Int] /\ accel_frame' \in Int
         /\ gyro_frame' \in [sample : Int, imu_reset : BOOLEAN] /\ burst' \in Nat
BY NothingTyped DEF Drained

LEMMA InitType == Init => TypeOK /\ SocketInv
<1> SUFFICES ASSUME Init PROVE TypeOK /\ SocketInv
  OBVIOUS
<1>1. vel \in [moved : Int, during : Nat] /\ ticks \in Nat
  BY ConstantsTyped DEF Init
<1>2. TypeOK
  BY <1>1, ConstantsTyped, NothingTyped DEF Init, TypeOK
<1>3. SocketInv
  BY NothingTyped DEF Init, SocketInv, Usable
<1> QED
  BY <1>2, <1>3

LEMMA ReadImuTyped ==
  ASSUME TypeOK, ReadImu
  PROVE  /\ expected_seq' \in Int /\ accepted' \in Int
         /\ is_imu_calibrating' \in BOOLEAN /\ activation_settle_cycles' \in Nat
         /\ sample_count' \in Nat /\ imu_reads' \in Nat
         /\ gyro_z' \in {"zero", "live"}
<1>1. CASE ~ImuValid
  BY <1>1 DEF ReadImu, TypeOK, imuVars
<1>2. CASE ImuValid
  <2>1. TakeSample
    BY <1>2 DEF ReadImu
  <2>2. accel_frame \in Int /\ Seq8(accel_frame) \in Int
    BY SeqTyped DEF TypeOK
  <2>3. expected_seq' \in Int /\ accepted' \in Int /\ imu_reads' \in Nat
    BY <2>1, <2>2 DEF TakeSample, Remember, TypeOK
  <2>4. gyro_z' \in {"zero", "live"}
    BY <2>1 DEF TakeSample
  <2>5. /\ is_imu_calibrating' \in BOOLEAN /\ activation_settle_cycles' \in Nat
        /\ sample_count' \in Nat
    BY <2>1 DEF TakeSample, Calibrate, TypeOK
  <2> QED
    BY <2>3, <2>4, <2>5
<1> QED
  BY <1>1, <1>2

LEMMA ReadEncoderTyped ==
  ASSUME TypeOK, IF enc_frame # NoFrame THEN UseEncoder ELSE MissEncoder
  PROVE  /\ host_ticks' \in Nat /\ vel' \in [moved : Int, during : Nat]
         /\ enc_dt_accum' \in Nat /\ base' \in Int /\ across' \in BOOLEAN
         /\ lifecycle' = lifecycle \/ Fails
<1> USE ConstantsTyped DEF TypeOK
<1>1. CASE enc_frame # NoFrame
  <2>1. UseEncoder
    BY <1>1
  <2>2. host_ticks' \in Nat /\ enc_dt_accum' \in Nat /\ base' \in Int /\ lifecycle' = lifecycle
    BY <2>1 DEF UseEncoder
  <2>3. vel' \in [moved : Int, during : Nat]
    BY <2>1 DEF UseEncoder, Age
  <2>4. across' \in BOOLEAN
    BY <2>1 DEF UseEncoder
  <2> QED
    BY <2>2, <2>3, <2>4
<1>2. CASE ~(enc_frame # NoFrame)
  <2>1. MissEncoder
    BY <1>2
  <2> QED
    BY <2>1 DEF MissEncoder, NextAge, Age
<1> QED
  BY <1>1, <1>2

LEMMA WriteCases ==
  ASSUME NEW steering \in SendResults, NEW motors \in SendResults, Write(steering, motors)
  PROVE  /\ lifecycle = "active" /\ connected
         /\ WriteSucceeds \/ WriteCongested \/ WriteFails
         /\ UNCHANGED <<connected, session, hostVars, imuVars, steering_pos, elapsed,
                        tivaVars, socket>>
BY DEF Write

\* The burst is the samples taken since the last read.
LEMMA BurstGrows ==
  ASSUME TypeOK, AccelSent
  PROVE  /\ imu_sample' \in Nat /\ imu_sample' >= imu_sample /\ burst' \in Nat
         /\ Usable => burst' = burst + (imu_sample' - imu_sample)
         /\ ~Usable => burst' = burst
<1>1. imu_sample' \in Nat /\ imu_sample' >= imu_sample /\ imu_sample \in Nat /\ burst \in Nat
  BY DEF AccelSent, TypeOK
<1>2. /\ Usable => burst' = burst + (imu_sample' - imu_sample)
      /\ ~Usable => burst' = burst + 0
  BY DEF AccelSent
<1>3. Usable \/ ~Usable
  OBVIOUS
<1> QED
  BY <1>1, <1>2, <1>3

LEMMA TypeStep ==
  ASSUME TypeOK, [Next]_vars
  PROVE  TypeOK'
<1> USE ConstantsTyped DEF TypeOK, hostVars, imuVars, writeVars, tivaVars, socket
<1>1. CASE Configure
  BY <1>1, DrainedTyped DEF Configure, Opened, Closed
<1>2. CASE Cleanup
  BY <1>2, DrainedTyped DEF Cleanup, Closed
<1>3. CASE Activate
  <2>1. resets' \subseteq Nat
    BY <1>3 DEF Activate, ResetSent
  <2>2. vel' \in [moved : Int, during : Nat]
    BY <1>3 DEF Activate
  <2>3. session' \in Nat /\ base' \in Int
    BY <1>3 DEF Activate
  <2>4. /\ is_imu_calibrating' = TRUE /\ sample_count' = 0 /\ imu_reads' = 0
        /\ activation_settle_cycles' = SettleCycles
        /\ UNCHANGED <<expected_seq, accepted, gyro_z>>
    BY <1>3 DEF Activate, StartCalibration
  <2> QED
    BY <1>3, <2>1, <2>2, <2>3, <2>4 DEF Activate
<1>4. CASE Deactivate
  BY <1>4 DEF Deactivate
<1>5. CASE Read
  <2>1. ReadImu /\ (IF enc_frame # NoFrame THEN UseEncoder ELSE MissEncoder)
    BY <1>5 DEF Read
  <2>2. steering_pos' \in {"initial", "measured"} /\ elapsed' \in Nat
    BY <1>5 DEF Read
  <2>3. lifecycle' \in {"unconfigured", "inactive", "active", "finalized"}
    BY <2>1, ReadEncoderTyped DEF Fails
  <2>4. /\ UNCHANGED <<connected, writeVars, session, tivaVars>>
        /\ Drained
    BY <1>5 DEF Read
  <2> QED
    BY <2>1, <2>2, <2>3, <2>4, DrainedTyped, ReadEncoderTyped, ReadImuTyped
<1>6. CASE CycleWithout
  BY <1>6 DEF CycleWithout
<1>7. ASSUME NEW steering \in SendResults, NEW motors \in SendResults, Write(steering, motors)
      PROVE  TypeOK'
  <2>1. /\ WriteSucceeds \/ WriteCongested \/ WriteFails
        /\ UNCHANGED <<connected, session, hostVars, imuVars, steering_pos, elapsed,
                       tivaVars, socket>>
    BY <1>7, WriteCases
  <2>2. /\ can_write_failures' \in Nat /\ can_write_congestion' \in Nat
        /\ streak' \in Nat /\ silent' \in Nat
    BY <2>1 DEF WriteSucceeds, WriteCongested, WriteFails, CycleFails
  <2>3. lifecycle' \in {"unconfigured", "inactive", "active", "finalized"}
    BY <2>1 DEF WriteSucceeds, WriteCongested, WriteFails, Fails
  <2> QED
    BY <2>1, <2>2, <2>3
<1>8. CASE Elapse
  BY <1>8 DEF Elapse
<1>9. CASE EncoderSent
  <2>1. enc_frame' \in [ticks : Nat, epoch : Int]
    BY <1>9 DEF EncoderSent
  <2> QED
    BY <1>9, <2>1 DEF EncoderSent
<1>10. CASE AccelSent
  <2>1. imu_sample' \in Nat /\ imu_sample' >= imu_sample
    BY <1>10 DEF AccelSent
  <2>2. burst' \in Nat
    BY <1>10, BurstGrows
  <2>3. accel_frame' \in Int
    BY <1>10, <2>1 DEF AccelSent
  <2> QED
    BY <1>10, <2>1, <2>2, <2>3 DEF AccelSent
<1>11. CASE GyroSent
  <2>1. gyro_frame' \in [sample : Int, imu_reset : BOOLEAN]
    BY <1>11 DEF GyroSent
  <2> QED
    BY <1>11, <2>1 DEF GyroSent
<1>12. ASSUME NEW k \in resets, ResetArrives(k)
       PROVE  TypeOK'
  BY <1>12 DEF ResetArrives
<1>13. CASE UNCHANGED vars
  BY <1>13 DEF vars
<1> QED
  BY <1>1, <1>2, <1>3, <1>4, <1>5, <1>6, <1>7, <1>8, <1>9, <1>10, <1>11, <1>12, <1>13
     DEF Next, Manager, Surroundings

LEMMA SocketStep ==
  ASSUME TypeOK, SocketInv, [Next]_vars
  PROVE  SocketInv'
<1> USE DEF TypeOK, SocketInv, Usable, hostVars, imuVars, writeVars, tivaVars, socket
<1>1. CASE Configure
  BY <1>1 DEF Configure, Opened, Closed, Drained
<1>2. CASE Cleanup
  BY <1>2 DEF Cleanup, Closed, Drained
<1>3. CASE Activate
  BY <1>3 DEF Activate, ResetSent
<1>4. CASE Deactivate
  BY <1>4 DEF Deactivate
<1>5. CASE Read
  <2>1. base' <= session'
    BY <1>5 DEF Read, UseEncoder, MissEncoder
  <2>2. Usable' => connected'
    BY <1>5 DEF Read
  <2> QED
    BY <1>5, <2>1, <2>2 DEF Read, Drained
<1>6. CASE CycleWithout
  BY <1>6 DEF CycleWithout
<1>7. ASSUME NEW steering \in SendResults, NEW motors \in SendResults, Write(steering, motors)
      PROVE  SocketInv'
  BY <1>7, WriteCases
<1>8. CASE Elapse
  BY <1>8 DEF Elapse
<1>9. CASE EncoderSent
  BY <1>9 DEF EncoderSent
<1>10. CASE AccelSent \/ GyroSent
  BY <1>10 DEF AccelSent, GyroSent
<1>12. ASSUME NEW k \in resets, ResetArrives(k)
       PROVE  SocketInv'
  BY <1>12 DEF ResetArrives
<1>13. CASE UNCHANGED vars
  BY <1>13 DEF vars
<1> QED
  BY <1>1, <1>2, <1>3, <1>4, <1>5, <1>6, <1>7, <1>8, <1>9, <1>10, <1>12, <1>13
     DEF Next, Manager, Surroundings

-----------------------------------------------------------------------------
(* The write counters.                                                     *)

\* A cycle that fails leaves the counters where they were or moves one of them
\* on; at a limit it takes the component out of service.
LEMMA CountStep ==
  ASSUME TypeOK, CountInv, [Next]_vars
  PROVE  CountInv'
<1> USE ConstantsTyped DEF TypeOK, CountInv, writeVars
<1>1. CASE UNCHANGED <<writeVars, lifecycle>>
  BY <1>1
<1>2. ASSUME UNCHANGED writeVars, lifecycle' # "active"
      PROVE  CountInv'
  BY <1>2
<1>3. CASE Activate
  <2>1. silent' = 0 /\ UNCHANGED <<can_write_failures, can_write_congestion, streak>>
    BY <1>3 DEF Activate
  <2>2. FailureLimit * can_write_congestion \in Nat
    OBVIOUS
  <2> QED
    BY <2>1, <2>2
<1>4. CASE WriteSucceeds
  <2>1. FailureLimit * 0 = 0
    OBVIOUS
  <2> QED
    BY <1>4, <2>1 DEF WriteSucceeds
<1>5. CASE WriteCongested /\ lifecycle = "active"
  <2>1. /\ can_write_failures' = 0 /\ can_write_congestion' = can_write_congestion + 1
        /\ streak' = streak + 1 /\ silent' = silent + 1
    BY <1>5 DEF WriteCongested, CycleFails
  <2>2. lifecycle' = "active" => can_write_congestion + 1 < CongestionLimit
    BY <1>5 DEF WriteCongested, Fails
  <2>3. /\ FailureLimit * (can_write_congestion + 1)
             = FailureLimit * can_write_congestion + FailureLimit
        /\ FailureLimit * can_write_congestion \in Nat
    OBVIOUS
  <2>4. silent + 1 <= FailureLimit * can_write_congestion + FailureLimit
    BY <1>5, <2>3
  <2> QED
    BY <2>1, <2>2, <2>3, <2>4
<1>6. CASE WriteFails /\ lifecycle = "active"
  <2>1. /\ can_write_failures' = can_write_failures + 1
        /\ can_write_congestion' = can_write_congestion
        /\ streak' = streak + 1 /\ silent' = silent + 1
    BY <1>6 DEF WriteFails, CycleFails
  <2>2. lifecycle' = "active" => can_write_failures + 1 < FailureLimit
    BY <1>6 DEF WriteFails, Fails
  <2>3. FailureLimit * can_write_congestion \in Nat
    OBVIOUS
  <2> QED
    BY <1>6, <2>1, <2>2, <2>3
<1>7. ASSUME NEW steering \in SendResults, NEW motors \in SendResults, Write(steering, motors)
      PROVE  CountInv'
  BY <1>4, <1>5, <1>6, <1>7, WriteCases
<1>8. CASE Configure \/ Cleanup \/ Deactivate
  BY <1>2, <1>8 DEF Configure, Cleanup, Deactivate
<1>9. CASE Read
  <2>1. UNCHANGED writeVars /\ (lifecycle' = lifecycle \/ lifecycle' # "active")
    BY <1>9 DEF Read, UseEncoder, MissEncoder, Fails
  <2> QED
    BY <1>1, <1>2, <2>1
<1>10. CASE CycleWithout \/ Elapse \/ EncoderSent \/ AccelSent \/ GyroSent
            \/ \E k \in resets : ResetArrives(k)
  BY <1>1, <1>10 DEF CycleWithout, Elapse, EncoderSent, AccelSent, GyroSent, ResetArrives
<1>11. CASE UNCHANGED vars
  BY <1>1, <1>11 DEF vars
<1> QED
  BY <1>3, <1>7, <1>8, <1>9, <1>10, <1>11 DEF Next, Manager, Surroundings

\* Below the congestion limit every congested cycle stands for at most
\* FailureLimit lost ones; at it, silence has not begun again.
LEMMA CountBounds ==
  ASSUME TypeOK, CountInv
  PROVE  SilenceBounded
<1> USE ConstantsTyped DEF TypeOK, CountInv
<1> SUFFICES ASSUME lifecycle = "active" PROVE silent < FailureLimit * CongestionLimit
  BY DEF SilenceBounded
<1>1. FailureLimit * CongestionLimit >= FailureLimit
  <2>1. \A c, k \in Nat : k > 0 => c * k >= c
    <3>1. SUFFICES ASSUME NEW c \in Nat, NEW k \in Nat, k > 0 PROVE c * k >= c
      OBVIOUS
    <3>2. c * k = c * (k - 1) + c /\ c * (k - 1) \in Nat
      BY <3>1
    <3> QED
      BY <3>1, <3>2
  <2> QED
    BY <2>1
<1>2. CASE can_write_congestion >= CongestionLimit
  BY <1>1, <1>2
<1>3. CASE can_write_congestion < CongestionLimit
  <2> DEFINE d == CongestionLimit - 1 - can_write_congestion
  <2>1. d \in Nat /\ FailureLimit * d \in Nat
    BY <1>3
  <2>2. FailureLimit * CongestionLimit
          = FailureLimit * can_write_congestion + FailureLimit + FailureLimit * d
    OBVIOUS
  <2>3. silent <= FailureLimit * can_write_congestion + can_write_failures
    OBVIOUS
  <2>4. FailureLimit * can_write_congestion \in Nat /\ FailureLimit * CongestionLimit \in Nat
    OBVIOUS
  <2>5. CASE silent = 0
    BY <1>1, <2>4, <2>5
  <2>6. CASE silent > 0
    BY <2>1, <2>2, <2>3, <2>4, <2>6
  <2> QED
    BY <2>5, <2>6
<1> QED
  BY <1>2, <1>3

\* The counters are behind the cycles that really failed.
LEMMA ErrorStep ==
  ASSUME TypeOK, CountInv, [Next]_vars, streak' > streak, lifecycle' # lifecycle
  PROVE  streak' >= FailureLimit \/ streak' >= CongestionLimit
<1> USE ConstantsTyped DEF TypeOK, CountInv, writeVars
<1>1. streak' # streak
  OBVIOUS
<1>2. CASE WriteCongested
  BY <1>2 DEF WriteCongested, CycleFails
<1>3. CASE WriteFails
  BY <1>3 DEF WriteFails, CycleFails
<1>4. CASE WriteSucceeds
  BY <1>4 DEF WriteSucceeds
<1>5. ASSUME NEW steering \in SendResults, NEW motors \in SendResults, Write(steering, motors)
      PROVE  WriteCongested \/ WriteFails \/ WriteSucceeds
  BY <1>5, WriteCases
<1> QED
  BY <1>1, <1>2, <1>3, <1>4, <1>5
     DEF Next, Manager, Surroundings, Configure, Cleanup, Activate, Deactivate, Read,
         CycleWithout, Elapse, EncoderSent, AccelSent, GyroSent, ResetArrives, vars

-----------------------------------------------------------------------------
(* The wheel's speed.                                                      *)

\* Counts, ages and resets as they were, and no new claim about them.
LEMMA EncoderKept ==
  ASSUME EncoderInv, NoFalseSpeed,
         UNCHANGED <<hostVars, elapsed, ticks, epoch, resets>>,
         enc_frame' \in {enc_frame, NoFrame},
         Usable' => Usable, lifecycle' = "active" => lifecycle = "active"
  PROVE  EncoderInv' /\ NoFalseSpeed'
<1> USE DEF hostVars
<1>1. Lag' = Lag
  BY DEF Lag
<1>2. NoFalseSpeed'
  BY DEF NoFalseSpeed
<1> QED
  BY <1>1, <1>2 DEF EncoderInv

\* A read takes over the frame there is, or lets the age grow.
LEMMA EncoderRead ==
  ASSUME TypeOK, EncoderInv, NoFalseSpeed, Read
  PROVE  EncoderInv' /\ NoFalseSpeed'
<1> USE ConstantsTyped DEF TypeOK
<1>1. /\ elapsed' = 0 /\ enc_frame' = NoFrame /\ Usable
      /\ UNCHANGED <<ticks, epoch, resets>>
      /\ enc_frame # NoFrame => UseEncoder
      /\ enc_frame = NoFrame => MissEncoder
  BY DEF Read, Drained, tivaVars
<1>2. CASE enc_frame # NoFrame
  <2>1. /\ host_ticks' = enc_frame.ticks /\ base' = enc_frame.epoch /\ enc_dt_accum' = 0
        /\ lifecycle' = lifecycle
    BY <1>1, <1>2 DEF UseEncoder
  <2>2. enc_frame.ticks \in Nat /\ enc_frame.epoch \in Int
    OBVIOUS
  <2>3. Lag' = MaxPeriod
    BY <1>1, <2>1 DEF Lag
  <2>4. lifecycle' = "active" /\ base' = epoch' => ticks' \in host_ticks'..(host_ticks' + Lag')
    BY <1>1, <1>2, <2>1, <2>2, <2>3 DEF EncoderInv
  <2>5. EncoderInv'
    BY <1>1, <1>2, <2>1, <2>4 DEF EncoderInv
  <2>6. NoFalseSpeed'
    <3>1. CASE Age > 0
      <4>1. vel'.moved = enc_frame.ticks - host_ticks /\ vel'.during = Age
            /\ across' = (base # enc_frame.epoch)
        BY <1>1, <1>2, <3>1 DEF UseEncoder
      <4>2. Age \in Nat /\ Lag = Age + MaxPeriod
        BY DEF Age, Lag
      <4>3. lifecycle = "active" /\ base = enc_frame.epoch =>
              enc_frame.ticks \in host_ticks..(host_ticks + Lag)
        BY <1>2 DEF EncoderInv
      <4>4. lifecycle = "active" /\ base = enc_frame.epoch =>
              enc_frame.ticks - host_ticks \in 0..(Age + MaxPeriod)
        BY <2>2, <4>2, <4>3
      <4> QED
        BY <2>1, <4>1, <4>4 DEF NoFalseSpeed
    <3>2. CASE ~(Age > 0)
      BY <1>1, <1>2, <2>1, <3>2 DEF UseEncoder, NoFalseSpeed
    <3> QED
      BY <3>1, <3>2
  <2> QED
    BY <2>5, <2>6
<1>3. CASE enc_frame = NoFrame
  <2>1. UNCHANGED <<host_ticks, vel, base, across>> /\ enc_dt_accum' = NextAge
    BY <1>1, <1>3 DEF MissEncoder
  <2>2. lifecycle' = "active" => lifecycle = "active" /\ Age < StaleLimit
    BY <1>1, <1>3 DEF MissEncoder, Fails, Age
  <2>3. lifecycle' = "active" => Lag' = Lag
    BY <1>1, <2>1, <2>2 DEF NextAge, Age, Lag
  <2>4. EncoderInv'
    BY <1>1, <2>1, <2>2, <2>3 DEF EncoderInv
  <2>5. NoFalseSpeed'
    BY <2>1, <2>2 DEF NoFalseSpeed
  <2> QED
    BY <2>4, <2>5
<1> QED
  BY <1>2, <1>3

\* An activation counts from a reset nobody has seen yet.
LEMMA EncoderActivate ==
  ASSUME TypeOK, SocketInv, EncoderInv, Activate
  PROVE  EncoderInv' /\ NoFalseSpeed'
<1> USE ConstantsTyped DEF TypeOK
<1>1. /\ lifecycle = "inactive" /\ lifecycle' = "active"
      /\ resets' \subseteq resets \cup {session + 1}
      /\ base' = session + 1 /\ host_ticks' = 0 /\ vel' = [moved |-> 0, during |-> 0]
      /\ UNCHANGED <<elapsed, ticks, epoch, enc_frame>>
  BY DEF Activate, ResetSent, socket
<1>2. session + 1 # epoch /\ (enc_frame # NoFrame => enc_frame.epoch # session + 1)
  BY DEF SocketInv
<1>3. EncoderInv'
  BY <1>1, <1>2 DEF EncoderInv, Usable
<1>4. NoFalseSpeed'
  <2>1. vel'.moved = 0 /\ vel'.during = 0
    BY <1>1
  <2> QED
    BY <2>1 DEF NoFalseSpeed
<1> QED
  BY <1>3, <1>4

LEMMA EncoderStep ==
  ASSUME TypeOK, SocketInv, EncoderInv, NoFalseSpeed, [Next]_vars
  PROVE  EncoderInv' /\ NoFalseSpeed'
<1> USE ConstantsTyped
<1>1. CASE Configure \/ Cleanup
  <2>1. /\ UNCHANGED <<hostVars, elapsed, ticks, epoch, resets>>
        /\ enc_frame' = NoFrame /\ lifecycle' # "active"
    BY <1>1 DEF Configure, Cleanup, Opened, Closed, Drained, tivaVars
  <2> QED
    BY <2>1 DEF EncoderInv, NoFalseSpeed, hostVars
<1>2. CASE Activate
  BY <1>2, EncoderActivate
<1>3. CASE Deactivate
  BY <1>3, EncoderKept DEF Deactivate, tivaVars, socket, Usable
<1>4. CASE Read
  BY <1>4, EncoderRead
<1>5. CASE CycleWithout
  <2>1. /\ UNCHANGED <<hostVars, ticks, epoch, resets, enc_frame, lifecycle>>
        /\ elapsed' = 0 /\ ~Usable /\ lifecycle # "active"
    BY <1>5 DEF CycleWithout, tivaVars, socket, Usable
  <2> QED
    BY <2>1 DEF EncoderInv, NoFalseSpeed, hostVars, Usable
<1>6. ASSUME NEW steering \in SendResults, NEW motors \in SendResults, Write(steering, motors)
      PROVE  EncoderInv' /\ NoFalseSpeed'
  <2>1. /\ UNCHANGED <<hostVars, elapsed, ticks, epoch, resets, enc_frame>>
        /\ lifecycle = "active"
    BY <1>6, WriteCases DEF tivaVars, socket
  <2> QED
    BY <2>1, EncoderKept DEF Usable
<1>7. CASE Elapse
  <2> USE DEF TypeOK
  <2>1. /\ elapsed' = elapsed + 1 /\ elapsed' <= MaxPeriod
        /\ ticks' \in {ticks, ticks + 1}
        /\ UNCHANGED <<hostVars, epoch, resets, enc_frame, lifecycle>>
    BY <1>7 DEF Elapse, socket
  <2>2. Lag' = Lag + 1
    BY <2>1 DEF Lag, hostVars
  <2>3. Usable' = Usable
    BY <2>1 DEF Usable
  <2>4. Lag \in Nat
    BY DEF Lag
  <2>5. enc_frame.ticks \in Nat
    OBVIOUS
  <2>6. NoFalseSpeed'
    BY <2>1 DEF NoFalseSpeed, hostVars
  <2>7. EncoderInv'
    BY <2>1, <2>2, <2>3, <2>4, <2>5 DEF EncoderInv, hostVars
  <2> QED
    BY <2>6, <2>7
<1>8. CASE EncoderSent
  <2> USE DEF TypeOK
  <2>1. /\ enc_frame'.ticks = ticks /\ enc_frame'.epoch = epoch
        /\ UNCHANGED <<hostVars, elapsed, ticks, epoch, resets, lifecycle>>
    BY <1>8 DEF EncoderSent, tivaVars
  <2>2. Lag' = Lag
    BY <2>1 DEF Lag, hostVars
  <2>3. NoFalseSpeed'
    BY <2>1 DEF NoFalseSpeed, hostVars
  <2>4. EncoderInv'
    BY <2>1, <2>2 DEF EncoderInv, hostVars
  <2> QED
    BY <2>3, <2>4
<1>9. CASE AccelSent \/ GyroSent
  BY <1>9, EncoderKept DEF AccelSent, GyroSent, Usable
<1>10. ASSUME NEW k \in resets, ResetArrives(k)
       PROVE  EncoderInv' /\ NoFalseSpeed'
  <2> USE DEF TypeOK
  <2>1. /\ resets' = resets \ {k}
        /\ UNCHANGED <<hostVars, elapsed, enc_frame, lifecycle>>
        /\ \/ ticks' = 0 /\ epoch' = k
           \/ UNCHANGED <<ticks, epoch>>
    BY <1>10 DEF ResetArrives, socket
  <2>2. Lag' = Lag /\ Lag \in Nat /\ Usable' = Usable
    BY <2>1 DEF Lag, hostVars, Usable
  <2>3. NoFalseSpeed'
    BY <2>1 DEF NoFalseSpeed, hostVars
  <2>4. EncoderInv'
    BY <1>10, <2>1, <2>2 DEF EncoderInv, hostVars
  <2> QED
    BY <2>3, <2>4
<1>11. CASE UNCHANGED vars
  BY <1>11, EncoderKept DEF vars, tivaVars, socket, Usable
<1> QED
  BY <1>1, <1>2, <1>3, <1>4, <1>5, <1>6, <1>7, <1>8, <1>9, <1>10, <1>11
     DEF Next, Manager, Surroundings

-----------------------------------------------------------------------------
(* The IMU's samples.                                                      *)

LEMMA OldestTyped ==
  ASSUME TypeOK
  PROVE  Oldest \in Int /\ Oldest <= imu_sample /\ imu_sample = Oldest + burst
BY DEF TypeOK, Oldest

LEMMA NearWithin ==
  \A a, b, n \in Nat, o \in Int :
    a \in o..n /\ b \in o..n /\ n - o <= MaxBurst => Near(a, b)
BY ConstantsTyped DEF Near

\* Frames sampled since the last read are close to one another.
LEMMA RecentAreClose ==
  ASSUME TypeOK, FramesRecent, burst <= MaxBurst, Oldest >= 0, accepted <= Oldest
  PROVE  FramesClose
<1>1. /\ gyro_frame.sample \in Int /\ accel_frame \in Int /\ accepted \in Int
      /\ imu_sample \in Nat /\ burst \in Nat
  BY DEF TypeOK
<1>2. Oldest \in Int /\ imu_sample - Oldest <= MaxBurst
  BY <1>1, OldestTyped, ConstantsTyped
<1>3. accel_frame # None => accel_frame \in Nat /\ accel_frame >= accepted
  BY <1>1, <1>2 DEF FramesRecent
<1>4. gyro_frame # NoGyro => gyro_frame.sample \in Nat
  BY <1>1, <1>2 DEF FramesRecent
<1>5. accel_frame # None /\ gyro_frame # NoGyro => Near(accel_frame, gyro_frame.sample)
  BY <1>1, <1>2, <1>3, <1>4, NearWithin DEF FramesRecent
<1> QED
  BY <1>3, <1>4, <1>5 DEF FramesClose

LEMMA RecentLater ==
  (TypeOK /\ FramesRecent /\ burst <= MaxBurst /\ Oldest >= 0 /\ accepted <= Oldest)'
    => FramesClose'
<1>1. TypeOK /\ FramesRecent /\ burst <= MaxBurst /\ Oldest >= 0 /\ accepted <= Oldest
        => FramesClose
  BY RecentAreClose
<1> QED
  BY <1>1, PTL

LEMMA ImuKept ==
  ASSUME ImuInv, UNCHANGED <<expected_seq, accepted, imu_sample, socket>>, Usable' => Usable
  PROVE  ImuInv'
<1>1. Oldest' = Oldest
  BY DEF Oldest, socket
<1> QED
  BY <1>1 DEF ImuInv, FramesRecent, FramesClose, socket

\* A socket that is drained leaves what was accepted behind the Tiva.
LEMMA ImuDrained ==
  ASSUME TypeOK, ImuInv, Drained, UNCHANGED <<expected_seq, accepted, imu_sample>>
  PROVE  ImuInv'
<1>1. FramesRecent' /\ FramesClose'
  BY DEF Drained, FramesRecent, FramesClose
<1>2. Oldest' = imu_sample
  BY DEF TypeOK, Drained, Oldest
<1>3. imu_sample >= 0 /\ accepted <= imu_sample
  BY OldestTyped DEF TypeOK, ImuInv
<1> QED
  BY <1>1, <1>2, <1>3, ConstantsTyped DEF ImuInv, Drained

LEMMA ImuRead ==
  ASSUME TypeOK, ImuInv, Read
  PROVE  ImuInv'
<1>1. Drained /\ ReadImu /\ Usable /\ imu_sample' = imu_sample
  BY DEF Read, tivaVars
<1>2. CASE ImuValid
  <2>1. TakeSample /\ accel_frame # None
    BY <1>1, <1>2 DEF ReadImu, ImuValid, PairMatches
  <2>2. accepted' = accel_frame /\ expected_seq' = Seq8(accel_frame)
    BY <2>1 DEF TakeSample, Remember
  <2>3. accel_frame \in Nat /\ accel_frame <= imu_sample
    BY <1>1, <2>1, OldestTyped DEF TypeOK, ImuInv, FramesRecent
  <2>4. accepted' # None
    BY <2>2, <2>3, NothingTyped
  <2>5. FramesRecent' /\ FramesClose'
    BY <1>1 DEF Drained, FramesRecent, FramesClose
  <2>6. Oldest' = imu_sample /\ burst' = 0 /\ imu_sample >= 0
    BY <1>1 DEF TypeOK, Drained, Oldest
  <2> QED
    BY <2>2, <2>3, <2>4, <2>5, <2>6, ConstantsTyped DEF ImuInv
<1>3. CASE ~ImuValid
  BY <1>1, <1>3, ImuDrained DEF ReadImu, imuVars
<1> QED
  BY <1>2, <1>3

LEMMA ImuAccelSent ==
  ASSUME TypeOK, ImuInv, AccelSent
  PROVE  ImuInv'
<1>1. /\ UNCHANGED <<expected_seq, accepted, gyro_frame, lifecycle>> /\ burst' <= MaxBurst
      /\ accel_frame' = accel_frame \/ (Usable /\ accel_frame' = imu_sample')
      /\ Usable' = Usable
  BY DEF AccelSent, imuVars, Usable
<1>2. /\ gyro_frame.sample \in Int /\ imu_sample \in Nat /\ burst \in Nat /\ accepted \in Int
      /\ accel_frame \in Int
  BY DEF TypeOK
<1>3. imu_sample' \in Nat /\ imu_sample' >= imu_sample /\ burst' \in Nat
  BY BurstGrows
<1>4. ASSUME Oldest' \in Int, Oldest' >= Oldest PROVE Oldest' >= 0 /\ accepted' <= Oldest'
  BY <1>1, <1>2, <1>4, OldestTyped DEF ImuInv
<1>5. CASE Usable
  <2>1. burst' = burst + (imu_sample' - imu_sample)
    BY <1>5, BurstGrows
  <2>2. Oldest' = Oldest
    <3> DEFINE n == imu_sample'
               b == burst'
    <3>1. n \in Nat /\ b \in Nat /\ b = burst + (n - imu_sample)
      BY <1>3, <2>1
    <3>2. Oldest' = n - b
      BY DEF Oldest
    <3> HIDE DEF n, b
    <3>3. n - b = imu_sample - burst
      BY <1>2, <3>1
    <3> QED
      BY <3>2, <3>3 DEF Oldest
  <2>3. Oldest' >= 0 /\ accepted' <= Oldest'
    BY <1>4, <2>2, OldestTyped
  <2>4. Oldest <= imu_sample' /\ Oldest \in Int
    BY <1>2, <1>3, OldestTyped
  <2>5. FramesRecent'
    BY <1>1, <1>2, <1>3, <1>5, <2>2, <2>4 DEF ImuInv, FramesRecent
  <2>6. TypeOK'
    BY TypeStep DEF Next, Surroundings
  <2>7. FramesClose'
    BY <1>1, <2>3, <2>5, <2>6, RecentLater
  <2> QED
    BY <1>1, <2>3, <2>5, <2>7 DEF ImuInv
<1>6. CASE ~Usable
  <2>1. burst' = burst
    BY <1>6, BurstGrows
  <2>2. Oldest' \in Int /\ Oldest' >= Oldest
    <3> DEFINE n == imu_sample'
    <3>1. n \in Nat /\ n >= imu_sample
      BY <1>3
    <3>2. Oldest' = n - burst
      BY <2>1 DEF Oldest
    <3> HIDE DEF n
    <3>3. n - burst \in Int /\ n - burst >= imu_sample - burst
      BY <1>2, <3>1
    <3> QED
      BY <3>2, <3>3 DEF Oldest
  <2>3. FramesClose'
    BY <1>1, <1>6 DEF ImuInv, FramesClose
  <2> QED
    BY <1>1, <1>4, <1>6, <2>2, <2>3 DEF ImuInv
<1> QED
  BY <1>5, <1>6

LEMMA ImuGyroSent ==
  ASSUME TypeOK, ImuInv, GyroSent
  PROVE  ImuInv'
<1> USE ConstantsTyped DEF TypeOK
<1>1. /\ UNCHANGED <<expected_seq, accepted, imu_sample, accel_frame, burst, lifecycle>>
      /\ gyro_frame' = gyro_frame \/ (Usable /\ gyro_frame'.sample = imu_sample)
      /\ Usable' = Usable
  BY DEF GyroSent, imuVars, Usable
<1>2. CASE gyro_frame' = gyro_frame
  BY <1>1, <1>2 DEF ImuInv, FramesRecent, FramesClose, Oldest
<1>3. CASE Usable /\ gyro_frame'.sample = imu_sample
  <2>1. Oldest' = Oldest
    BY <1>1 DEF Oldest
  <2>2. FramesRecent'
    BY <1>1, <1>3, <2>1, OldestTyped DEF ImuInv, FramesRecent
  <2>3. TypeOK'
    BY TypeStep DEF Next, Surroundings
  <2>4. (burst <= MaxBurst)' /\ (Oldest >= 0)' /\ (accepted <= Oldest)'
    BY <1>1, <2>1 DEF ImuInv
  <2>5. FramesClose'
    BY <2>2, <2>3, <2>4, RecentLater
  <2> QED
    BY <1>1, <2>2, <2>4, <2>5 DEF ImuInv
<1> QED
  BY <1>1, <1>2, <1>3

LEMMA ImuStep ==
  ASSUME TypeOK, ImuInv, [Next]_vars
  PROVE  ImuInv'
<1>1. CASE Configure \/ Cleanup
  BY <1>1, ImuDrained DEF Configure, Cleanup, Opened, Closed, imuVars, tivaVars
<1>2. CASE Activate \/ Deactivate
  BY <1>2, ImuKept DEF Activate, StartCalibration, Deactivate, imuVars, tivaVars, Usable
<1>3. CASE Read
  BY <1>3, ImuRead
<1>4. CASE CycleWithout \/ Elapse \/ EncoderSent \/ \E k \in resets : ResetArrives(k)
  <2>1. UNCHANGED <<expected_seq, accepted, imu_sample, accel_frame, gyro_frame, burst, lifecycle>>
    BY <1>4 DEF CycleWithout, Elapse, EncoderSent, ResetArrives, imuVars, tivaVars, socket
  <2> QED
    BY <2>1 DEF ImuInv, FramesRecent, FramesClose, Oldest, Usable
<1>5. ASSUME NEW steering \in SendResults, NEW motors \in SendResults, Write(steering, motors)
      PROVE  ImuInv'
  <2>1. UNCHANGED <<expected_seq, accepted, imu_sample, socket>> /\ Usable
    BY <1>5, WriteCases DEF imuVars, tivaVars, Usable
  <2> QED
    BY <2>1, ImuKept
<1>6. CASE AccelSent
  BY <1>6, ImuAccelSent
<1>7. CASE GyroSent
  BY <1>7, ImuGyroSent
<1>8. CASE UNCHANGED vars
  BY <1>8, ImuKept DEF vars, imuVars, tivaVars, Usable
<1> QED
  BY <1>1, <1>2, <1>3, <1>4, <1>5, <1>6, <1>7, <1>8 DEF Next, Manager, Surroundings

\* Less than a turn of the number apart, samples with the same number are one.
LEMMA SameNumber ==
  ASSUME NEW a \in Nat, NEW b \in Nat, a - b < SeqMod, b - a < SeqMod
  PROVE  Seq8(a) = Seq8(b) <=> a = b
<1> DEFINE p == a \div SeqMod
           q == b \div SeqMod
<1>1. SeqMod \in Nat /\ SeqMod > 0
  BY ConstantsTyped
<1>2. /\ p \in Nat /\ q \in Nat
      /\ a = SeqMod * p + (a % SeqMod) /\ b = SeqMod * q + (b % SeqMod)
  BY <1>1
<1>3. SeqMod * p \in Int /\ SeqMod * q \in Int /\ a % SeqMod \in Int
  BY <1>1, <1>2
<1> HIDE DEF p, q
<1>4. ASSUME a % SeqMod = b % SeqMod PROVE a = b
  <2>1. SeqMod * p - SeqMod * q < SeqMod /\ SeqMod * q - SeqMod * p < SeqMod
    BY <1>1, <1>2, <1>3, <1>4
  <2>2. ASSUME p >= q + 1 PROVE FALSE
    <3>1. SeqMod * p >= SeqMod * (q + 1)
      BY <1>1, <1>2, <2>2
    <3> QED
      BY <1>1, <1>2, <2>1, <3>1
  <2>3. ASSUME q >= p + 1 PROVE FALSE
    <3>1. SeqMod * q >= SeqMod * (p + 1)
      BY <1>1, <1>2, <2>3
    <3> QED
      BY <1>1, <1>2, <2>1, <3>1
  <2>4. p = q
    BY <1>2, <2>2, <2>3
  <2> QED
    BY <1>2, <1>4, <2>4
<1> QED
  BY <1>4 DEF Seq8

LEMMA ImuBounds ==
  ASSUME TypeOK, ImuInv
  PROVE  EachSampleOnce
<1> USE ConstantsTyped DEF TypeOK
<1>1. ASSUME PairMatches PROVE accel_frame = gyro_frame.sample
  <2>1. /\ accel_frame \in Nat /\ gyro_frame.sample \in Nat
        /\ accel_frame - gyro_frame.sample < SeqMod
        /\ gyro_frame.sample - accel_frame < SeqMod
    BY <1>1 DEF PairMatches, ImuInv, FramesClose, Near
  <2> QED
    BY <1>1, <2>1, SameNumber DEF PairMatches
<1>2. ASSUME PairMatches, accel_frame - accepted < SeqMod
      PROVE  ImuValid <=> accel_frame # accepted
  <2>1. accel_frame \in Nat /\ accel_frame >= accepted
    BY <1>2 DEF PairMatches, ImuInv, FramesClose
  <2>2. CASE accepted = None
    <3>1. expected_seq = None /\ accel_frame # accepted
      BY <2>1, <2>2, NothingTyped DEF ImuInv
    <3>2. Seq8(accel_frame) # None
      BY <2>1, SeqTyped, NothingTyped
    <3> QED
      BY <1>2, <3>1, <3>2 DEF ImuValid
  <2>3. CASE accepted # None
    <3>1. accepted \in Nat /\ expected_seq = Seq8(accepted)
      BY <2>3 DEF ImuInv
    <3>2. Seq8(accel_frame) = Seq8(accepted) <=> accel_frame = accepted
      BY <1>2, <2>1, <3>1, SameNumber
    <3> QED
      BY <1>2, <3>1, <3>2 DEF ImuValid
  <2> QED
    BY <2>2, <2>3
<1> QED
  BY <1>1, <1>2 DEF EachSampleOnce, PairIsOneSample, NewSampleTaken

-----------------------------------------------------------------------------
(* The gyro bias.                                                          *)

LEMMA BiasKept ==
  ASSUME BiasInv, lifecycle' = "active" => lifecycle = "active",
         UNCHANGED <<activation_settle_cycles, sample_count, is_imu_calibrating, imu_reads>>
  PROVE  BiasInv'
BY DEF BiasInv

\* A sample settles, counts or is passed over; one that is read is counted.
LEMMA BiasTaken ==
  ASSUME TypeOK, BiasInv, lifecycle = "active", TakeSample
  PROVE  BiasInv'
<1>1. /\ activation_settle_cycles \in Nat /\ sample_count \in Nat /\ imu_reads \in Nat
      /\ is_imu_calibrating \in BOOLEAN
  BY DEF TypeOK
<1>2. /\ activation_settle_cycles <= SettleCycles
      /\ (SettleCycles - activation_settle_cycles) + sample_count <= imu_reads
      /\ sample_count > 0 => activation_settle_cycles = 0
      /\ is_imu_calibrating => sample_count < Samples
      /\ ~is_imu_calibrating => sample_count = Samples
      /\ imu_reads <= SettleCycles + Samples
  BY DEF BiasInv
<1>3. /\ imu_reads' \in Nat /\ imu_reads' >= imu_reads
      /\ imu_reads' <= SettleCycles + Samples
      /\ imu_reads < SettleCycles + Samples => imu_reads' = imu_reads + 1
  BY <1>1, <1>2, ConstantsTyped DEF TakeSample
<1>4. CASE UNCHANGED <<activation_settle_cycles, is_imu_calibrating, sample_count>>
  BY <1>1, <1>2, <1>3, <1>4, ConstantsTyped DEF BiasInv
<1>5. CASE /\ activation_settle_cycles > 0
           /\ activation_settle_cycles' = activation_settle_cycles - 1
           /\ UNCHANGED <<is_imu_calibrating, sample_count>>
  <2>1. sample_count = 0
    BY <1>1, <1>2, <1>5
  <2>2. (SettleCycles - activation_settle_cycles') + sample_count' <= imu_reads'
    BY <1>1, <1>2, <1>3, <1>5, <2>1, ConstantsTyped
  <2> QED
    BY <1>1, <1>2, <1>3, <1>5, <2>1, <2>2, ConstantsTyped DEF BiasInv
<1>6. CASE /\ activation_settle_cycles = 0 /\ is_imu_calibrating
           /\ sample_count' = sample_count + 1
           /\ is_imu_calibrating' = (sample_count + 1 < Samples)
           /\ UNCHANGED activation_settle_cycles
  <2>1. sample_count + 1 <= Samples
    BY <1>1, <1>2, <1>6, ConstantsTyped
  <2>2. (SettleCycles - activation_settle_cycles') + sample_count' <= imu_reads'
    BY <1>1, <1>2, <1>3, <1>6, <2>1, ConstantsTyped
  <2>3. IF is_imu_calibrating' THEN sample_count' < Samples ELSE sample_count' = Samples
    <3>1. CASE sample_count + 1 < Samples
      BY <1>6, <3>1
    <3>2. CASE ~(sample_count + 1 < Samples)
      <4>1. sample_count + 1 = Samples
        BY <1>1, <2>1, <3>2, ConstantsTyped
      <4> QED
        BY <1>6, <3>2, <4>1
    <3> QED
      BY <3>1, <3>2
  <2> QED
    BY <1>1, <1>2, <1>3, <1>6, <2>2, <2>3 DEF BiasInv
<1> QED
  BY <1>4, <1>5, <1>6 DEF TakeSample, Calibrate

LEMMA BiasStep ==
  ASSUME TypeOK, BiasInv, [Next]_vars
  PROVE  BiasInv'
<1>1. CASE Configure \/ Cleanup \/ Deactivate
  BY <1>1 DEF Configure, Cleanup, Deactivate, BiasInv
<1>2. CASE Activate
  BY <1>2, ConstantsTyped DEF Activate, StartCalibration, BiasInv
<1>3. CASE Read
  <2>1. ReadImu /\ (lifecycle' = "active" => lifecycle = "active")
    BY <1>3 DEF Read, UseEncoder, MissEncoder, Fails
  <2>2. CASE lifecycle' = "active" /\ ImuValid
    BY <2>1, <2>2, BiasTaken DEF ReadImu
  <2>3. CASE ~ImuValid
    BY <2>1, <2>3, BiasKept DEF ReadImu, imuVars
  <2>4. CASE lifecycle' # "active"
    BY <2>4 DEF BiasInv
  <2> QED
    BY <2>2, <2>3, <2>4
<1>4. CASE CycleWithout \/ Elapse \/ EncoderSent \/ AccelSent \/ GyroSent
           \/ \E k \in resets : ResetArrives(k)
  <2>1. /\ UNCHANGED <<activation_settle_cycles, sample_count, is_imu_calibrating, imu_reads>>
        /\ UNCHANGED lifecycle
    BY <1>4 DEF CycleWithout, Elapse, EncoderSent, AccelSent, GyroSent, ResetArrives, imuVars
  <2> QED
    BY <2>1, BiasKept
<1>5. ASSUME NEW steering \in SendResults, NEW motors \in SendResults, Write(steering, motors)
      PROVE  BiasInv'
  BY <1>5, WriteCases, BiasKept DEF imuVars
<1>6. CASE UNCHANGED vars
  BY <1>6, BiasKept DEF vars, imuVars
<1> QED
  BY <1>1, <1>2, <1>3, <1>4, <1>5, <1>6 DEF Next, Manager, Surroundings

-----------------------------------------------------------------------------
(* The theorems.                                                           *)

LEMMA InitIInv == Init => IInv
<1> SUFFICES ASSUME Init PROVE IInv
  OBVIOUS
<1>1. TypeOK /\ SocketInv
  BY InitType
<1>2. CountInv /\ BiasInv /\ NoFalseSpeed
  BY DEF Init, CountInv, BiasInv, NoFalseSpeed
<1>3. EncoderInv
  BY ConstantsTyped, NothingTyped DEF Init, EncoderInv
<1>4. ImuInv
  BY ConstantsTyped, NothingTyped DEF Init, ImuInv, FramesRecent, FramesClose, Oldest
<1> QED
  BY <1>1, <1>2, <1>3, <1>4 DEF IInv

LEMMA StepIInv == IInv /\ [Next]_vars => IInv'
BY TypeStep, SocketStep, CountStep, EncoderStep, ImuStep, BiasStep DEF IInv

LEMMA Invariance == Spec => []IInv
BY InitIInv, StepIInv, PTL DEF Spec

\* Every variable keeps its type, however long the component runs.
THEOREM TypeCorrect == Spec => []TypeOK
<1>1. IInv => TypeOK
  BY DEF IInv
<1> QED
  BY <1>1, Invariance, PTL

\* For all limits: write reports an error only after a run of failed cycles as long as
\* one of them, and an active component has never been silent for as many
\* cycles as their product.
THEOREM FailuresAreCounted == Spec => FailuresCounted
<1>1. IInv => SilenceBounded
  BY CountBounds DEF IInv
<1>2. IInv /\ [Next]_vars =>
        [streak' > streak /\ lifecycle' # lifecycle
           => streak' >= FailureLimit \/ streak' >= CongestionLimit]_vars
  BY ErrorStep DEF IInv
<1> QED
  BY <1>1, <1>2, Invariance, PTL DEF Spec, FailuresCounted, WriteErrorMeansStreak

\* For every stale limit and every lateness of the loop: between two frames of the same
\* count the velocity is one the wheel can turn, also when resets are late or lost.
THEOREM SpeedIsTrue == Spec => []NoFalseSpeed
<1>1. IInv => NoFalseSpeed
  BY DEF IInv
<1> QED
  BY <1>1, Invariance, PTL

\* For every modulus above the number of samples between two reads: a matching pair is
\* one sample, and it is taken if and only if it is new.
THEOREM SamplesTakenOnce == Spec => []EachSampleOnce
<1>1. IInv => EachSampleOnce
  BY ImuBounds DEF IInv
<1> QED
  BY <1>1, Invariance, PTL

\* For every settle window and every size of the calibration: the bias comes from samples
\* after the window of this activation.
THEOREM BiasIsSettled == Spec => []BiasFromSettled
<1>1. IInv => BiasFromSettled
  BY ConstantsTyped DEF IInv, TypeOK, BiasInv, BiasFromSettled
<1> QED
  BY <1>1, Invariance, PTL
================================================================================

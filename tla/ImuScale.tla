------------------------------- MODULE ImuScale -------------------------------
(***************************************************************************)
(* imu_scale.py: the yaw rate of the gyro, less a bias that is the mean of *)
(* the first samples, times k.  They are those of the broadcaster; the     *)
(* vehicle may be moving or parked at each of them.                        *)
(***************************************************************************)
EXTENDS Integers, Sequences, SequencesExt

CONSTANTS Window,     \* bias_samples
          K,          \* k
          Offset,     \* the rate the gyro reports at rest
          Rates,      \* yaw rates of the vehicle, 0 when parked
          MaxSamples  \* bound

ASSUME ImuScaleAssumption ==
  /\ {Window, K, MaxSamples} \subseteq Nat \ {0} /\ Offset \in Int
  /\ Rates \subseteq Int /\ 0 \in Rates

VARIABLES acc, cnt,  \* _bias_acc, _bias_cnt
          bias,      \* [known, sum]: the bias is sum / Window
          corrected, \* Window times the rate published last
          truth,     \* the yaw rate of the vehicle at that sample
          parked,    \* it stood still in every sample of the window
          taken      \* samples

imu_vars == <<acc, cnt, bias, corrected, truth, parked, taken>>

\* The callback.  A sample in the window is published with its bias; the sample
\* that ends the window as well.
Calibrate(z) ==
  /\ ~bias.known
  /\ acc' = acc + z /\ cnt' = cnt + 1
  /\ bias' = IF cnt' >= Window THEN [known |-> TRUE, sum |-> acc'] ELSE bias
  /\ corrected' = Window * z * K

\* Mutant: the rate is scaled before the bias is taken off.
Corrected_ScaledFirst(z) == Window * z * K - bias.sum
Corrected(z) == (Window * z - bias.sum) * K

Correct(z) ==
  /\ bias.known /\ corrected' = Corrected(z)
  /\ UNCHANGED <<acc, cnt, bias>>

ImuSample(rate) ==
  /\ taken < MaxSamples /\ taken' = taken + 1
  /\ truth' = rate
  /\ parked' = (parked /\ (bias.known \/ rate = 0))
  /\ Calibrate(rate + Offset) \/ Correct(rate + Offset)

ImuInit ==
  /\ acc = 0 /\ cnt = 0 /\ bias = [known |-> FALSE, sum |-> 0]
  /\ corrected = 0 /\ truth = 0 /\ parked = TRUE /\ taken = 0

ImuNext == \E rate \in Rates : ImuSample(rate)
ImuSpec == ImuInit /\ [][ImuNext]_imu_vars

-----------------------------------------------------------------------------
(* Properties *)

\* After a window at rest the published rate is k times that of the vehicle.
BiasRemoved ==
  taken > Window /\ parked => corrected = Window * K * truth

\* imu_scale.py:68-71, "robot.launch.py brings this node up with imu_broadcaster
\* at controller_manager start, i.e. while the vehicle is still parked, so the
\* window is stationary by construction".
WindowIsStationary == bias.known => parked
=============================================================================

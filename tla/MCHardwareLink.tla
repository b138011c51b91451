---------------------------- MODULE MCHardwareLink ----------------------------
(***************************************************************************)
(* Three instances of the hardware component in one run: in each of them   *)
(* one of its devices does everything it may, and the others rest.         *)
(***************************************************************************)
EXTENDS HardwareLink

VARIABLE device

mc_vars == <<vars, device>>

\* The encoder and the loop's clock, the IMU, and the bus it writes to.
ClockRests == elapsed' = 0 /\ enc_frame' = NoFrame
ImuRests   == imu_next' = "accel"
BusWorks   == streak' = 0

Rests ==
  /\ device = "bus"     => ClockRests /\ ImuRests
  /\ device = "encoder" => BusWorks /\ ImuRests /\ session' <= 2
  /\ device = "imu"     => BusWorks /\ ClockRests /\ session' <= 2

MCInit == Init /\ device \in {"bus", "encoder", "imu"} /\ (device # "encoder" => ticks = 0)
MCSpec == MCInit /\ [][Next /\ Rests /\ UNCHANGED device]_mc_vars
=============================================================================

--------------------------- MODULE MCDeviceCommand ---------------------------
(***************************************************************************)
(* DeviceCommand on small instances.  Calls are interchangeable: Symmetry  *)
(* is for the runs without liveness properties.                            *)
(***************************************************************************)
EXTENDS DeviceCommand, TLC

CallSymmetry == Permutations(Command)

\* Every call goes to one device; the others are off.
OneDeviceInit ==
  /\ Init
  /\ \A c, e \in Command : input[c].device = input[e].device
  /\ \A d \in Device : OnDevice(d) = {} => ~relay[d]

OneDeviceSpec == OneDeviceInit /\ [][Next]_vars
=============================================================================

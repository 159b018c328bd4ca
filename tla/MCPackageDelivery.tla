-------------------------- MODULE MCPackageDelivery --------------------------
(***************************************************************************)
(* Small instances of PackageDelivery and SupervisedRelease: a delivery    *)
(* among outside actors, among failing commands and crashes, and with a    *)
(* wrapper that dies and leaves its children at work beside the next one;  *)
(* the release alone among all faults, and among more disturbances.        *)
(***************************************************************************)
EXTENDS PackageDelivery, TLC

CONSTANTS r1, r2

Delivery(faults, disturbances) ==
    [live |-> {r1}, wrapped |-> TRUE, installed |-> FALSE, faults |-> faults, disturbances |-> disturbances]
Alone(faults, disturbances) ==
    [live |-> {r1}, wrapped |-> FALSE, installed |-> TRUE, faults |-> faults, disturbances |-> disturbances]

MCEnvironments ==
    {Delivery({"upstream", "developer", "github", "lightweight", "sandbox"}, 1),
     Delivery({"crash", "command"}, 0),
     Delivery({"wrapper"}, 1),
     Alone(FaultKinds \ {"wrapper"}, 1),
     Alone({"github", "upstream", "developer"}, 2)}
==============================================================================

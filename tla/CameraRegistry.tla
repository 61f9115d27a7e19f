---------------------------- MODULE CameraRegistry ----------------------------
(***************************************************************************)
(* What the proxy promises about ports, without descriptors, sockets,      *)
(* events or children: a port is probed at most once, for one camera at a  *)
(* time; from then on it either stands for that camera for as long as the  *)
(* proxy lives, or is given up for good.                                   *)
(***************************************************************************)
CONSTANTS
    Port,
    Camera,
    NoCamera    \* not in Camera (NoCameraAssumption, WorkerProperties.tla)

VARIABLES
    status,     \* how far each port is
    camera      \* the camera it stands for

registryVars == <<status, camera>>

Status == {"free", "probing", "serving", "lost"}

RegistryInit ==
    /\ status = [p \in Port |-> "free"]
    /\ camera = [p \in Port |-> NoCamera]

Claim(p, c) ==
    /\ status[p] = "free"
    /\ \A q \in Port : status[q] # "probing"
    /\ status' = [status EXCEPT ![p] = "probing"]
    /\ camera' = [camera EXCEPT ![p] = c]

Serve(p) ==
    /\ status[p] = "probing"
    /\ status' = [status EXCEPT ![p] = "serving"]
    /\ UNCHANGED camera

Abandon(p) ==
    /\ status[p] = "probing"
    /\ status' = [status EXCEPT ![p] = "lost"]
    /\ camera' = [camera EXCEPT ![p] = NoCamera]

RegistryNext ==
    \E p \in Port : Serve(p) \/ Abandon(p) \/ \E c \in Camera : Claim(p, c)

RegistrySpec == RegistryInit /\ [][RegistryNext]_registryVars

==============================================================================

---------------------------- MODULE MCAgentTools ----------------------------
(***************************************************************************)
(* An instance, for TLC, of what a CLI runs beside the credential core:    *)
(* the configuration of agents (ProjectSetup), the two interactive         *)
(* sign-ins (SignIn, DeviceSignIn), the download of the server             *)
(* (ServerDownload), the write of a store's file (AtomicFile) and the      *)
(* document of the sign-in across generations (MachineStore). They share   *)
(* no state but the machine's login, which ProjectSetup has as             *)
(* LoginChanges. A behaviour is therefore one of one of them, chosen at    *)
(* the start, while the others rest.                                       *)
(***************************************************************************)
EXTENDS ProjectSetup, SignIn, DeviceSignIn, ServerDownload, AtomicFile, MachineStore, TLC

VARIABLE part   \* which of them moves

\* The attempts run in the same product, whose callback path is fixed. An older
\* version may have registered another one.
OnePath == [a \in Attempts |-> "p"]

\* Every file is that of an agent of its own.
AgentFiles == {{f} : f \in Files}

\* The processes of all parts are the same model values, and so are ports, versions
\* and temporary names: only one part moves, and the group stays small.
Symmetry == Permutations(Setups) \cup Permutations(Ports)

toolVars == <<part, vars, signInVars, deviceVars, downloadVars, atomicVars, storeVars>>

\* A part at rest has one initial state.
ToolsInit ==
    /\ part \in {"setup", "signin", "device", "download", "write", "share"}
    /\ Init /\ SignInInit /\ DeviceInit /\ DownloadInit /\ AtomicInit /\ StoreInit
    /\ part # "setup" => login = CHOOSE a \in Accounts : TRUE
    /\ part # "signin" => store = NoValue
    /\ part # "write" => names["target"] = NoFile

SetupMoves ==
    /\ part = "setup" /\ Next
    /\ UNCHANGED <<part, signInVars, deviceVars, downloadVars, atomicVars, storeVars>>
SignInMoves ==
    /\ part = "signin" /\ SignInNext
    /\ UNCHANGED <<part, vars, deviceVars, downloadVars, atomicVars, storeVars>>
DeviceMoves ==
    /\ part = "device" /\ DeviceNext
    /\ UNCHANGED <<part, vars, signInVars, downloadVars, atomicVars, storeVars>>
DownloadMoves ==
    /\ part = "download" /\ DownloadNext
    /\ UNCHANGED <<part, vars, signInVars, deviceVars, atomicVars, storeVars>>
WriteMoves ==
    /\ part = "write" /\ AtomicNext
    /\ UNCHANGED <<part, vars, signInVars, deviceVars, downloadVars, storeVars>>
ShareMoves ==
    /\ part = "share" /\ StoreNext
    /\ UNCHANGED <<part, vars, signInVars, deviceVars, downloadVars, atomicVars>>

ToolsNext ==
    \/ SetupMoves \/ SignInMoves \/ DeviceMoves
    \/ DownloadMoves \/ WriteMoves \/ ShareMoves

ToolsSpec == ToolsInit /\ [][ToolsNext]_toolVars
=============================================================================

---------------------------- MODULE MCMpdSession ----------------------------
(***************************************************************************)
(* Instances of MpdSession: what the client code calls from its main loop  *)
(* and from its callbacks.                                                 *)
(***************************************************************************)
EXTENDS MpdSession

\* Any entry point from anywhere.
AnyCalls == [c \in Client |-> Api]

\* Callbacks that leave the status alone and connect to nothing.
KeepingCallbacks ==
  [c \in Client |-> IF c = "app" THEN Api
                    ELSE Api \ {"connect", "set", "setVolume", "statusUpdate", "control", "pause"}]

\* Callbacks that only take note.
QuietCallbacks == [c \in Client |-> IF c = "app" THEN Api ELSE {}]

\* A status callback that sets a mode, as a player with a fixed volume would.
SettingStatusCallback ==
  [c \in Client |-> IF c = "app" THEN {"connect", "getter"}
                    ELSE IF c = "onStatus" THEN {"set"} ELSE {}]
=============================================================================

---------------------------- MODULE ModeRequest -----------------------------
(***************************************************************************)
(* What a display promises about config changes (spec, "Mode/config       *)
(* change" and its round-trip check): a request for a known config makes  *)
(* it the active one at once and leaves its mode pending; the mode is     *)
(* applied later, in one step, exactly once, and it is the mode of the    *)
(* config active at that time.  Nothing else changes the screen's mode.   *)
(***************************************************************************)
CONSTANTS
  ConfigIds,        \* the display's config ids
  ConfigMode,       \* the mode of each config
  PreferredConfig,  \* the config requested at start-up
  BootMode          \* the mode the CRTC had before the display started

VARIABLES
  config,   \* the active config
  pending,  \* a requested mode has not been applied yet
  mode      \* the mode on the screen

Init ==
  /\ config = PreferredConfig
  /\ pending = TRUE
  /\ mode \in {ConfigMode[i] : i \in ConfigIds} \cup {BootMode}

(* The consumer asks for config c.                                         *)
Request(c) ==
  /\ c \in ConfigIds
  /\ config' = c
  /\ pending' = TRUE
  /\ UNCHANGED mode

(* The pending mode reaches the screen.                                    *)
Apply ==
  /\ pending
  /\ mode' = ConfigMode[config]
  /\ pending' = FALSE
  /\ UNCHANGED config

Next == (\E c \in ConfigIds : Request(c)) \/ Apply

Spec == Init /\ [][Next]_<<config, pending, mode>>

=============================================================================

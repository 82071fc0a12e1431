---------------------------- MODULE BridgeStartup ----------------------------
(***************************************************************************)
(* The start of Backend-Bridge: main() loads the configuration             *)
(* (config/config.go), opens the two databases, connects to WhatsApp or    *)
(* pairs by QR code, waits two seconds, and serves the API only if the     *)
(* link still stands.  Anything else ends the process.                     *)
(*                                                                         *)
(* A setting comes from the environment, else from the file, else from the *)
(* defaults; but one bad value anywhere, or a file that cannot be read,    *)
(* replaces ALL settings by the defaults and the start goes on.            *)
(*                                                                         *)
(* Definitions named Wrong... are mutated forms, see Outbox.               *)
(***************************************************************************)
EXTENDS Integers

CONSTANTS
  Settings,    (* names of the settings                                    *)
  Numeric      (* those a number is expected for                           *)

ASSUME BridgeStartupAssumption == Numeric \subseteq Settings

(* What a file and an environment can say of a setting. *)
FileValues == {"unset", "good", "bad"}
EnvValues  == {"unset", "good", "bad", "garbled"}

VARIABLES
  phase,      (* where main() is                                           *)
  broken,     (* the configuration file is there and cannot be used        *)
  file,       (* what it says; nothing when there is none                  *)
  env,        (* the environment's values                                  *)
  source,     (* source[s]: where the value in use comes from              *)
  device,     (* the session in whatsapp.db: "new" or "paired"             *)
  link,       (* the WhatsApp connection stands                            *)
  revoked     (* the phone removed this device while the process ran       *)

startupVars == <<phase, broken, file, env, source, device, link, revoked>>

Defaults == [s \in Settings |-> "default"]

StartupInit ==
  /\ phase   = "exited"
  /\ broken  = FALSE
  /\ file    = [s \in Settings |-> "unset"]
  /\ env     = [s \in Settings |-> "unset"]
  /\ source  = Defaults
  /\ device  = "new"
  /\ link    = FALSE
  /\ revoked = FALSE

-----------------------------------------------------------------------------

(* An environment value that is not a number is as good as none. *)
EnvTaken(s) == env'[s] # "unset" /\ ~(s \in Numeric /\ env'[s] = "garbled")

Winner(s) ==
  IF EnvTaken(s) THEN "env" ELSE IF file'[s] # "unset" THEN "file" ELSE "default"

WinningValue(s) ==
  CASE Winner(s) = "env"  -> env'[s]
    [] Winner(s) = "file" -> file'[s]
    [] OTHER              -> "good"

(* LoadConfig and the fallback in main(): the Validate step sees the merged
   values, and an error throws all of them away. *)
WrongLoadConfig ==
  source' = IF broken' THEN Defaults
            ELSE [s \in Settings |->
                    IF WinningValue(s) = "good" THEN Winner(s) ELSE "default"]

LoadConfig ==
  source' = IF ~broken' /\ \A s \in Settings : WinningValue(s) = "good"
              THEN [s \in Settings |-> Winner(s)]
              ELSE Defaults

(* The process is started.  Whatever fails before the connection (store
   directory, database, device) ends it again. *)
Start(b, f, e) ==
  /\ phase   = "exited"
  /\ broken' = b
  /\ file'   = f
  /\ env'    = e
  /\ LoadConfig
  /\ phase'  \in {"connecting", "exited"}
  /\ link'    = FALSE
  /\ revoked' = FALSE
  /\ UNCHANGED device

Exit ==
  /\ phase' = "exited"
  /\ link'  = FALSE

(* A device that is paired connects; a new one connects to be paired. *)
Connect(ok) ==
  /\ phase = "connecting"
  /\ IF ok THEN /\ link'  = TRUE
                /\ phase' = IF device = "paired" THEN "settling" ELSE "pairing"
           ELSE Exit
  /\ UNCHANGED <<broken, file, env, source, device, revoked>>

(* The QR code is scanned: the session is saved at once.  WhatsApp then drops
   the link and the client connects anew, which the settling time is for. *)
Scan ==
  /\ phase = "pairing"
  /\ device' = "paired"
  /\ phase'  = "settling"
  /\ link'   = FALSE
  /\ UNCHANGED <<broken, file, env, source, revoked>>

(* The codes run out and the timeout passes. *)
WrongScanTimeout ==
  /\ phase = "pairing"
  /\ phase' = "settling"
  /\ UNCHANGED <<broken, file, env, source, device, link, revoked>>

ScanTimeout ==
  /\ phase = "pairing"
  /\ Exit
  /\ UNCHANGED <<broken, file, env, source, device, revoked>>

(* Two seconds later: serve if the link stands, exit if it does not. *)
Settle ==
  /\ phase = "settling"
  /\ IF link THEN phase' = "serving" /\ UNCHANGED link ELSE Exit
  /\ UNCHANGED <<broken, file, env, source, device, revoked>>

LinkChanges ==
  /\ phase \in {"settling", "serving"}
  /\ device = "paired"
  /\ link' = ~link
  /\ UNCHANGED <<phase, broken, file, env, source, device, revoked>>

(* The phone removes the device: the session is deleted, main() logs it and
   goes on serving; nothing in this process pairs again. *)
LoggedOut ==
  /\ phase \in {"settling", "serving"}
  /\ device = "paired"
  /\ device'  = "new"
  /\ link'    = FALSE
  /\ revoked' = TRUE
  /\ UNCHANGED <<phase, broken, file, env, source>>

Signal ==
  /\ phase # "exited"
  /\ Exit
  /\ UNCHANGED <<broken, file, env, source, device, revoked>>

StartupNext ==
  \/ \E b \in BOOLEAN, f \in [Settings -> FileValues],
        e \in [Settings -> EnvValues] : Start(b, f, e)
  \/ \E ok \in BOOLEAN : Connect(ok)
  \/ Scan
  \/ ScanTimeout
  \/ Settle
  \/ LinkChanges
  \/ LoggedOut
  \/ Signal

StartupSpec == StartupInit /\ [][StartupNext]_startupVars

-----------------------------------------------------------------------------

StartupTypeOK ==
  /\ phase \in {"exited", "connecting", "pairing", "settling", "serving"}
  /\ broken \in BOOLEAN
  /\ file \in [Settings -> FileValues]
  /\ env \in [Settings -> EnvValues]
  /\ source \in [Settings -> {"env", "file", "default"}]
  /\ device \in {"new", "paired"}
  /\ link \in BOOLEAN /\ revoked \in BOOLEAN

(* "Environment Variables > Config File > Defaults" (config.go:76): the settings
   in use are those of the environment and the file together or the defaults
   together, never some of each because one was bad, and no value that fails
   Validate is in use.  That a start with a bad value goes on at all is not
   what the documentation says, see InvalidConfigurationExits.
   (LoadConfig, and the fallback at main.go:810.) *)
SettingsTogether ==
  \/ source = Defaults
  \/ /\ ~broken
     /\ \A s \in Settings :
          /\ source[s] = "env" <=> env[s] = "good"
          /\ source[s] = "file" => file[s] = "good"
          /\ source[s] = "default" => file[s] = "unset"

(* The API is only served for an account: a process that serves was paired
   when it began to, and still is unless the phone removed it since; it never
   serves while it waits for a code to be scanned. *)
ServesAnAccount ==
  phase = "serving" => device = "paired" \/ revoked

(* A start that gets through uses one configuration, none of it bad, and
   serves the API for an account only (main.go:809-960). *)
StartsAsPromised == SettingsTogether /\ ServesAnAccount

-----------------------------------------------------------------------------
(* What the documentation says, and the code does not do. *)

(* CONFIGURATION.md:174: "Invalid values will cause the application to exit with
   an error message"; IMPLEMENTATION_SUMMARY.md:171: "Invalid configuration
   causes application to exit with clear error message".  So a process that
   runs has been given no invalid value that another one does not override. *)
InvalidConfigurationExits ==
  phase # "exited" =>
    \A s \in Settings : env[s] # "bad" /\ (env[s] = "unset" => file[s] # "bad")

=============================================================================

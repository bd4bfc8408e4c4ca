---------------------------- MODULE Installation ----------------------------
(***************************************************************************)
(* Setting a device up: the provision and bootstrap commands of            *)
(* cmd/activity-watch-agent/main.go around the file operations of          *)
(* Provisioning, with the configuration file they read or create           *)
(* (internal/config/config.go), and the service they activate, which reads *)
(* the configuration, the key and the database one after the other.        *)
(*                                                                         *)
(* Several commands may run at once, each may crash anywhere, and the      *)
(* service manager may start the service at any time, at a login say.      *)
(***************************************************************************)
EXTENDS Provisioning

VARIABLES
  command,   \* what each process was called for
  stage,     \* where it is: Provisioning's pc tells the steps of stage "storage"
  config,    \* the configuration file: absent, partly written, or whole
  littering, \* processes whose roll-back could not remove the configuration
  withdrew,  \* history: processes that took back a file others could use
  service    \* the last start of the service: its step, the key it read,
             \* who asked for it

setupVars == <<command, stage, config, littering, withdrew, service>>
installVars == <<vars, setupVars>>

Stages == {"load", "open", "encode", "close", "dropConfig", "storage", "activate",
           "activated", "provisioned", "refused", "crashed"}

InstallTypeOK ==
  /\ TypeOK
  /\ command \in [Creators -> {"bootstrap", "provision"}]
  /\ stage \in [Creators -> Stages]
  /\ config \in {"absent", "torn", "whole"}
  /\ littering \in SUBSET Creators /\ withdrew \in SUBSET Creators
  /\ service \in [step : {"off", "load", "readKey", "open", "running", "failed"},
                  key : Creators \cup {None}, by : {"command", "manager"}]

NotStarted == [step |-> "off", key |-> None, by |-> "manager"]

InstallInit ==
  /\ Init
  /\ command \in [Creators -> {"bootstrap", "provision"}]
  /\ \A c \in Creators : pc[c] = IF command[c] = "bootstrap" THEN "check" ELSE "inspectDatabase"
  /\ stage = [c \in Creators |-> "load"]
  /\ config = "absent" /\ littering = {} /\ withdrew = {}
  /\ service = NotStarted

To(c, next) == stage' = [stage EXCEPT ![c] = next]

\* config.Load: a partly written file is not JSON and is refused like any other
\* error; only bootstrap goes on without a file.
Load(c) ==
  /\ stage[c] = "load"
  /\ \/ config = "whole" /\ To(c, "storage")
     \/ config = "absent" /\ command[c] = "bootstrap" /\ To(c, "open")
     \/ config = "absent" /\ command[c] = "provision" /\ To(c, "refused")
     \/ config = "torn" /\ To(c, "refused")
  /\ UNCHANGED <<vars, command, config, littering, withdrew, service>>

\* Mutant: the file is truncated if it exists.
OpenOver(c) ==
  /\ stage[c] = "open"
  /\ config' = "torn" /\ To(c, "encode")
  /\ UNCHANGED <<vars, command, littering, withdrew, service>>

\* WriteNew: O_EXCL creates the file empty under its final name.
Open(c) ==
  /\ stage[c] = "open"
  /\ \/ config = "absent" /\ config' = "torn" /\ To(c, "encode")
     \/ UNCHANGED config /\ To(c, "refused")
  /\ UNCHANGED <<vars, command, littering, withdrew, service>>

\* The whole text may be in the file even if the write reports an error.
Encode(c) ==
  /\ stage[c] = "encode"
  /\ \/ config' = "whole" /\ To(c, "close")
     \/ config' \in {"torn", "whole"} /\ To(c, "dropConfig")
  /\ UNCHANGED <<vars, command, littering, withdrew, service>>

Close(c) ==
  /\ stage[c] = "close"
  /\ To(c, "storage") \/ To(c, "dropConfig")
  /\ UNCHANGED <<vars, command, config, littering, withdrew, service>>

\* Mutant: a failure leaves the file.
DropNoConfig(c) ==
  /\ stage[c] = "dropConfig"
  /\ To(c, "refused")
  /\ UNCHANGED <<vars, command, config, littering, withdrew, service>>

\* os.Remove, its error dropped: also of a file that is whole, which another
\* command or the service may have loaded meanwhile.
DropConfig(c) ==
  /\ stage[c] = "dropConfig"
  /\ \/ /\ config' = "absent" /\ UNCHANGED littering
        /\ withdrew' = IF config = "whole" THEN withdrew \cup {c} ELSE withdrew
     \/ littering' = littering \cup {c} /\ UNCHANGED <<config, withdrew>>
  /\ To(c, "refused")
  /\ UNCHANGED <<vars, command, service>>

\* A step of create; its end decides how the command goes on.
Store(c) ==
  /\ stage[c] = "storage"
  /\ Create(c)
  /\ \/ pc'[c] \notin Ended /\ UNCHANGED stage
     \/ pc'[c] = "failed" /\ To(c, "refused")
     \/ pc'[c] \in {"created", "present"}
          /\ To(c, IF command[c] = "bootstrap" THEN "activate" ELSE "provisioned")
  /\ withdrew' = IF pc[c] \in {"withdrawKey", "withdrawDatabase"} THEN withdrew \cup {c} ELSE withdrew
  /\ UNCHANGED <<command, config, littering, service>>

\* activateService: the service manager starts the service anew, or cannot.
ActivateService(c) ==
  /\ stage[c] = "activate"
  /\ \/ To(c, "activated") /\ service' = [step |-> "load", key |-> None, by |-> "command"]
     \/ To(c, "refused") /\ UNCHANGED service
  /\ UNCHANGED <<vars, command, config, littering, withdrew>>

CommandCrash(c) ==
  /\ stage[c] \notin {"activated", "provisioned", "refused", "crashed"}
  /\ To(c, "crashed")
  /\ pc' = [pc EXCEPT ![c] = IF stage[c] = "storage" THEN "crashed" ELSE @]
  /\ UNCHANGED <<database, key, unlinked, command, config, littering, withdrew, service>>

\* The service manager starts the service of its own accord.
StartByManager ==
  /\ service.step \in {"off", "failed"}
  /\ service' = [step |-> "load", key |-> None, by |-> "manager"]
  /\ UNCHANGED <<vars, command, stage, config, littering, withdrew>>

Step(ok, next) == service' = [service EXCEPT !.step = IF ok THEN next ELSE "failed"]

\* run, then serviceProgram.Start.
ServiceLoads ==
  /\ service.step = "load" /\ Step(config = "whole", "readKey")
  /\ UNCHANGED <<vars, command, stage, config, littering, withdrew>>

ServiceReadsKey ==
  /\ service.step = "readKey"
  /\ service' = [service EXCEPT !.key = key, !.step = IF key = None THEN "failed" ELSE "open"]
  /\ UNCHANGED <<vars, command, stage, config, littering, withdrew>>

ServiceOpens ==
  /\ service.step = "open" /\ Step(database = service.key, "running")
  /\ UNCHANGED <<vars, command, stage, config, littering, withdrew>>

InstallNext ==
  \/ \E c \in Creators :
       \/ Load(c) \/ Open(c) \/ Encode(c) \/ Close(c) \/ DropConfig(c)
       \/ Store(c) \/ ActivateService(c) \/ CommandCrash(c)
  \/ StartByManager \/ ServiceLoads \/ ServiceReadsKey \/ ServiceOpens

InstallSpec == InstallInit /\ [][InstallNext]_installVars

-----------------------------------------------------------------------------
(***************************************************************************)
(* Properties.                                                             *)
(***************************************************************************)

\* A start that a command asked for finds its configuration, a key and the database
\* this key opens, unless some command failed after others could see what it had
\* made and took it back: half of the storage, or a configuration already whole that
\* it could not close (bootstrap activates only after both files, "present" means it
\* saw both of another process, and Load takes a configuration without waiting for
\* its writer).
ActivatedFindsStorage ==
  service.by = "command" /\ service.step = "failed" => withdrew # {}

\* No race of commands leaves the device unusable: once all have ended, the next
\* bootstrap finds no configuration or a whole one, and both files or neither,
\* unless one crashed or could not remove what it had made (WriteNew, create).
UsableUnlessCrashed ==
  (\A c \in Creators : stage[c] \in {"activated", "provisioned", "refused"})
      /\ littering = {} /\ unlinked = {} =>
    config # "torn" /\ (database = None <=> key = None)

-----------------------------------------------------------------------------
\* Where each command is in create, by its stage.
StageInv ==
  \A c \in Creators :
    /\ stage[c] \in {"load", "open", "encode", "close", "dropConfig"} => pc[c] \in {"check", "inspectDatabase"}
    /\ stage[c] = "storage" => pc[c] \notin Ended
    /\ stage[c] \in {"activate", "activated", "provisioned"} => pc[c] \in {"created", "present"}
    /\ stage[c] = "refused" => pc[c] \in {"check", "inspectDatabase", "failed", "created", "present"}

Writing == {"encode", "close", "dropConfig"}

\* The configuration has one writer at a time; a whole one that others went on with
\* lasts while nothing was taken back; a partly written one has someone to blame.
ConfigInv ==
  /\ \A c, d \in Creators :
       stage[c] \in Writing => config # "absent" /\ (stage[d] \in Writing => d = c)
  /\ \A c \in Creators : /\ stage[c] = "encode" => config = "torn"
                         /\ stage[c] = "close" => config = "whole"
  /\ withdrew = {} => \A c \in Creators :
       stage[c] \in {"storage", "activate", "activated", "provisioned"} => config = "whole"
  /\ config = "torn" =>
       \E c \in Creators : stage[c] \in {"encode", "dropConfig", "crashed"} \/ c \in littering

\* What the service and a command that found both files know while no file was
\* taken back.
ServiceInv ==
  /\ unlinked \subseteq withdrew
  /\ withdrew = {} =>
       /\ \A c \in Creators : pc[c] = "present" => key # None
       /\ service.step = "open" => key # None /\ service.key = key
       /\ service.by = "command" =>
            config = "whole" /\ key # None /\ service.step \notin {"off", "failed"}

\* The inductive invariant, beside ProvisioningInv.
InstallInv == InstallTypeOK /\ StageInv /\ ConfigInv /\ ServiceInv
=============================================================================

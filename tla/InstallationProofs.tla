------------------------- MODULE InstallationProofs -------------------------
(***************************************************************************)
(* Proofs about Provisioning and Installation, for any number of processes *)
(* and commands.  The safety properties of Provisioning follow from        *)
(* ProvisioningInv: a process that has published a file finds it under its *)
(* name until it withdraws it itself.  A setup is a use of Provisioning,   *)
(* so what is proved of its files holds; to it comes that the              *)
(* configuration a command went on with, and the key it saw, stay until    *)
(* some command takes back what it had made.                               *)
(***************************************************************************)
EXTENDS Installation, TLAPS

-----------------------------------------------------------------------------
\* The files of the storage.

\* Nothing is published initially and every process is before its first link.
LEMMA ProvisioningInit == Init => ProvisioningInv
<1> SUFFICES ASSUME Init PROVE ProvisioningInv
  OBVIOUS
<1>1. TypeOK
  BY DEF Init, TypeOK, Steps
<1> QED
  BY <1>1, NoneAssumption DEF Init, ProvisioningInv, KeyOpensDatabase, SuccessIsLasting,
     Published, BeforeKey

\* Looking at the files, and failing before anything is linked, changes no file.
LEMMA LookingStep ==
  ASSUME NEW c \in Creators, ProvisioningInv,
         CheckDatabase(c) \/ CheckKey(c) \/ InspectDatabase(c) \/ InspectKey(c)
  PROVE  ProvisioningInv'
<1>1. /\ UNCHANGED <<database, key, unlinked>>
      /\ pc[c] \in BeforeKey \ Published
      /\ \E step \in {"sawDatabase", "sawNoDatabase", "inspectDatabase", "inspectKey",
                      "linkDatabase", "present", "failed"} :
           pc' = [pc EXCEPT ![c] = step]
  BY DEF CheckDatabase, CheckKey, InspectDatabase, InspectKey, Goto, BeforeKey, Published
<1>2. PICK step \in {"sawDatabase", "sawNoDatabase", "inspectDatabase", "inspectKey",
                     "linkDatabase", "present", "failed"} :
        pc' = [pc EXCEPT ![c] = step]
  BY <1>1
<1>3. TypeOK'
  BY <1>1, <1>2 DEF ProvisioningInv, TypeOK, Steps
<1> QED
  BY <1>1, <1>2, <1>3 DEF ProvisioningInv, TypeOK, KeyOpensDatabase, SuccessIsLasting,
     Published, BeforeKey, Steps

\* A link takes a free name only, so nobody's file is displaced.
LEMMA LinkingStep ==
  ASSUME NEW c \in Creators, ProvisioningInv,
         LinkDatabase(c) \/ RemoveDatabaseCopy(c) \/ LinkKey(c) \/ RemoveKeyCopy(c)
  PROVE  ProvisioningInv'
<1>1. CASE LinkDatabase(c)
  BY <1>1, NoneAssumption DEF LinkDatabase, Goto, ProvisioningInv, TypeOK, KeyOpensDatabase,
     SuccessIsLasting, Published, BeforeKey, Steps
<1>2. CASE RemoveDatabaseCopy(c)
  BY <1>2, NoneAssumption DEF RemoveDatabaseCopy, Goto, ProvisioningInv, TypeOK,
     KeyOpensDatabase, SuccessIsLasting, Published, BeforeKey, Steps
<1>3. CASE LinkKey(c)
  BY <1>3, NoneAssumption DEF LinkKey, Goto, ProvisioningInv, TypeOK, KeyOpensDatabase,
     SuccessIsLasting, Published, BeforeKey, Steps
<1>4. CASE RemoveKeyCopy(c)
  BY <1>4, NoneAssumption DEF RemoveKeyCopy, Goto, ProvisioningInv, TypeOK,
     KeyOpensDatabase, SuccessIsLasting, Published, BeforeKey, Steps
<1> QED
  BY <1>1, <1>2, <1>3, <1>4

\* A roll-back withdraws the process's own files, the key before the database.
LEMMA WithdrawingStep ==
  ASSUME NEW c \in Creators, ProvisioningInv,
         WithdrawKey(c) \/ WithdrawDatabase(c) \/ Crash(c)
  PROVE  ProvisioningInv'
<1>1. CASE WithdrawKey(c)
  BY <1>1, NoneAssumption DEF WithdrawKey, Goto, ProvisioningInv, TypeOK, KeyOpensDatabase,
     SuccessIsLasting, Published, BeforeKey, Steps
<1>2. CASE WithdrawDatabase(c)
  BY <1>2, NoneAssumption DEF WithdrawDatabase, Goto, ProvisioningInv, TypeOK,
     KeyOpensDatabase, SuccessIsLasting, Published, BeforeKey, Steps
<1>3. CASE Crash(c)
  BY <1>3, NoneAssumption DEF Crash, Ended, Goto, ProvisioningInv, TypeOK, KeyOpensDatabase,
     SuccessIsLasting, Published, BeforeKey, Steps
<1> QED
  BY <1>1, <1>2, <1>3

\* Every step keeps the inductive invariant.
LEMMA ProvisioningStep == ProvisioningInv /\ [Next]_vars => ProvisioningInv'
<1> SUFFICES ASSUME ProvisioningInv, [Next]_vars PROVE ProvisioningInv'
  OBVIOUS
<1>1. ASSUME NEW c \in Creators, Create(c) PROVE ProvisioningInv'
  BY <1>1, LookingStep, LinkingStep, WithdrawingStep DEF Create
<1>2. ASSUME NEW c \in Creators, Crash(c) PROVE ProvisioningInv'
  BY <1>2, WithdrawingStep
<1>3. CASE UNCHANGED vars
  BY <1>3 DEF vars, ProvisioningInv, TypeOK, KeyOpensDatabase, SuccessIsLasting
<1> QED
  BY <1>1, <1>2, <1>3 DEF Next

\* The inductive invariant holds in every reachable state, for any number of
\* provision, bootstrap and pair commands racing and crashing.
THEOREM ProvisioningAlways == Spec => []ProvisioningInv
BY ProvisioningInit, ProvisioningStep, PTL DEF Spec

\* A key is never in place without the database it opens, unless its creator
\* could not remove it.
THEOREM KeyAlwaysOpens == Spec => []KeyOpensDatabase
<1>1. ProvisioningInv => KeyOpensDatabase
  BY DEF ProvisioningInv
<1> QED
  BY <1>1, ProvisioningAlways, PTL

\* What a successful command created stays in place.
THEOREM SuccessLasts == Spec => []SuccessIsLasting
<1>1. ProvisioningInv => SuccessIsLasting
  BY DEF ProvisioningInv
<1> QED
  BY <1>1, ProvisioningAlways, PTL

\* Half a pair stays behind only after a crash or a failing removal, never after a
\* race of processes that all ran to their end.
THEOREM HalvesComeFromCrashes == Spec => []HalfOnlyByACrash
<1>1. ASSUME ProvisioningInv PROVE HalfOnlyByACrash
  <2> SUFFICES ASSUME (database = None) # (key = None) PROVE HalfOnlyByACrash
    BY DEF HalfOnlyByACrash
  <2>1. CASE database = None
    <3>1. key \in Creators /\ key \in unlinked
      BY <1>1, <2>1, NoneAssumption DEF ProvisioningInv, TypeOK, KeyOpensDatabase
    <3> QED
      BY <3>1 DEF HalfOnlyByACrash
  <2>2. CASE database # None
    <3>1. database \in Creators /\ key = None
      BY <1>1, <2>2 DEF ProvisioningInv, TypeOK
    <3>2. pc[database] # "created"
      BY <1>1, <3>1, NoneAssumption DEF ProvisioningInv, SuccessIsLasting
    <3>3. pc[database] \in Published \cup {"crashed"} \/ database \in unlinked
      BY <1>1, <3>1, <3>2 DEF ProvisioningInv
    <3> QED
      BY <3>1, <3>3 DEF HalfOnlyByACrash, Published, Steps, Ended
  <2> QED
    BY <2>1, <2>2
<1> QED
  BY <1>1, ProvisioningAlways, PTL

\* No step replaces a published file: only its own creator takes it away.
THEOREM PublishedFilesStay == Spec => NeverReplaced
<1>1. ASSUME ProvisioningInv, [Next]_vars
      PROVE  /\ database # None /\ database' # database =>
                  database' = None /\ pc[database] = "withdrawDatabase"
             /\ key # None /\ key' # key => key' = None /\ pc[key] = "withdrawKey"
  BY <1>1 DEF Next, Create, Crash, CheckDatabase, CheckKey, InspectDatabase, InspectKey,
     LinkDatabase, RemoveDatabaseCopy, LinkKey, RemoveKeyCopy, WithdrawKey, WithdrawDatabase,
     vars, ProvisioningInv, Published
<1> QED
  BY <1>1, ProvisioningAlways, PTL DEF Spec, NeverReplaced

-----------------------------------------------------------------------------
\* The commands.

USE DEF vars, setupVars

\* A step of the setup is a step of Provisioning or leaves its state (Store, CommandCrash).
LEMMA SetupStepIsProvisioning ==
  ASSUME TypeOK, StageInv, [InstallNext]_installVars
  PROVE  [Next]_vars
<1>1. ASSUME NEW c \in Creators, Store(c) PROVE Next
  BY <1>1 DEF Store, Next
<1>2. ASSUME NEW c \in Creators, CommandCrash(c) PROVE [Next]_vars
  <2>1. CASE stage[c] = "storage"
    BY <1>2, <2>1 DEF CommandCrash, StageInv, Crash, Goto, Next
  <2>2. CASE stage[c] # "storage"
    BY <1>2, <2>2 DEF CommandCrash, TypeOK
  <2> QED
    BY <2>1, <2>2
<1> QED
  BY <1>1, <1>2 DEF InstallNext, installVars, Load, Open, Encode, Close, DropConfig, ActivateService,
     StartByManager, ServiceLoads, ServiceReadsKey, ServiceOpens

\* What a step of create does to the files: only a roll-back takes the key away
\* or fails to, and only a process that saw a key finds the pair present.
LEMMA CreateKeepsKey ==
  ASSUME TypeOK, NEW c \in Creators, Create(c)
  PROVE  /\ \E step \in Steps \ {"crashed"} : pc' = [pc EXCEPT ![c] = step]
         /\ pc[c] \notin {"withdrawKey", "withdrawDatabase"} =>
              (key # None => key' = key) /\ unlinked' = unlinked
         /\ unlinked' \subseteq unlinked \cup {c}
         /\ pc'[c] = "present" => key' # None
<1>1. CASE CheckDatabase(c) \/ CheckKey(c)
  BY <1>1 DEF CheckDatabase, CheckKey, Goto, TypeOK, Steps
<1>2. CASE InspectDatabase(c) \/ InspectKey(c)
  BY <1>2 DEF InspectDatabase, InspectKey, Goto, TypeOK, Steps
<1>3. CASE LinkDatabase(c) \/ RemoveDatabaseCopy(c)
  BY <1>3 DEF LinkDatabase, RemoveDatabaseCopy, Goto, TypeOK, Steps
<1>4. CASE LinkKey(c) \/ RemoveKeyCopy(c)
  BY <1>4 DEF LinkKey, RemoveKeyCopy, Goto, TypeOK, Steps
<1>5. CASE WithdrawKey(c) \/ WithdrawDatabase(c)
  BY <1>5 DEF WithdrawKey, WithdrawDatabase, Goto, TypeOK, Steps
<1> QED
  BY <1>1, <1>2, <1>3, <1>4, <1>5 DEF Create

\* The types of the setup, the files of Provisioning aside.
LEMMA SetupTypeStep ==
  ASSUME InstallTypeOK, TypeOK', [InstallNext]_installVars
  PROVE  InstallTypeOK'
<1>1. ASSUME NEW c \in Creators,
             Load(c) \/ Open(c) \/ Encode(c) \/ Close(c) \/ DropConfig(c) \/ CommandCrash(c)
      PROVE  InstallTypeOK'
  BY <1>1 DEF Load, Open, Encode, Close, DropConfig, CommandCrash, To, Stages, InstallTypeOK
<1>2. ASSUME NEW c \in Creators, Store(c) PROVE InstallTypeOK'
  <2>1. /\ stage' \in [Creators -> Stages]
        /\ withdrew' \in SUBSET Creators
        /\ UNCHANGED <<command, config, littering, service>>
    BY <1>2 DEF Store, To, Stages, InstallTypeOK
  <2> QED
    BY <2>1 DEF InstallTypeOK
<1>3. ASSUME NEW c \in Creators, ActivateService(c) PROVE InstallTypeOK'
  <2>1. /\ stage' \in [Creators -> Stages]
        /\ UNCHANGED <<command, config, littering, withdrew>>
        /\ service' \in {service, [step |-> "load", key |-> None, by |-> "command"]}
    BY <1>3 DEF ActivateService, To, Stages, InstallTypeOK
  <2> QED
    BY <2>1 DEF InstallTypeOK
<1>4. CASE StartByManager \/ ServiceLoads \/ ServiceReadsKey \/ ServiceOpens
  <2>1. UNCHANGED <<command, stage, config, littering, withdrew>>
    BY <1>4 DEF StartByManager, ServiceLoads, ServiceReadsKey, ServiceOpens
  <2>2. CASE StartByManager
    BY <2>1, <2>2 DEF StartByManager, InstallTypeOK
  <2>3. CASE ServiceLoads \/ ServiceOpens
    BY <2>1, <2>3 DEF ServiceLoads, ServiceOpens, Step, InstallTypeOK
  <2>4. CASE ServiceReadsKey
    BY <2>1, <2>4 DEF ServiceReadsKey, InstallTypeOK, TypeOK
  <2> QED
    BY <1>4, <2>2, <2>3, <2>4
<1>5. CASE UNCHANGED installVars
  BY <1>5 DEF installVars, InstallTypeOK
<1> QED
  BY <1>1, <1>2, <1>3, <1>4, <1>5 DEF InstallNext

\* The stages follow the steps of create.
LEMMA StageStep ==
  ASSUME InstallTypeOK, StageInv, [InstallNext]_installVars
  PROVE  StageInv'
<1>1. ASSUME NEW c \in Creators,
             Load(c) \/ Open(c) \/ Encode(c) \/ Close(c) \/ DropConfig(c) \/ ActivateService(c)
      PROVE  StageInv'
  BY <1>1 DEF Load, Open, Encode, Close, DropConfig, ActivateService, To, Stages, Ended, InstallTypeOK,
     StageInv
<1>2. ASSUME NEW c \in Creators, Store(c) PROVE StageInv'
  <2>1. PICK step \in Steps \ {"crashed"} : pc' = [pc EXCEPT ![c] = step]
    BY <1>2, CreateKeepsKey DEF Store, InstallTypeOK
  <2>2. /\ pc'[c] = step /\ \A d \in Creators \ {c} : pc'[d] = pc[d]
        /\ \A d \in Creators \ {c} : stage'[d] = stage[d]
    BY <1>2, <2>1 DEF Store, To, InstallTypeOK, TypeOK
  <2>3. \/ step \notin Ended /\ stage'[c] = "storage"
        \/ step = "failed" /\ stage'[c] = "refused"
        \/ step \in {"created", "present"} /\ stage'[c] \in {"activate", "provisioned"}
    BY <1>2, <2>2 DEF Store, To, InstallTypeOK
  <2> QED
    BY <2>2, <2>3 DEF StageInv, Ended
<1>3. ASSUME NEW c \in Creators, CommandCrash(c) PROVE StageInv'
  BY <1>3 DEF CommandCrash, To, InstallTypeOK, TypeOK, StageInv
<1>4. CASE UNCHANGED <<stage, pc>>
  BY <1>4 DEF StageInv
<1> QED
  BY <1>1, <1>2, <1>3, <1>4 DEF InstallNext, installVars, StartByManager, ServiceLoads,
     ServiceReadsKey, ServiceOpens

\* O_EXCL gives the configuration one writer at a time, and no other step takes it.
LEMMA ConfigStep ==
  ASSUME InstallTypeOK, ConfigInv, [InstallNext]_installVars
  PROVE  ConfigInv'
<1>1. ASSUME NEW c \in Creators, Load(c) PROVE ConfigInv'
  BY <1>1 DEF Load, To, InstallTypeOK, ConfigInv, Writing
<1>2. ASSUME NEW c \in Creators, Open(c) PROVE ConfigInv'
  BY <1>2 DEF Open, To, InstallTypeOK, ConfigInv, Writing
<1>3. ASSUME NEW c \in Creators, Encode(c) PROVE ConfigInv'
  BY <1>3 DEF Encode, To, InstallTypeOK, ConfigInv, Writing
<1>4. ASSUME NEW c \in Creators, DropConfig(c) PROVE ConfigInv'
  BY <1>4 DEF DropConfig, To, InstallTypeOK, ConfigInv, Writing
<1>5. ASSUME NEW c \in Creators, Store(c) PROVE ConfigInv'
  BY <1>5 DEF Store, To, InstallTypeOK, ConfigInv, Writing
<1>6. ASSUME NEW c \in Creators, ActivateService(c) PROVE ConfigInv'
  BY <1>6 DEF ActivateService, To, InstallTypeOK, ConfigInv, Writing
<1>7. ASSUME NEW c \in Creators, CommandCrash(c) PROVE ConfigInv'
  BY <1>7 DEF CommandCrash, To, InstallTypeOK, ConfigInv, Writing
<1>8. CASE UNCHANGED <<stage, config, littering, withdrew>>
  BY <1>8 DEF ConfigInv
<1>9. ASSUME NEW c \in Creators, Close(c) PROVE ConfigInv'
  BY <1>9 DEF Close, To, InstallTypeOK, ConfigInv, Writing
<1> QED
  BY <1>1, <1>2, <1>3, <1>4, <1>5, <1>6, <1>7, <1>8, <1>9 DEF InstallNext, installVars, StartByManager,
     ServiceLoads, ServiceReadsKey, ServiceOpens

\* A start that a command asked for gets through each of its steps.
LEMMA ServiceStep ==
  ASSUME ProvisioningInv, InstallInv, [InstallNext]_installVars
  PROVE  ServiceInv'
<1>a. InstallTypeOK /\ TypeOK /\ StageInv /\ ConfigInv /\ ServiceInv
  BY DEF InstallInv, ProvisioningInv
<1>1. ASSUME NEW c \in Creators, Load(c) \/ Open(c) \/ Encode(c) \/ Close(c) \/ DropConfig(c)
      PROVE  ServiceInv'
  <2>1. UNCHANGED <<vars, service>> /\ withdrew \subseteq withdrew'
    BY <1>1 DEF Load, Open, Encode, Close, DropConfig
  <2>2. withdrew' = {} /\ config = "whole" => config' = "whole"
    BY <1>a, <1>1 DEF Load, Open, Encode, Close, DropConfig, ConfigInv
  <2> QED
    BY <1>a, <2>1, <2>2 DEF ServiceInv
<1>2. ASSUME NEW c \in Creators, Store(c) PROVE ServiceInv'
  <2>1. /\ UNCHANGED <<config, service>> /\ withdrew \subseteq withdrew'
        /\ pc[c] \in {"withdrawKey", "withdrawDatabase"} => c \in withdrew'
    BY <1>2 DEF Store
  <2>2. unlinked' \subseteq withdrew'
    BY <1>a, <1>2, <2>1, CreateKeepsKey DEF Store, ServiceInv
  <2>3. ASSUME withdrew' = {}
        PROVE  withdrew = {} /\ (key # None => key' = key)
    BY <1>a, <1>2, <2>1, <2>3, CreateKeepsKey DEF Store
  <2>4. ASSUME withdrew' = {}, NEW d \in Creators, pc'[d] = "present" PROVE key' # None
    <3>1. CASE d = c
      BY <1>a, <1>2, <2>4, <3>1, CreateKeepsKey DEF Store
    <3>2. CASE d # c
      <4>1. pc'[d] = pc[d]
        BY <1>a, <1>2, <3>2, CreateKeepsKey DEF Store, TypeOK
      <4> QED
        BY <1>a, <2>3, <2>4, <4>1 DEF ServiceInv
    <3> QED
      BY <3>1, <3>2
  <2> QED
    BY <1>a, <2>1, <2>2, <2>3, <2>4 DEF ServiceInv
<1>3. ASSUME NEW c \in Creators, ActivateService(c) PROVE ServiceInv'
  <2>1. (withdrew = {} => config = "whole") /\ pc[c] \in {"created", "present"}
    BY <1>a, <1>3 DEF ActivateService, ConfigInv, StageInv
  <2>2. withdrew = {} => key # None
    BY <1>a, <2>1, NoneAssumption DEF ServiceInv, ProvisioningInv, SuccessIsLasting
  <2> QED
    BY <1>a, <1>3, <2>1, <2>2 DEF ActivateService, ServiceInv
<1>4. ASSUME NEW c \in Creators, CommandCrash(c) PROVE ServiceInv'
  BY <1>a, <1>4 DEF CommandCrash, ServiceInv, TypeOK
<1>5. CASE StartByManager
  BY <1>a, <1>5 DEF StartByManager, ServiceInv
<1>6. CASE ServiceLoads
  BY <1>a, <1>6 DEF ServiceLoads, Step, ServiceInv, InstallTypeOK
<1>7. CASE ServiceReadsKey
  BY <1>a, <1>7 DEF ServiceReadsKey, ServiceInv, InstallTypeOK
<1>8. CASE ServiceOpens
  <2>1. withdrew = {} => database = service.key
    <3>1. ASSUME withdrew = {} PROVE key # None /\ service.key = key /\ unlinked = {}
      BY <1>a, <1>8, <3>1 DEF ServiceOpens, ServiceInv
    <3> QED
      BY <3>1 DEF ProvisioningInv, KeyOpensDatabase
  <2> QED
    BY <1>a, <1>8, <2>1 DEF ServiceOpens, Step, ServiceInv, InstallTypeOK
<1>9. CASE UNCHANGED installVars
  BY <1>a, <1>9 DEF installVars, ServiceInv
<1> QED
  BY <1>1, <1>2, <1>3, <1>4, <1>5, <1>6, <1>7, <1>8, <1>9 DEF InstallNext

\* The inductive invariant of a setup, for any number of commands.
THEOREM InstallAlways == InstallSpec => [](ProvisioningInv /\ InstallInv)
<1>1. InstallInit => ProvisioningInv /\ InstallInv
  <2> SUFFICES ASSUME InstallInit PROVE ProvisioningInv /\ InstallInv
    OBVIOUS
  <2>1. ProvisioningInv
    BY ProvisioningInit DEF InstallInit
  <2>2. InstallTypeOK
    BY <2>1 DEF InstallInit, InstallTypeOK, ProvisioningInv, Stages, NotStarted
  <2>3. StageInv /\ ConfigInv
    BY DEF InstallInit, StageInv, ConfigInv, Writing
  <2>4. ServiceInv
    BY DEF InstallInit, Init, ServiceInv, NotStarted
  <2> QED
    BY <2>1, <2>2, <2>3, <2>4 DEF InstallInv
<1>2. ProvisioningInv /\ InstallInv /\ [InstallNext]_installVars => (ProvisioningInv /\ InstallInv)'
  <2> SUFFICES ASSUME ProvisioningInv, InstallInv, [InstallNext]_installVars
               PROVE  (ProvisioningInv /\ InstallInv)'
    OBVIOUS
  <2>1. ProvisioningInv'
    BY SetupStepIsProvisioning, ProvisioningStep DEF InstallInv, ProvisioningInv
  <2>2. InstallTypeOK'
    BY <2>1, SetupTypeStep DEF InstallInv, ProvisioningInv
  <2>3. StageInv' /\ ConfigInv' /\ ServiceInv'
    BY StageStep, ConfigStep, ServiceStep DEF InstallInv
  <2> QED
    BY <2>1, <2>2, <2>3 DEF InstallInv
<1> QED
  BY <1>1, <1>2, PTL DEF InstallSpec

\* A setup is a use of Provisioning: what is proved of every race of its
\* processes holds of bootstrap and provision with the service beside them.
THEOREM InstallationImplementsProvisioning == InstallSpec => Spec
<1>1. InstallInit => Init
  BY DEF InstallInit
<1>2. InstallInv /\ [InstallNext]_installVars => [Next]_vars
  BY SetupStepIsProvisioning DEF InstallInv, InstallTypeOK
<1> QED
  BY <1>1, <1>2, InstallAlways, PTL DEF InstallSpec, Spec

\* A start that a command asked for fails only after some command took back a file
\* others could use: a published one, or a configuration it could not close
\* (bootstrap, WriteNew, serviceProgram.Start).
THEOREM ActivatedStartsFindStorage == InstallSpec => []ActivatedFindsStorage
<1>1. InstallInv => ActivatedFindsStorage
  BY DEF InstallInv, ServiceInv, ActivatedFindsStorage
<1> QED
  BY <1>1, InstallAlways, PTL

\* Once all commands have ended without a crash and without a file they could not
\* remove, the device can be set up or is (WriteNew, create).
THEOREM DeviceStaysUsable == InstallSpec => []UsableUnlessCrashed
<1>1. ProvisioningInv /\ InstallInv /\ HalfOnlyByACrash => UsableUnlessCrashed
  <2> SUFFICES ASSUME ProvisioningInv, InstallInv, HalfOnlyByACrash,
                      \A c \in Creators : stage[c] \in {"activated", "provisioned", "refused"},
                      littering = {}, unlinked = {}
               PROVE  config # "torn" /\ (database = None <=> key = None)
    BY DEF UsableUnlessCrashed
  <2>1. config # "torn"
    BY DEF InstallInv, ConfigInv
  <2>2. \A c \in Creators : pc[c] \in {"check", "inspectDatabase", "failed", "created", "present"}
    BY DEF InstallInv, StageInv
  <2>3. \A c \in Creators : c \in {database, key} => pc[c] \in {"failed", "created", "present"}
    BY <2>2 DEF ProvisioningInv, BeforeKey, Published
  <2>4. ~ \E c \in {database, key} \cap Creators :
          pc[c] \in (Steps \ Ended) \cup {"crashed"} \/ c \in unlinked
    BY <2>3 DEF Ended
  <2>5. ~((database = None) # (key = None))
    BY <2>4 DEF HalfOnlyByACrash
  <2> QED
    BY <2>1, <2>5
<1>2. InstallSpec => []HalfOnlyByACrash
  BY InstallationImplementsProvisioning, HalvesComeFromCrashes
<1> QED
  BY <1>1, <1>2, InstallAlways, PTL
=============================================================================

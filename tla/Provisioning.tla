---------------------------- MODULE Provisioning ----------------------------
(***************************************************************************)
(* Creating the encrypted database and its key file                        *)
(* (internal/provision/provision.go), as the provision, bootstrap and pair *)
(* commands call it.  Several of these processes may run at once and each  *)
(* may crash between two file operations.  Both files are prepared under   *)
(* temporary names and published by hard links, which fail when the name   *)
(* is taken; the database is published before the key.                     *)
(***************************************************************************)
CONSTANTS
  Creators,   \* the processes
  None        \* no file under the name

ASSUME NoneAssumption == None \notin Creators

VARIABLES
  database, key,  \* whose file has the configured name, or None
  pc,             \* where each process is
  unlinked        \* processes whose roll-back could not remove what it published

vars == <<database, key, pc, unlinked>>

\* "check" is the test of bootstrap and pair, "inspect" create's own; the next
\* steps link and tidy up; "created" and "failed" are ends, and so is "crashed",
\* with what the process had published left in place.
Steps == {"check", "sawDatabase", "sawNoDatabase", "inspectDatabase", "inspectKey",
          "linkDatabase", "removeDatabaseCopy", "linkKey", "removeKeyCopy",
          "withdrawKey", "withdrawDatabase", "created", "present", "failed", "crashed"}

TypeOK ==
  /\ database \in Creators \cup {None} /\ key \in Creators \cup {None}
  /\ pc \in [Creators -> Steps]
  /\ unlinked \in SUBSET Creators

\* provision starts at create, the two other commands at the check.
Init ==
  /\ database = None /\ key = None
  /\ pc \in [Creators -> {"check", "inspectDatabase"}]
  /\ unlinked = {}

Goto(c, step) == pc' = [pc EXCEPT ![c] = step]

\* bootstrap, ensureProvisioned: both files or none, looked up one by one.
CheckDatabase(c) ==
  /\ pc[c] = "check"
  /\ Goto(c, IF database = None THEN "sawNoDatabase" ELSE "sawDatabase")
  /\ UNCHANGED <<database, key, unlinked>>

CheckKey(c) ==
  /\ \/ pc[c] = "sawDatabase" /\ Goto(c, IF key = None THEN "failed" ELSE "present")
     \/ pc[c] = "sawNoDatabase" /\ Goto(c, IF key = None THEN "inspectDatabase" ELSE "failed")
  /\ UNCHANGED <<database, key, unlinked>>

\* rejectExisting, twice.
InspectDatabase(c) ==
  /\ pc[c] = "inspectDatabase"
  /\ Goto(c, IF database = None THEN "inspectKey" ELSE "failed")
  /\ UNCHANGED <<database, key, unlinked>>

\* After it the temporary files are written; a failure there publishes nothing.
InspectKey(c) ==
  /\ pc[c] = "inspectKey"
  /\ \/ key = None /\ Goto(c, "linkDatabase")
     \/ Goto(c, "failed")
  /\ UNCHANGED <<database, key, unlinked>>

\* Mutant: the name is taken over.
LinkDatabaseOver(c) ==
  /\ pc[c] = "linkDatabase"
  /\ database' = c /\ Goto(c, "removeDatabaseCopy")
  /\ UNCHANGED <<key, unlinked>>

\* linkNew for the database: os.Link, then the temporary name goes, and if it
\* cannot be removed the published one goes instead.
LinkDatabase(c) ==
  /\ pc[c] = "linkDatabase"
  /\ \/ database = None /\ database' = c /\ Goto(c, "removeDatabaseCopy")
     \/ UNCHANGED database /\ Goto(c, "failed")
  /\ UNCHANGED <<key, unlinked>>

RemoveDatabaseCopy(c) ==
  /\ pc[c] = "removeDatabaseCopy"
  /\ Goto(c, "linkKey") \/ Goto(c, "withdrawDatabase")
  /\ UNCHANGED <<database, key, unlinked>>

\* Mutant: a failure leaves the database behind.
LinkKeyNoRollback(c) ==
  /\ pc[c] = "linkKey"
  /\ \/ key = None /\ key' = c /\ Goto(c, "removeKeyCopy")
     \/ UNCHANGED key /\ Goto(c, "failed")
  /\ UNCHANGED <<database, unlinked>>

\* linkNew for the key; a failure withdraws the database too.
LinkKey(c) ==
  /\ pc[c] = "linkKey"
  /\ \/ key = None /\ key' = c /\ Goto(c, "removeKeyCopy")
     \/ UNCHANGED key /\ Goto(c, "withdrawDatabase")
  /\ UNCHANGED <<database, unlinked>>

RemoveKeyCopy(c) ==
  /\ pc[c] = "removeKeyCopy"
  /\ Goto(c, "created") \/ Goto(c, "withdrawKey")
  /\ UNCHANGED <<database, key, unlinked>>

\* Mutant: the key stays when the database is withdrawn.
WithdrawNoKey(c) ==
  /\ pc[c] = "withdrawKey"
  /\ Goto(c, "withdrawDatabase")
  /\ UNCHANGED <<database, key, unlinked>>

\* os.Remove of a published name, whose error is dropped.
WithdrawKey(c) ==
  /\ pc[c] = "withdrawKey"
  /\ \/ key' = None /\ UNCHANGED unlinked
     \/ UNCHANGED key /\ unlinked' = unlinked \cup {c}
  /\ Goto(c, "withdrawDatabase")
  /\ UNCHANGED database

WithdrawDatabase(c) ==
  /\ pc[c] = "withdrawDatabase"
  /\ \/ database' = None /\ UNCHANGED unlinked
     \/ UNCHANGED database /\ unlinked' = unlinked \cup {c}
  /\ Goto(c, "failed")
  /\ UNCHANGED key

Ended == {"created", "present", "failed", "crashed"}

Crash(c) ==
  /\ pc[c] \notin Ended
  /\ Goto(c, "crashed")
  /\ UNCHANGED <<database, key, unlinked>>

Create(c) ==
  \/ CheckDatabase(c) \/ CheckKey(c) \/ InspectDatabase(c) \/ InspectKey(c)
  \/ LinkDatabase(c) \/ RemoveDatabaseCopy(c) \/ LinkKey(c) \/ RemoveKeyCopy(c)
  \/ WithdrawKey(c) \/ WithdrawDatabase(c)

Next == \E c \in Creators : Create(c) \/ Crash(c)

Spec == Init /\ [][Next]_vars

-----------------------------------------------------------------------------
(***************************************************************************)
(* Properties.                                                             *)
(***************************************************************************)

\* A key is in place only together with the database it opens, whichever processes
\* raced and crashed, unless its own creator failed to remove it (create's order of
\* the two links and of the roll-back).
KeyOpensDatabase == key # None /\ key \notin unlinked => database = key

\* A published file is never replaced: its name is only given up, by the process
\* that published it (linkNew; "without overwriting any configured target").
NeverReplaced ==
  [][/\ database # None /\ database' # database =>
          database' = None /\ pc[database] = "withdrawDatabase"
     /\ key # None /\ key' # key => key' = None /\ pc[key] = "withdrawKey"]_vars

\* A process that reported success published both files, and they stay.
SuccessIsLasting == \A c \in Creators : pc[c] = "created" => database = c /\ key = c

\* Half a pair is in place only while its creator works, or when that creator
\* crashed or could not remove it: no race of live processes leaves one behind.
HalfOnlyByACrash ==
  (database = None) # (key = None) =>
    \E c \in {database, key} \cap Creators :
      pc[c] \in (Steps \ Ended) \cup {"crashed"} \/ c \in unlinked

\* The inductive invariant: what each step of create knows of the two names.
Published == {"removeDatabaseCopy", "linkKey", "removeKeyCopy",
              "withdrawKey", "withdrawDatabase"}
BeforeKey == {"check", "sawDatabase", "sawNoDatabase", "inspectDatabase", "inspectKey",
              "linkDatabase", "removeDatabaseCopy", "linkKey"}

\* Every process finds its own files where it left them, and nowhere earlier
\* (create; linkNew never replaces a file).
ProvisioningInv ==
  /\ TypeOK
  /\ KeyOpensDatabase
  /\ SuccessIsLasting
  /\ \A c \in Creators :
       /\ pc[c] \in Published => database = c
       /\ pc[c] \in {"removeKeyCopy", "withdrawKey"} => key = c
       /\ pc[c] \in BeforeKey => key # c
       /\ pc[c] = "withdrawDatabase" /\ c \notin unlinked => key # c
       /\ database = c =>
            pc[c] \in Published \cup {"created", "crashed"} \/ c \in unlinked
=============================================================================

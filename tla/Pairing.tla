------------------------------ MODULE Pairing -------------------------------
(***************************************************************************)
(* Pairing a device with the ERP (Apply in internal/pairing/pairing.go):   *)
(* the employee downloads a bundle with a short-lived token, the agent     *)
(* exchanges the token and a credential it has generated itself, writes    *)
(* the credential and the configuration, and restarts the service.  Any    *)
(* step may fail or crash; the employee opens the bundle again, or         *)
(* downloads a new one.  Every file is replaced atomically.                *)
(***************************************************************************)
EXTENDS Naturals

CONSTANTS
  Credentials,  \* credentials the agent may generate
  Invocations,  \* pair commands that may run at the same time
  MaxBundles,   \* bound: bundles the employee downloads
  None

ASSUME PairingAssumption == None \notin Credentials /\ MaxBundles \in Nat

VARIABLES
  bundle,      \* the token of the downloaded bundle file, 0 without one
  candidate,   \* <credential file>.pairing-candidate
  credentialFile,
  enabled,     \* the configuration enables sync and collection
  pc, cred,    \* of each invocation: its step and the credential it holds
  token,       \* of each invocation: the token it read
  issued,      \* tokens issued so far (external)
  bound,       \* the credential each token was exchanged for (external)
  expired,     \* tokens that are no longer accepted (external)
  registered,  \* the credential the device row accepts (external)
  service      \* the credential the running service loaded, None when stopped

files == <<bundle, candidate, credentialFile, enabled>>
runs == <<pc, cred, token>>
server == <<issued, bound, expired, registered>>
vars == <<files, runs, server, service>>

Credential == Credentials \cup {None}
Steps == {"idle", "load", "storeCandidate", "exchange", "writeCredential",
          "writeConfig", "removeCandidate", "removeBundle", "activate"}

TypeOK ==
  /\ bundle \in 0..MaxBundles
  /\ candidate \in Credential /\ credentialFile \in Credential
  /\ enabled \in BOOLEAN
  /\ pc \in [Invocations -> Steps] /\ cred \in [Invocations -> Credential]
  /\ token \in [Invocations -> 0..MaxBundles]
  /\ issued \in 0..MaxBundles /\ bound \in [1..MaxBundles -> Credential]
  /\ expired \in SUBSET (1..MaxBundles) /\ registered \in Credential
  /\ service \in Credential

Init ==
  /\ bundle = 0 /\ candidate = None /\ credentialFile = None /\ enabled = FALSE
  /\ pc = [p \in Invocations |-> "idle"]
  /\ cred = [p \in Invocations |-> None] /\ token = [p \in Invocations |-> 0]
  /\ issued = 0 /\ bound = [t \in 1..MaxBundles |-> None] /\ expired = {}
  /\ registered = None
  /\ service = None

Goto(p, step) == pc' = [pc EXCEPT ![p] = step]

-----------------------------------------------------------------------------
(* The employee and the server. *)

Download ==
  /\ issued < MaxBundles
  /\ issued' = issued + 1 /\ bundle' = issued + 1
  /\ UNCHANGED <<candidate, credentialFile, enabled, runs, bound, expired, registered,
                 service>>

Expire(t) ==
  /\ t <= issued /\ t \notin expired
  /\ expired' = expired \cup {t}
  /\ UNCHANGED <<files, runs, issued, bound, registered, service>>

-----------------------------------------------------------------------------
(* One pair command. *)

\* Mutant: the bundle is consumed when it is read.
OpenConsuming(p) ==
  /\ pc[p] = "idle" /\ bundle # 0
  /\ token' = [token EXCEPT ![p] = bundle] /\ bundle' = 0
  /\ Goto(p, "load")
  /\ UNCHANGED <<candidate, credentialFile, enabled, cred, server, service>>

\* readBundle; the storage has been provisioned.
Open(p) ==
  /\ pc[p] = "idle" /\ bundle # 0
  /\ token' = [token EXCEPT ![p] = bundle]
  /\ Goto(p, "load")
  /\ UNCHANGED <<files, cred, server, service>>

\* generateCredential: 256 random bits are none of the credentials still known
\* anywhere; one that is known nowhere any more may stand for a new one.
Known == {candidate, credentialFile, registered, service}
           \cup {bound[t] : t \in 1..MaxBundles}
           \cup {cred[q] : q \in {r \in Invocations : pc[r] # "idle"}}
Generate(p) == \E c \in Credentials \ Known : cred' = [cred EXCEPT ![p] = c]

\* Mutant: every attempt generates a credential of its own.
FreshCandidate(p) ==
  /\ pc[p] = "load"
  /\ Generate(p)
  /\ Goto(p, "storeCandidate")
  /\ UNCHANGED <<files, token, server, service>>

\* loadOrCreateCandidate: the candidate of an earlier attempt is used again.
LoadCandidate(p) ==
  /\ pc[p] = "load"
  /\ \/ /\ candidate # None
        /\ cred' = [cred EXCEPT ![p] = candidate]
        /\ Goto(p, "exchange")
     \/ /\ candidate = None
        /\ Generate(p)
        /\ Goto(p, "storeCandidate")
  /\ UNCHANGED <<files, token, server, service>>

StoreCandidate(p) ==
  /\ pc[p] = "storeCandidate"
  /\ candidate' = cred[p]
  /\ Goto(p, "exchange")
  /\ UNCHANGED <<bundle, credentialFile, enabled, cred, token, server, service>>

\* A token is good for one credential, and for that one as often as it is sent
\* until it expires (external; docs/SPECIFICATIONS.md:1501).
Accepts(t, c) == t \notin expired /\ bound[t] \in {None, c}

\* exchange: the server registers the credential; the answer may be lost.  A request
\* given up is assumed to take effect at once or never: one that arrived after a later
\* pairing with another credential would have to carry a token the server has replaced.
Exchange(p) ==
  /\ pc[p] = "exchange"
  /\ Accepts(token[p], cred[p])
  /\ bound' = [bound EXCEPT ![token[p]] = cred[p]]
  /\ registered' = cred[p]
  /\ Goto(p, "writeCredential") \/ Goto(p, "idle")
  /\ UNCHANGED <<files, cred, token, issued, expired, service>>

\* Mutant: the configuration is written first.
WriteConfigFirst(p) ==
  /\ pc[p] = "writeCredential"
  /\ enabled' = TRUE
  /\ Goto(p, "writeConfig")
  /\ UNCHANGED <<bundle, candidate, credentialFile, cred, token, server, service>>

WriteCredential(p) ==
  /\ pc[p] = "writeCredential"
  /\ credentialFile' = cred[p]
  /\ Goto(p, "writeConfig")
  /\ UNCHANGED <<bundle, candidate, enabled, cred, token, server, service>>

WriteConfig(p) ==
  /\ pc[p] = "writeConfig"
  /\ enabled' = TRUE
  /\ Goto(p, "removeCandidate")
  /\ UNCHANGED <<bundle, candidate, credentialFile, cred, token, server, service>>

\* Mutant: the candidate goes as soon as the exchange has been answered.
RemoveCandidateEarly(p) ==
  /\ pc[p] \in {"writeCredential", "removeCandidate"}
  /\ candidate' = None
  /\ Goto(p, IF pc[p] = "writeCredential" THEN "writeCredential" ELSE "removeBundle")
  /\ UNCHANGED <<bundle, credentialFile, enabled, cred, token, server, service>>

RemoveCandidate(p) ==
  /\ pc[p] = "removeCandidate"
  /\ candidate' = None
  /\ Goto(p, "removeBundle")
  /\ UNCHANGED <<bundle, credentialFile, enabled, cred, token, server, service>>

RemoveBundle(p) ==
  /\ pc[p] = "removeBundle"
  /\ bundle' = 0
  /\ Goto(p, "activate")
  /\ UNCHANGED <<candidate, credentialFile, enabled, cred, token, server, service>>

\* Start loads the credential the file holds, if the configuration is enabled.
Started == IF enabled THEN credentialFile ELSE None

Activate(p) ==
  /\ pc[p] = "activate"
  /\ service' = Started
  /\ Goto(p, "idle")
  /\ UNCHANGED <<files, cred, token, server>>

\* Any step fails, is refused by the server, or the process dies.
Fail(p) ==
  /\ pc[p] # "idle"
  /\ Goto(p, "idle")
  /\ UNCHANGED <<files, cred, token, server, service>>

\* The service manager starts the service, or the device is restarted.
StartService ==
  /\ service # Started
  /\ service' = Started
  /\ UNCHANGED <<files, runs, server>>

Apply(p) ==
  \/ Open(p) \/ LoadCandidate(p) \/ StoreCandidate(p) \/ Exchange(p)
  \/ WriteCredential(p) \/ WriteConfig(p) \/ RemoveCandidate(p) \/ RemoveBundle(p)
  \/ Activate(p)

Next ==
  \/ Download \/ StartService
  \/ \E t \in 1..MaxBundles : Expire(t)
  \/ \E p \in Invocations : Apply(p) \/ Fail(p)

Spec == Init /\ [][Next]_vars

(***************************************************************************)
(* The employee downloads bundles and opens them until one succeeds; a     *)
(* command that is started again and again completes each of its steps     *)
(* again and again.  A refused exchange ends the command.                  *)
(***************************************************************************)
Fairness ==
  /\ WF_vars(Download) /\ WF_vars(StartService)
  /\ \A p \in Invocations :
       /\ SF_vars(Open(p)) /\ SF_vars(LoadCandidate(p)) /\ SF_vars(StoreCandidate(p))
       /\ SF_vars(Exchange(p) /\ pc'[p] # "idle")
       /\ WF_vars(Fail(p) /\ pc[p] = "exchange" /\ ~Accepts(token[p], cred[p]))
       /\ SF_vars(WriteCredential(p)) /\ SF_vars(WriteConfig(p))

FairSpec == Spec /\ Fairness

-----------------------------------------------------------------------------
(***************************************************************************)
(* Properties.                                                             *)
(***************************************************************************)

\* With one pair command at a time, the device always holds the credential the
\* server registered for it, in the candidate or in the credential file: an
\* exchange whose answer was lost, or a crash in any later step, can be repaired
\* by opening the bundle again (loadOrCreateCandidate; the order of Apply).
RegisteredCredentialHeld == registered \in {None, candidate, credentialFile}

\* A configuration that enables sync always finds a credential file, so a
\* service start between any two steps of the first pairing does not fail
\* (WriteCredential before WriteConfig).
EnabledHasCredential == enabled => credentialFile # None

\* A bundle is given up only when the device is paired with what it was
\* exchanged for (the last steps of Apply).
BundleGivenUpWhenPaired ==
  [][bundle # 0 /\ bundle' = 0 => enabled /\ credentialFile = registered /\ candidate = None]_vars

\* If the last token is not left to expire, the service ends up with the
\* credential the server accepts.
EventuallyPaired ==
  (MaxBundles > 0 /\ [](MaxBundles \notin expired)) => <>(service # None /\ service = registered)

\* Nobody opens a bundle while another pair command is running.
OneCommand == \A p, q \in Invocations : p = q

\* The inductive invariant with one pair command at a time: what each step of
\* Apply may rely on.
PairingInv ==
  /\ TypeOK
  /\ RegisteredCredentialHeld
  /\ EnabledHasCredential
  /\ \A p \in Invocations :
       /\ pc[p] = "storeCandidate" => candidate = None /\ cred[p] # None
       /\ pc[p] \in {"exchange", "writeCredential", "writeConfig", "removeCandidate"} =>
            candidate = cred[p] /\ cred[p] # None
       /\ pc[p] \in {"exchange", "load", "storeCandidate"} => token[p] # 0
       /\ pc[p] \in {"writeCredential", "writeConfig", "removeCandidate"} =>
            registered = cred[p]
       /\ pc[p] \in {"writeConfig", "removeCandidate"} => credentialFile = cred[p]
       /\ pc[p] \in {"removeCandidate", "removeBundle", "activate"} => enabled
       /\ pc[p] \in {"removeBundle", "activate"} =>
            candidate = None /\ registered = credentialFile
=============================================================================

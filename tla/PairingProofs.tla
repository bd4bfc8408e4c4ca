---------------------------- MODULE PairingProofs ---------------------------
(***************************************************************************)
(* Proofs about Pairing, for any numbers of bundles and credentials, with  *)
(* one pair command at a time.  PairingInv says what each step of Apply    *)
(* knows: from the exchange to the removal of the candidate, the candidate *)
(* file holds what the command holds.                                      *)
(***************************************************************************)
EXTENDS Pairing, TLAPS

\* Every step of a behaviour keeps the types: tokens are those of downloaded
\* bundles, credentials those the agent generated.
LEMMA PairingTypeStep ==
  ASSUME TypeOK, [Next]_vars,
         \A p \in Invocations : pc[p] = "exchange" => token[p] # 0
  PROVE  TypeOK'
<1>a. None \notin Credentials /\ MaxBundles \in Nat
  BY PairingAssumption
<1> USE <1>a
<1>1. CASE Download
  BY <1>1 DEF Download, TypeOK, runs
<1>2. CASE StartService
  BY <1>2 DEF StartService, Started, TypeOK, files, runs, server, Credential
<1>3. ASSUME NEW t \in 1..MaxBundles, Expire(t) PROVE TypeOK'
  BY <1>3 DEF Expire, TypeOK, files, runs
<1>4. ASSUME NEW p \in Invocations, Apply(p) \/ Fail(p) PROVE TypeOK'
  <2>1. CASE Open(p)
    BY <2>1 DEF Open, Goto, TypeOK, Steps, files, server
  <2>2. CASE LoadCandidate(p)
    <3>1. PICK c \in Credential : cred' = [cred EXCEPT ![p] = c]
      BY <2>2 DEF LoadCandidate, Generate, Credential, TypeOK
    <3>2. cred' \in [Invocations -> Credential]
      BY <3>1 DEF TypeOK
    <3>3. pc' \in [Invocations -> Steps]
      BY <2>2 DEF LoadCandidate, Goto, TypeOK, Steps
    <3> QED
      BY <2>2, <3>2, <3>3 DEF LoadCandidate, TypeOK, files, server
  <2>3. CASE StoreCandidate(p)
    BY <2>3 DEF StoreCandidate, Goto, TypeOK, Steps, server
  <2>4. CASE Exchange(p)
    <3>1. token[p] \in 1..MaxBundles
      BY <2>4, <1>4 DEF Exchange, TypeOK
    <3> QED
      BY <2>4, <3>1 DEF Exchange, Goto, TypeOK, Steps, files
  <2>5. CASE WriteCredential(p)
    BY <2>5 DEF WriteCredential, Goto, TypeOK, Steps, server
  <2>6. CASE WriteConfig(p)
    BY <2>6 DEF WriteConfig, Goto, TypeOK, Steps, server
  <2>7. CASE RemoveCandidate(p)
    BY <2>7 DEF RemoveCandidate, Goto, TypeOK, Steps, Credential, server
  <2>8. CASE RemoveBundle(p)
    BY <2>8 DEF RemoveBundle, Goto, TypeOK, Steps, server
  <2>9. CASE Activate(p)
    BY <2>9 DEF Activate, Started, Goto, TypeOK, Steps, Credential, files, server
  <2>10. CASE Fail(p)
    BY <2>10 DEF Fail, Goto, TypeOK, Steps, files, server
  <2> QED
    BY <1>4, <2>1, <2>2, <2>3, <2>4, <2>5, <2>6, <2>7, <2>8, <2>9, <2>10 DEF Apply
<1>5. CASE UNCHANGED vars
  BY <1>5 DEF vars, TypeOK, files, runs, server
<1> QED
  BY <1>1, <1>2, <1>3, <1>4, <1>5 DEF Next

\* An unpaired device satisfies the inductive invariant.
LEMMA PairingInit == Init => PairingInv
<1> SUFFICES ASSUME Init PROVE PairingInv
  OBVIOUS
<1>1. /\ bundle \in 0..MaxBundles /\ issued \in 0..MaxBundles
      /\ token \in [Invocations -> 0..MaxBundles]
      /\ bound \in [1..MaxBundles -> Credential] /\ expired \in SUBSET (1..MaxBundles)
  BY PairingAssumption DEF Init, Credential
<1>2. TypeOK
  BY <1>1, Zenon DEF Init, TypeOK, Steps, Credential
<1> QED
  BY <1>2 DEF Init, PairingInv, RegisteredCredentialHeld, EnabledHasCredential

\* What a step of the command itself must establish for the invariant: the other
\* conjuncts are about this one command.
LEMMA ApplyStep ==
  ASSUME OneCommand, PairingInv, TypeOK', NEW p \in Invocations, Apply(p) \/ Fail(p)
  PROVE  PairingInv'
<1>a. None \notin Credentials /\ MaxBundles \in Nat
  BY PairingAssumption
<1> USE <1>a
<1>0. \A q \in Invocations : q = p
  BY DEF OneCommand
<1>1. CASE Open(p)
  BY <1>0, <1>1 DEF Open, Goto, PairingInv, TypeOK, RegisteredCredentialHeld,
     EnabledHasCredential, files, server
<1>2. CASE LoadCandidate(p)
  BY <1>0, <1>2 DEF LoadCandidate, Generate, Goto, PairingInv, TypeOK, Credential,
     RegisteredCredentialHeld, EnabledHasCredential, files, server
<1>3. CASE StoreCandidate(p)
  BY <1>0, <1>3 DEF StoreCandidate, Goto, PairingInv, TypeOK,
     RegisteredCredentialHeld, EnabledHasCredential, server
<1>4. CASE Exchange(p)
  BY <1>0, <1>4 DEF Exchange, Goto, PairingInv, TypeOK,
     RegisteredCredentialHeld, EnabledHasCredential, files
<1>5. CASE WriteCredential(p)
  BY <1>0, <1>5 DEF WriteCredential, Goto, PairingInv, TypeOK,
     RegisteredCredentialHeld, EnabledHasCredential, server
<1>6. CASE WriteConfig(p)
  BY <1>0, <1>6 DEF WriteConfig, Goto, PairingInv, TypeOK,
     RegisteredCredentialHeld, EnabledHasCredential, server
<1>7. CASE RemoveCandidate(p)
  BY <1>0, <1>7 DEF RemoveCandidate, Goto, PairingInv, TypeOK,
     RegisteredCredentialHeld, EnabledHasCredential, server
<1>8. CASE RemoveBundle(p)
  BY <1>0, <1>8 DEF RemoveBundle, Goto, PairingInv, TypeOK,
     RegisteredCredentialHeld, EnabledHasCredential, server
<1>9. CASE Activate(p)
  BY <1>0, <1>9 DEF Activate, Goto, PairingInv, TypeOK,
     RegisteredCredentialHeld, EnabledHasCredential, files, server
<1>10. CASE Fail(p)
  BY <1>0, <1>10 DEF Fail, Goto, PairingInv, TypeOK,
     RegisteredCredentialHeld, EnabledHasCredential, files, server
<1> QED
  BY <1>1, <1>2, <1>3, <1>4, <1>5, <1>6, <1>7, <1>8, <1>9, <1>10 DEF Apply

\* Every step keeps the inductive invariant.
LEMMA PairingStep == OneCommand /\ PairingInv /\ [Next]_vars => PairingInv'
<1> SUFFICES ASSUME OneCommand, PairingInv, [Next]_vars PROVE PairingInv'
  OBVIOUS
<1>0. TypeOK'
  BY PairingTypeStep DEF PairingInv
<1>1. CASE Download
  BY <1>0, <1>1 DEF Download, PairingInv, RegisteredCredentialHeld, EnabledHasCredential, runs
<1>2. CASE StartService
  BY <1>0, <1>2 DEF StartService, PairingInv, RegisteredCredentialHeld, EnabledHasCredential,
     files, runs, server
<1>3. ASSUME NEW t \in 1..MaxBundles, Expire(t) PROVE PairingInv'
  BY <1>0, <1>3 DEF Expire, PairingInv, RegisteredCredentialHeld, EnabledHasCredential,
     files, runs
<1>4. ASSUME NEW p \in Invocations, Apply(p) \/ Fail(p) PROVE PairingInv'
  BY <1>0, <1>4, ApplyStep
<1>5. CASE UNCHANGED vars
  BY <1>0, <1>5 DEF vars, PairingInv, RegisteredCredentialHeld, EnabledHasCredential,
     files, runs, server
<1> QED
  BY <1>1, <1>2, <1>3, <1>4, <1>5 DEF Next

\* The inductive invariant holds in every reachable state.
THEOREM PairingAlways == ASSUME OneCommand PROVE Spec => []PairingInv
<1>1. PairingInv /\ [Next]_vars => PairingInv'
  BY PairingStep
<1> QED
  BY <1>1, PairingInit, PTL DEF Spec

\* The device never loses the credential the server registered for it.
THEOREM CredentialNeverLost == ASSUME OneCommand PROVE Spec => []RegisteredCredentialHeld
<1>1. PairingInv => RegisteredCredentialHeld
  BY DEF PairingInv
<1> QED
  BY <1>1, PairingAlways, PTL

\* A configuration that enables sync finds a credential file.
THEOREM EnabledFindsCredential == ASSUME OneCommand PROVE Spec => []EnabledHasCredential
<1>1. PairingInv => EnabledHasCredential
  BY DEF PairingInv
<1> QED
  BY <1>1, PairingAlways, PTL

\* The bundle goes only when the device is paired.
THEOREM BundleGivenUpLast == ASSUME OneCommand PROVE Spec => BundleGivenUpWhenPaired
<1>1. ASSUME PairingInv, [Next]_vars
      PROVE  bundle # 0 /\ bundle' = 0 =>
               enabled /\ credentialFile = registered /\ candidate = None
  BY <1>1 DEF Next, Apply, Download, StartService, Expire, Open, LoadCandidate,
     StoreCandidate, Exchange, WriteCredential, WriteConfig, RemoveCandidate, RemoveBundle,
     Activate, Fail, vars, files, PairingInv, TypeOK
<1> QED
  BY <1>1, PairingAlways, PTL DEF Spec, BundleGivenUpWhenPaired
=============================================================================

------------------- MODULE ManagedSignerKeyLifecycle -------------------
(***************************************************************************)
(* The lifecycle of the keys of one purpose, as the controller in          *)
(* managed-signer-key-lifecycle.mjs computes it and                        *)
(* agentpass_managed_signer_lifecycle_apply stores it.  A snapshot is one  *)
(* row with a version and an append-only sequence of keys; every mutation  *)
(* names the version it was computed from, so a lost race is a refusal     *)
(* that changes nothing.  Key material, fingerprints and verification      *)
(* deadlines are left out.                                                 *)
(***************************************************************************)
EXTENDS Naturals, Sequences

CONSTANTS MaxKeys,      \* maxKeys of the controller
          MaxVersion    \* bound on the snapshots TLC explores

ASSUME LifecycleAssumption == MaxKeys \in Nat \ {0} /\ MaxVersion \in Nat \ {0}

VARIABLE lifecycle      \* [version, keys]: the stored snapshot

KeyStates == {"active", "retiring", "revoked", "emergency-disabled"}
KeyRecords == [state : KeyStates, stateVersion : 1..MaxVersion]

(* What normalizeSnapshot accepts.                                         *)
Snapshots ==
  {s \in [version : 1..MaxVersion,
          keys : UNION {[1..n -> KeyRecords] : n \in 1..MaxKeys}] :
     /\ \A i \in DOMAIN s.keys : s.keys[i].stateVersion <= s.version
     /\ \A i, j \in DOMAIN s.keys :
          s.keys[i].state = "active" /\ s.keys[j].state = "active" => i = j}

(* initialize stores one active key; the second state is the one a rotate  *)
(* of it leaves, the usual state of a running deployment, where the limits *)
(* admit it.                                                               *)
LifecycleInit ==
  lifecycle \in Snapshots \cap
    {[version |-> 1, keys |-> <<[state |-> "active", stateVersion |-> 1]>>],
     [version |-> 2, keys |-> <<[state |-> "retiring", stateVersion |-> 2],
                                [state |-> "active", stateVersion |-> 2]>>]}

assertTransition(from, to) ==
  CASE from = "active"   -> to \in KeyStates \ {"active"}
    [] from = "retiring" -> to \in {"revoked", "emergency-disabled"}
    [] from = "revoked"  -> to = "emergency-disabled"
    [] OTHER             -> FALSE

commit(keys) ==
  /\ lifecycle.version < MaxVersion
  /\ lifecycle' = [version |-> lifecycle.version + 1, keys |-> keys]

AtNextVersion(state) == [state |-> state, stateVersion |-> lifecycle.version + 1]
HasActive == \E i \in DOMAIN lifecycle.keys : lifecycle.keys[i].state = "active"

transitionKey(k, to) ==
  /\ k \in DOMAIN lifecycle.keys
  /\ assertTransition(lifecycle.keys[k].state, to)
  /\ commit([lifecycle.keys EXCEPT ![k] = AtNextVersion(to)])

rotate ==
  /\ HasActive
  /\ Len(lifecycle.keys) < MaxKeys
  /\ commit(Append([i \in DOMAIN lifecycle.keys |->
                      IF lifecycle.keys[i].state = "active"
                        THEN AtNextVersion("retiring") ELSE lifecycle.keys[i]],
                   AtNextVersion("active")))

emergencyDisable ==
  /\ \E i \in DOMAIN lifecycle.keys : lifecycle.keys[i].state # "emergency-disabled"
  /\ commit([i \in DOMAIN lifecycle.keys |-> AtNextVersion("emergency-disabled")])

restore ==
  /\ ~HasActive
  /\ Len(lifecycle.keys) < MaxKeys
  /\ commit(Append(lifecycle.keys, AtNextVersion("active")))

LifecycleNext ==
  \/ \E k \in 1..MaxKeys, to \in KeyStates : transitionKey(k, to)
  \/ rotate
  \/ emergencyDisable
  \/ restore

(* The condition under which the signing authority lets key k sign.        *)
MaySign(k) ==
  /\ k \in DOMAIN lifecycle.keys
  /\ lifecycle.keys[k] = [state |-> "active", stateVersion |-> lifecycle.version]
=============================================================================

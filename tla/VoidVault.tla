------------------------------- MODULE VoidVault -------------------------------
(***************************************************************************)
(* The vault of packages/void/src/VoidService.ts: sealing by shards, and   *)
(* the life of the secrets.  A call runs until its first await; what it    *)
(* does after is an action of its own, so that calls, timers and the seal  *)
(* interleave.  A call in flight is a slot: its operation, the secret (for *)
(* "shard" the index, for "auto" the place in the scan) and a flag (break  *)
(* glass access, critical quarantine, rotation by the scheduled scan).     *)
(*                                                                         *)
(* Secrets are numbered in the order of the map.  A payload is the version *)
(* whose value it encrypts, or Shredded.  Left out: the audit log, access  *)
(* policies and rate limits (a read is let in or not), proof bindings, Shamir splitting of   *)
(* single secrets and lists.  GDPR erasure looks at data subjects, which   *)
(* nothing records, so it changes nothing.                                 *)
(***************************************************************************)
EXTENDS Naturals, Sequences, FiniteSets

CONSTANTS
  ShardIndex, Threshold,   \* the shards, and config.shamirThreshold
  Slot,                    \* bound: the calls in flight at once
  MaxSecrets, MaxWrites, MaxTimers  \* bounds: secrets, new versions, timers at once

ASSUME VaultAssumption ==
  /\ IsFiniteSet(ShardIndex) /\ ShardIndex \subseteq Nat
  /\ Threshold \in 1..Cardinality(ShardIndex)
  /\ MaxSecrets \in Nat /\ MaxWrites \in Nat /\ MaxTimers \in Nat

VARIABLES
  seal,      \* sealStatus: sealed, and the shards counted and missing
  shards,    \* the indexes in unsealShards
  accepted,  \* history: shards accepted since the vault was last sealed
  secrets,   \* the envelopes
  timers,    \* for each secret, the break glass rotations waiting in setTimeout
  calls      \* the calls in flight

sealing == <<seal, shards, accepted>>
vars == <<sealing, secrets, timers, calls>>

Shredded == 0
Status == {"ACTIVE", "ROTATING", "EXPIRED", "QUARANTINED", "SHREDDED"}
Secret == [status: Status, version: Nat \ {0}, previousVersions: Seq(Nat), payload: Nat,
           lapsed: BOOLEAN,   \* expiresAt has passed
           due: BOOLEAN]      \* rotationConfig.nextRotationAt has passed

\* The operations that requireUnsealed() guards, and the others.
Gated == {"store", "access", "update", "rotate", "shred"}
Call == [op: Gated \cup {"idle", "shard", "auto", "warp", "burn"}, id: Nat, flag: BOOLEAN]
Idle == [op |-> "idle", id |-> 0, flag |-> FALSE]

Ids == DOMAIN secrets
InFlight(ops) == {c \in Slot : calls[c].op \in ops}
Written == {v \in Ids \X (1..MaxWrites) : v[2] < secrets[v[1]].version}
RoomForVersion == Cardinality(Written) + Cardinality(InFlight({"update", "rotate"})) < MaxWrites
RoomForTimer == Cardinality({s \in Ids : timers[s] > 0}) + Cardinality(InFlight({"access"})) < MaxTimers

Begin(c, op, id, flag) ==
  /\ calls[c] = Idle
  /\ calls' = [calls EXCEPT ![c] = [op |-> op, id |-> id, flag |-> flag]]
End(c) == calls' = [calls EXCEPT ![c] = Idle]

Init ==
  /\ seal = [sealed |-> TRUE, provided |-> 0, remaining |-> Threshold]
  /\ shards = {} /\ accepted = {}
  /\ secrets = <<>> /\ timers = <<>>
  /\ calls = [c \in Slot |-> Idle]

-----------------------------------------------------------------------------
(* The seal *)

ProvideUnsealShard(c, i) ==
  /\ seal.sealed
  /\ Begin(c, "shard", i, FALSE)
  /\ UNCHANGED <<sealing, secrets, timers>>

Missing(n) == IF n < Threshold THEN Threshold - n ELSE 0

\* The signature was verified: the shard is stored whatever the seal is now,
\* and the shard that completes the threshold opens the vault.
ShardVerified(c) ==
  /\ calls[c].op = "shard"
  /\ LET held == shards \cup {calls[c].id}
         n == Cardinality(held)
     IN  IF n >= Threshold
         THEN /\ seal' = [sealed |-> FALSE, provided |-> n, remaining |-> 0]
              /\ shards' = {}
         ELSE /\ seal' = [seal EXCEPT !.provided = n, !.remaining = Missing(n)]
              /\ shards' = held
  /\ accepted' = accepted \cup {calls[c].id}
  /\ End(c)
  /\ UNCHANGED <<secrets, timers>>

ShardRejected(c) ==
  /\ calls[c].op = "shard"
  /\ End(c)
  /\ UNCHANGED <<sealing, secrets, timers>>

(* Mutant: the shards given so far are kept. *)
SealKeepsShards ==
  /\ seal' = [sealed |-> TRUE, provided |-> 0, remaining |-> Threshold]
  /\ accepted' = {}
  /\ UNCHANGED <<shards, secrets, timers, calls>>

SealVault ==
  /\ seal' = [sealed |-> TRUE, provided |-> 0, remaining |-> Threshold]
  /\ shards' = {} /\ accepted' = {}
  /\ UNCHANGED <<secrets, timers, calls>>

-----------------------------------------------------------------------------
(* Storing and reading *)

BeginStore(c) ==
  /\ ~seal.sealed
  /\ Len(secrets) + Cardinality(InFlight({"store"})) < MaxSecrets
  /\ Begin(c, "store", 0, FALSE)
  /\ UNCHANGED <<sealing, secrets, timers>>

Stored(c) ==
  /\ calls[c].op = "store"
  /\ secrets' = Append(secrets, [status |-> "ACTIVE", version |-> 1, previousVersions |-> <<>>,
                                 payload |-> 1, lapsed |-> FALSE, due |-> FALSE])
  /\ timers' = Append(timers, 0)
  /\ End(c)
  /\ UNCHANGED <<sealing>>

Withdrawn == {"SHREDDED", "QUARANTINED"}

(* Mutant: a sealed vault is read. *)
RetrieveThroughSeal(c, s, breakGlass) ==
  /\ secrets[s].status \notin Withdrawn /\ ~secrets[s].lapsed
  /\ breakGlass => RoomForTimer
  /\ Begin(c, "access", s, breakGlass)
  /\ UNCHANGED <<sealing, secrets, timers>>

\* Status and expiry are looked at before the access check.
BeginRetrieve(c, s, breakGlass) ==
  /\ ~seal.sealed
  /\ secrets[s].status \notin Withdrawn /\ ~secrets[s].lapsed
  /\ breakGlass => RoomForTimer
  /\ Begin(c, "access", s, breakGlass)
  /\ UNCHANGED <<sealing, secrets, timers>>

RetrieveExpired(s) ==
  /\ ~seal.sealed
  /\ secrets[s].status \notin Withdrawn /\ secrets[s].lapsed
  /\ secrets' = [secrets EXCEPT ![s].status = "EXPIRED"]
  /\ UNCHANGED <<sealing, timers, calls>>

\* Access granted: a break glass access has a rotation follow in five seconds.
Granted(c) ==
  /\ calls[c].op = "access"
  /\ timers' = IF calls[c].flag THEN [timers EXCEPT ![calls[c].id] = @ + 1] ELSE timers
  /\ End(c)
  /\ UNCHANGED <<sealing, secrets>>

Denied(c) ==
  /\ calls[c].op = "access"
  /\ End(c)
  /\ UNCHANGED <<sealing, secrets, timers>>

-----------------------------------------------------------------------------
(* Writing: none of these looks at the status of the secret *)

(* Mutant: only a version that a rotation replaces is recorded. *)
NewVersionWhileRotating(e, status) ==
  [e EXCEPT !.status = status, !.version = e.version + 1, !.payload = e.version + 1,
            !.previousVersions = IF e.status = "ROTATING" THEN Append(@, e.version) ELSE @]

NewVersion(e, status) ==
  [e EXCEPT !.status = status, !.version = e.version + 1, !.payload = e.version + 1,
            !.previousVersions = Append(@, e.version)]

BeginUpdate(c, s) ==
  /\ ~seal.sealed
  /\ RoomForVersion
  /\ Begin(c, "update", s, FALSE)
  /\ UNCHANGED <<sealing, secrets, timers>>

Updated(c) ==
  /\ calls[c].op = "update"
  /\ LET s == calls[c].id IN secrets' = [secrets EXCEPT ![s] = NewVersion(@, @.status)]
  /\ End(c)
  /\ UNCHANGED <<sealing, timers>>

\* cryptoShred() is done before the await of deleteSecret(), the status after.
BeginDelete(c, s) ==
  /\ ~seal.sealed
  /\ Begin(c, "shred", s, FALSE)
  /\ secrets' = [secrets EXCEPT ![s].payload = Shredded]
  /\ UNCHANGED <<sealing, timers>>

Deleted(c) ==
  /\ calls[c].op = "shred"
  /\ secrets' = [secrets EXCEPT ![calls[c].id].status = "SHREDDED"]
  /\ End(c)
  /\ UNCHANGED <<sealing, timers>>

-----------------------------------------------------------------------------
(* Rotation *)

StartRotation(c, s, auto) ==
  /\ RoomForVersion
  /\ calls' = [calls EXCEPT ![c] = [op |-> "rotate", id |-> s, flag |-> auto]]
  /\ secrets' = [secrets EXCEPT ![s].status = "ROTATING"]

RotateSecret(c, s) ==
  /\ calls[c] = Idle /\ ~seal.sealed
  /\ StartRotation(c, s, FALSE)
  /\ UNCHANGED <<sealing, timers>>

\* The rotation of a scan goes back to the scan, which goes on with the next.
AfterRotation(c) ==
  calls' = [calls EXCEPT ![c] = IF @.flag THEN [op |-> "auto", id |-> @.id + 1, flag |-> FALSE] ELSE Idle]

Rotated(c) ==
  /\ calls[c].op = "rotate"
  /\ LET s == calls[c].id
     IN  secrets' = [secrets EXCEPT ![s] = [NewVersion(@, "ACTIVE") EXCEPT !.due = FALSE]]
  /\ AfterRotation(c)
  /\ UNCHANGED <<sealing, timers>>

(* Mutant: the error path puts the value it found back.                      *)
RotationFailedRestores(c) ==
  /\ calls[c].op = "rotate"
  /\ LET s == calls[c].id
     IN  secrets' = [secrets EXCEPT ![s] = [@ EXCEPT !.status = "ACTIVE", !.payload = secrets[s].version]]
  /\ AfterRotation(c)
  /\ UNCHANGED <<sealing, timers>>

RotationFailed(c) ==
  /\ calls[c].op = "rotate"
  /\ secrets' = [secrets EXCEPT ![calls[c].id].status = "ACTIVE"]
  /\ AfterRotation(c)
  /\ UNCHANGED <<sealing, timers>>

RunAutoRotation(c) ==
  /\ Begin(c, "auto", 1, FALSE)
  /\ UNCHANGED <<sealing, secrets, timers>>

\* The scan goes to the next secret that is due; a sealed vault refuses it.
AutoRotationGoesOn(c) ==
  /\ calls[c].op = "auto"
  /\ LET due == {s \in Ids : s >= calls[c].id /\ secrets[s].due}
     IN  \/ due = {} /\ End(c) /\ UNCHANGED secrets
         \/ \E s \in due :
              /\ \A r \in due : s <= r
              /\ IF seal.sealed
                 THEN calls' = [calls EXCEPT ![c].id = s + 1] /\ UNCHANGED secrets
                 ELSE StartRotation(c, s, TRUE)
  /\ UNCHANGED <<sealing, timers>>

\* The timer of a break glass access: a sealed vault lets the rotation go by.
BreakGlassRotation(c, s) ==
  /\ calls[c] = Idle /\ timers[s] > 0
  /\ timers' = [timers EXCEPT ![s] = @ - 1]
  /\ IF seal.sealed THEN UNCHANGED <<calls, secrets>> ELSE StartRotation(c, s, FALSE)
  /\ UNCHANGED <<sealing>>

-----------------------------------------------------------------------------
(* Quarantine: the stages of the warp tunnel only wait *)

QuarantineSecret(c, s, critical) ==
  /\ Begin(c, "warp", s, critical)
  /\ UNCHANGED <<sealing, secrets, timers>>

Quarantined(c) ==
  /\ calls[c].op = "warp"
  /\ LET s == calls[c].id
     IN  IF calls[c].flag
         THEN /\ secrets' = [secrets EXCEPT ![s] = [@ EXCEPT !.status = "QUARANTINED", !.payload = Shredded]]
              /\ calls' = [calls EXCEPT ![c].op = "burn"]
         ELSE /\ secrets' = [secrets EXCEPT ![s].status = "QUARANTINED"]
              /\ End(c)
  /\ UNCHANGED <<sealing, timers>>

Burnt(c) ==
  /\ calls[c].op = "burn"
  /\ secrets' = [secrets EXCEPT ![calls[c].id].status = "SHREDDED"]
  /\ End(c)
  /\ UNCHANGED <<sealing, timers>>

-----------------------------------------------------------------------------
(* Time passes: a secret lapses or becomes due. *)
TimePasses ==
  /\ \E s \in Ids : \/ secrets' = [secrets EXCEPT ![s].lapsed = TRUE]
                    \/ secrets' = [secrets EXCEPT ![s].due = TRUE]
  /\ UNCHANGED <<sealing, timers, calls>>

\* What a slot does after its await.
GoesOn(c) ==
  \/ ShardVerified(c) \/ ShardRejected(c)
  \/ Stored(c) \/ Granted(c) \/ Denied(c)
  \/ Updated(c) \/ Deleted(c)
  \/ Rotated(c) \/ RotationFailed(c) \/ AutoRotationGoesOn(c)
  \/ Quarantined(c) \/ Burnt(c)

Starts(c) ==
  \/ \E i \in ShardIndex : ProvideUnsealShard(c, i)
  \/ BeginStore(c) \/ RunAutoRotation(c)
  \/ \E s \in Ids :
       \/ \E breakGlass \in BOOLEAN : BeginRetrieve(c, s, breakGlass)
       \/ BeginUpdate(c, s) \/ BeginDelete(c, s) \/ RotateSecret(c, s)
       \/ BreakGlassRotation(c, s)
       \/ \E critical \in BOOLEAN : QuarantineSecret(c, s, critical)

Next ==
  \/ SealVault \/ TimePasses
  \/ \E s \in Ids : RetrieveExpired(s)
  \/ \E c \in Slot : Starts(c) \/ GoesOn(c)

Spec == Init /\ [][Next]_vars
\* The event loop resumes every await.
FairSpec == Spec /\ \A c \in Slot : WF_vars(GoesOn(c))

-----------------------------------------------------------------------------
(* Properties *)

\* The variables have their types; a call in flight names a secret there is.
TypeOK ==
  /\ seal \in [sealed: BOOLEAN, provided: Nat, remaining: Nat]
  /\ shards \subseteq ShardIndex /\ accepted \subseteq ShardIndex
  /\ secrets \in Seq(Secret)
  /\ timers \in Seq(Nat) /\ Len(timers) = Len(secrets)
  /\ calls \in [Slot -> Call]
  /\ \A c \in InFlight({"access", "update", "rotate", "shred", "warp", "burn"}) : calls[c].id \in Ids
  /\ \A c \in InFlight({"shard"}) : calls[c].id \in ShardIndex

\* However updates and rotations of a secret overlap, every version is
\* recorded once and in order, and what is stored is the value of the newest
\* version: a value that was shredded or replaced never comes back.
NoVersionLost ==
  \A s \in Ids :
    /\ secrets[s].previousVersions = [v \in 1..(secrets[s].version - 1) |-> v]
    /\ secrets[s].payload \in {Shredded, secrets[s].version}

\* A secret is only ROTATING while a rotation of it is in flight: none is left
\* in that status by a failure, a seal or a second rotation.
RotationInFlight ==
  \A s \in Ids : secrets[s].status = "ROTATING" =>
                   \E c \in InFlight({"rotate"}) : calls[c].id = s

\* Both together: what updateSecret(), rotateSecret() and the error path of a rotation
\* write after their awaits never leaves a secret between two versions.
SecretsConsistent == NoVersionLost /\ RotationInFlight

\* The vault is open only if a threshold of different shards was accepted since
\* it was last sealed, although shards verified late are stored in a vault that
\* was opened, or sealed, in the meantime.
QuorumUnseals == ~seal.sealed => Cardinality(accepted) >= Threshold

\* Once the vault stays sealed, the calls that were let in before come to an
\* end and none follows: no guarded operation is in flight, and none is ROTATING.
SealTakesHold ==
  <>[]seal.sealed => <>[](InFlight(Gated) = {} /\ \A s \in Ids : secrets[s].status # "ROTATING")
-----------------------------------------------------------------------------
(* However the calls on a secret overlap at their awaits, to a reader the vault  *)
(* is a versioned store: a write is one new version of the secret it found when *)
(* it resumed, and no failed rotation, late write or warp tunnel brings a       *)
(* replaced or shredded value back.                                             *)
Versions(e) == [past |-> e.previousVersions, newest |-> e.version, value |-> e.payload]

Abstract == INSTANCE VersionedStore WITH
  Erased <- Shredded,
  items <- [s \in Ids |-> Versions(secrets[s])]

ImplementsStore == Abstract!SSpec
===============================================================================

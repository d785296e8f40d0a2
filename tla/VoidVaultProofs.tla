---------------------------- MODULE VoidVaultProofs ----------------------------
(* Proofs about the vault, for any shards, threshold, calls and bounds.         *)
EXTENDS VoidVault, FiniteSetTheorems, SequenceTheorems, TLAPS

(* What a step may do to an envelope: write no value, or write the next one.    *)
Kept(r, e) ==
  /\ e.version = r.version /\ e.previousVersions = r.previousVersions
  /\ e.payload \in {Shredded, r.payload}
Grown(r, e) ==
  /\ e.version = r.version + 1 /\ e.payload = r.version + 1
  /\ e.previousVersions = Append(r.previousVersions, r.version)
First == [status |-> "ACTIVE", version |-> 1, previousVersions |-> <<>>,
          payload |-> 1, lapsed |-> FALSE, due |-> FALSE]
Change(s) ==
  \E e \in Secret : (Kept(secrets[s], e) \/ Grown(secrets[s], e)) /\ secrets' = [secrets EXCEPT ![s] = e]

LEMMA KeptForms ==
  ASSUME NEW r \in Secret, NEW x \in Status
  PROVE  /\ [r EXCEPT !.status = x] \in Secret /\ Kept(r, [r EXCEPT !.status = x])
         /\ [r EXCEPT !.payload = Shredded] \in Secret /\ Kept(r, [r EXCEPT !.payload = Shredded])
         /\ [r EXCEPT !.status = x, !.payload = Shredded] \in Secret
         /\ Kept(r, [r EXCEPT !.status = x, !.payload = Shredded])
         /\ [r EXCEPT !.lapsed = TRUE] \in Secret /\ Kept(r, [r EXCEPT !.lapsed = TRUE])
         /\ [r EXCEPT !.due = TRUE] \in Secret /\ Kept(r, [r EXCEPT !.due = TRUE])
<1>1. [r EXCEPT !.status = x] \in Secret /\ Kept(r, [r EXCEPT !.status = x])
  BY DEF Secret, Kept
<1>2. [r EXCEPT !.payload = Shredded] \in Secret /\ Kept(r, [r EXCEPT !.payload = Shredded])
  BY DEF Secret, Kept, Shredded
<1>3. /\ [r EXCEPT !.status = x, !.payload = Shredded] \in Secret
      /\ Kept(r, [r EXCEPT !.status = x, !.payload = Shredded])
  BY DEF Secret, Kept, Shredded
<1>4. [r EXCEPT !.lapsed = TRUE] \in Secret /\ Kept(r, [r EXCEPT !.lapsed = TRUE])
  BY DEF Secret, Kept
<1>5. [r EXCEPT !.due = TRUE] \in Secret /\ Kept(r, [r EXCEPT !.due = TRUE])
  BY DEF Secret, Kept
<1> QED BY <1>1, <1>2, <1>3, <1>4, <1>5

LEMMA GrownForms ==
  ASSUME NEW r \in Secret, NEW x \in Status
  PROVE  /\ NewVersion(r, x) \in Secret /\ Grown(r, NewVersion(r, x))
         /\ [NewVersion(r, x) EXCEPT !.due = FALSE] \in Secret
         /\ Grown(r, [NewVersion(r, x) EXCEPT !.due = FALSE])
<1>1. Append(r.previousVersions, r.version) \in Seq(Nat)
  BY AppendProperties DEF Secret
<1>2. NewVersion(r, x) \in Secret /\ Grown(r, NewVersion(r, x))
  <2> DEFINE p == Append(r.previousVersions, r.version)
             n == [r EXCEPT !.status = x, !.version = r.version + 1, !.payload = r.version + 1,
                            !.previousVersions = p]
  <2>1. n = NewVersion(r, x)
    BY DEF NewVersion
  <2> HIDE DEF p
  <2>2. r.version + 1 \in Nat \ {0}
    BY DEF Secret
  <2>3. n \in Secret
    BY <1>1, <2>2 DEF p, Secret
  <2>4. n.version = r.version + 1 /\ n.payload = r.version + 1 /\ n.previousVersions = p
    BY DEF Secret
  <2> QED BY <2>1, <2>3, <2>4 DEF p, Grown
<1>3. ASSUME NEW e \in Secret, Grown(r, e)
      PROVE  [e EXCEPT !.due = FALSE] \in Secret /\ Grown(r, [e EXCEPT !.due = FALSE])
  <2>1. [e EXCEPT !.due = FALSE] \in Secret
    BY DEF Secret
  <2>2. /\ [e EXCEPT !.due = FALSE].version = e.version /\ [e EXCEPT !.due = FALSE].payload = e.payload
        /\ [e EXCEPT !.due = FALSE].previousVersions = e.previousVersions
    BY DEF Secret
  <2> QED BY <1>3, <2>1, <2>2 DEF Grown
<1> QED BY <1>2, <1>3

LEMMA SecretOf ==
  ASSUME TypeOK, NEW s \in Ids
  PROVE  secrets[s] \in Secret /\ s \in 1..Len(secrets)
BY LenProperties, ElementOfSeq DEF Ids, TypeOK

LEMMA StatusChange ==
  ASSUME TypeOK, NEW s \in Ids, NEW x \in Status, secrets' = [secrets EXCEPT ![s].status = x]
  PROVE  Change(s)
BY SecretOf, KeptForms DEF Change

(* A step that stores no secret leaves the secrets alone or changes one.         *)
LEMMA SecretStep ==
  ASSUME TypeOK, Next
  PROVE  \/ secrets' = secrets
         \/ \E c \in Slot : Stored(c)
         \/ \E s \in Ids : Change(s)
<1> USE DEF Status
<1>1. CASE SealVault \/ TimePasses \/ \E s \in Ids : RetrieveExpired(s)
  <2>1. CASE SealVault
    BY <2>1 DEF SealVault
  <2>2. CASE TimePasses
    <3>1. PICK s \in Ids : \/ secrets' = [secrets EXCEPT ![s].lapsed = TRUE]
                           \/ secrets' = [secrets EXCEPT ![s].due = TRUE]
      BY <2>2 DEF TimePasses
    <3>2. CASE secrets' = [secrets EXCEPT ![s].lapsed = TRUE]
      BY <3>2, SecretOf, KeptForms DEF Change
    <3>3. CASE secrets' = [secrets EXCEPT ![s].due = TRUE]
      BY <3>3, SecretOf, KeptForms DEF Change
    <3> QED BY <3>1, <3>2, <3>3
  <2>3. ASSUME NEW s \in Ids, RetrieveExpired(s)
        PROVE  Change(s)
    BY <2>3, StatusChange DEF RetrieveExpired
  <2> QED BY <1>1, <2>1, <2>2, <2>3
<1>2. ASSUME NEW c \in Slot, Starts(c)
      PROVE  secrets' = secrets \/ \E s \in Ids : Change(s)
  <2>1. ASSUME NEW s \in Ids, NEW auto, StartRotation(c, s, auto)
        PROVE  Change(s)
    BY <2>1, StatusChange DEF StartRotation
  <2>2. ASSUME NEW s \in Ids, BeginDelete(c, s)
        PROVE  Change(s)
    BY <2>2, SecretOf, KeptForms DEF BeginDelete, Change
  <2>3. ASSUME NEW s \in Ids, RotateSecret(c, s) \/ BreakGlassRotation(c, s)
        PROVE  secrets' = secrets \/ Change(s)
    BY <2>1, <2>3 DEF RotateSecret, BreakGlassRotation
  <2> QED BY <1>2, <2>2, <2>3
        DEF Starts, ProvideUnsealShard, BeginStore, RunAutoRotation, BeginRetrieve, BeginUpdate, QuarantineSecret
<1>3. ASSUME NEW c \in Slot, GoesOn(c)
      PROVE  \/ secrets' = secrets \/ Stored(c)
             \/ \E s \in Ids : Change(s)
  <2> DEFINE s == calls[c].id
  <2>1. CASE Stored(c)
    BY <2>1
  <2>2. CASE Updated(c)
    <3>1. s \in Ids
      BY <2>2 DEF Updated, TypeOK, InFlight
    <3>2. secrets[s] \in Secret /\ secrets[s].status \in Status
      BY <3>1, SecretOf DEF Secret
    <3> QED BY <2>2, <3>1, <3>2, GrownForms DEF Updated, Change
  <2>3. CASE Deleted(c) \/ Burnt(c) \/ RotationFailed(c)
    <3>1. s \in Ids
      BY <2>3 DEF Deleted, Burnt, RotationFailed, TypeOK, InFlight
    <3> QED BY <2>3, <3>1, StatusChange DEF Deleted, Burnt, RotationFailed
  <2>4. CASE Rotated(c)
    <3>1. s \in Ids
      BY <2>4 DEF Rotated, TypeOK, InFlight
    <3> QED BY <2>4, <3>1, SecretOf, GrownForms DEF Rotated, Change
  <2>5. CASE AutoRotationGoesOn(c)
    BY <2>5, StatusChange DEF AutoRotationGoesOn, StartRotation
  <2>6. CASE Quarantined(c)
    <3>1. s \in Ids
      BY <2>6 DEF Quarantined, TypeOK, InFlight
    <3>2. CASE calls[c].flag
      BY <2>6, <3>1, <3>2, SecretOf, KeptForms DEF Quarantined, Change
    <3>3. CASE ~calls[c].flag
      BY <2>6, <3>1, <3>3, StatusChange DEF Quarantined
    <3> QED BY <3>2, <3>3
  <2> QED BY <1>3, <2>1, <2>2, <2>3, <2>4, <2>5, <2>6
        DEF GoesOn, ShardVerified, ShardRejected, Granted, Denied
<1> QED BY <1>1, <1>2, <1>3 DEF Next

LEMMA TimerStep ==
  ASSUME TypeOK, Next
  PROVE  \/ \E c \in Slot : Stored(c)
         \/ timers' \in Seq(Nat) /\ Len(timers') = Len(timers)
<1>1. timers \in Seq(Nat) /\ DOMAIN timers = Ids /\ Ids = 1..Len(timers)
  BY LenProperties DEF TypeOK, Ids
<1>2. ASSUME NEW s \in Ids, timers' = [timers EXCEPT ![s] = @ + 1] \/ (timers[s] > 0 /\ timers' = [timers EXCEPT ![s] = @ - 1])
      PROVE  timers' \in Seq(Nat) /\ Len(timers') = Len(timers)
  <2>1. timers[s] \in Nat
    BY <1>1, ElementOfSeq
  <2>2. \E n \in Nat : timers' = [timers EXCEPT ![s] = n]
    BY <1>2, <2>1
  <2> QED BY <1>1, <2>2, ExceptSeq
<1>3. ASSUME NEW c \in Slot, Granted(c)
      PROVE  timers' \in Seq(Nat) /\ Len(timers') = Len(timers)
  <2>1. calls[c].id \in Ids
    BY <1>3 DEF Granted, TypeOK, InFlight
  <2> QED BY <1>1, <1>2, <1>3, <2>1 DEF Granted
<1>4. ASSUME NEW c \in Slot, NEW s \in Ids, BreakGlassRotation(c, s)
      PROVE  timers' \in Seq(Nat) /\ Len(timers') = Len(timers)
  BY <1>2, <1>4 DEF BreakGlassRotation
<1>5. ASSUME UNCHANGED timers
      PROVE  timers' \in Seq(Nat) /\ Len(timers') = Len(timers)
  BY <1>1, <1>5
<1> QED BY <1>3, <1>4, <1>5
      DEF Next, SealVault, TimePasses, RetrieveExpired, Starts, GoesOn, ProvideUnsealShard, BeginStore,
          RunAutoRotation, BeginRetrieve, BeginUpdate, BeginDelete, RotateSecret, QuarantineSecret,
          ShardVerified, ShardRejected, Denied, Updated, Deleted, Rotated, RotationFailed,
          AutoRotationGoesOn, Quarantined, Burnt

(* The secrets keep their types and their places.                              *)
LEMMA SecretsTyped ==
  ASSUME TypeOK, Next
  PROVE  /\ secrets' \in Seq(Secret) /\ timers' \in Seq(Nat) /\ Len(timers') = Len(secrets')
         /\ Ids \subseteq Ids'
<1>1. secrets \in Seq(Secret) /\ timers \in Seq(Nat) /\ Len(timers) = Len(secrets) /\ Ids = 1..Len(secrets)
  BY LenProperties DEF TypeOK, Ids
<1>2. secrets' \in Seq(Secret) => Ids' = 1..Len(secrets')
  BY LenProperties DEF Ids
<1>3. ASSUME NEW c \in Slot, Stored(c)
      PROVE  /\ secrets' \in Seq(Secret) /\ timers' \in Seq(Nat)
             /\ Len(secrets') = Len(secrets) + 1 /\ Len(timers') = Len(timers) + 1
  <2>1. First \in Secret
    <3>1. <<>> \in Seq(Nat)
      BY EmptySeq
    <3> QED BY <3>1 DEF First, Secret, Status
  <2>2. secrets' = Append(secrets, First) /\ timers' = Append(timers, 0)
    BY <1>3 DEF Stored, First
  <2> QED BY <1>1, <2>1, <2>2, AppendProperties
<1>4. ASSUME NEW s \in Ids, Change(s)
      PROVE  secrets' \in Seq(Secret) /\ Len(secrets') = Len(secrets)
  BY <1>1, <1>4, ExceptSeq DEF Change
<1> QED BY <1>1, <1>2, <1>3, <1>4, SecretStep, TimerStep, LenProperties

(* A call in flight names a secret there is, or a shard.                       *)
OnSecret == {"access", "update", "rotate", "shred", "warp", "burn"}
Fits(k) == k \in Call /\ (k.op \in OnSecret => k.id \in Ids) /\ (k.op = "shard" => k.id \in ShardIndex)
CallsFit == calls \in [Slot -> Call] /\ \A c \in Slot : Fits(calls[c])

LEMMA TypedCalls ==
  TypeOK => CallsFit
BY DEF TypeOK, CallsFit, Fits, OnSecret, InFlight

LEMMA CallStep ==
  ASSUME TypeOK, Next
  PROVE  \/ calls' = calls
         \/ \E c \in Slot, k \in Call : Fits(k) /\ calls' = [calls EXCEPT ![c] = k]
<1>1. Ids \subseteq Nat /\ ShardIndex \subseteq Nat /\ CallsFit
  BY LenProperties, VaultAssumption, TypedCalls DEF TypeOK, Ids
<1>2. Fits(Idle)
  BY DEF Fits, Idle, Call, OnSecret
<1>3. ASSUME NEW c \in Slot, End(c)
      PROVE  \E k \in Call : Fits(k) /\ calls' = [calls EXCEPT ![c] = k]
  BY <1>2, <1>3 DEF End, Fits
<1>4. ASSUME NEW id \in Nat, NEW flag \in BOOLEAN
      PROVE  /\ Fits([op |-> "store", id |-> id, flag |-> flag]) /\ Fits([op |-> "auto", id |-> id, flag |-> flag])
             /\ id \in ShardIndex => Fits([op |-> "shard", id |-> id, flag |-> flag])
             /\ id \in Ids => \A op \in OnSecret : Fits([op |-> op, id |-> id, flag |-> flag])
  BY DEF Fits, Call, OnSecret, Gated
<1>5. ASSUME NEW c \in Slot, NEW s \in Ids, NEW auto \in BOOLEAN, StartRotation(c, s, auto)
      PROVE  \E k \in Call : Fits(k) /\ calls' = [calls EXCEPT ![c] = k]
  <2>1. Fits([op |-> "rotate", id |-> s, flag |-> auto])
    BY <1>1, <1>4 DEF OnSecret
  <2>2. calls' = [calls EXCEPT ![c] = [op |-> "rotate", id |-> s, flag |-> auto]]
    BY <1>5 DEF StartRotation
  <2> QED BY <2>1, <2>2 DEF Fits
<1>6. ASSUME NEW c \in Slot, Starts(c)
      PROVE  calls' = calls \/ \E k \in Call : Fits(k) /\ calls' = [calls EXCEPT ![c] = k]
  <2>1. ASSUME NEW s \in Ids, RotateSecret(c, s) \/ BreakGlassRotation(c, s)
        PROVE  calls' = calls \/ \E k \in Call : Fits(k) /\ calls' = [calls EXCEPT ![c] = k]
    BY <1>5, <2>1 DEF RotateSecret, BreakGlassRotation
  <2>2. ASSUME NEW i \in ShardIndex, ProvideUnsealShard(c, i)
        PROVE  \E k \in Call : Fits(k) /\ calls' = [calls EXCEPT ![c] = k]
    <3>1. Fits([op |-> "shard", id |-> i, flag |-> FALSE])
      BY <1>1, <1>4
    <3>2. calls' = [calls EXCEPT ![c] = [op |-> "shard", id |-> i, flag |-> FALSE]]
      BY <2>2 DEF ProvideUnsealShard, Begin
    <3> QED BY <3>1, <3>2 DEF Fits
  <2>3. ASSUME BeginStore(c) \/ RunAutoRotation(c)
        PROVE  \E k \in Call : Fits(k) /\ calls' = [calls EXCEPT ![c] = k]
    <3>1. Fits([op |-> "store", id |-> 0, flag |-> FALSE]) /\ Fits([op |-> "auto", id |-> 1, flag |-> FALSE])
      BY <1>4
    <3>2. \/ calls' = [calls EXCEPT ![c] = [op |-> "store", id |-> 0, flag |-> FALSE]]
          \/ calls' = [calls EXCEPT ![c] = [op |-> "auto", id |-> 1, flag |-> FALSE]]
      BY <2>3 DEF BeginStore, RunAutoRotation, Begin
    <3> QED BY <3>1, <3>2 DEF Fits
  <2>4. ASSUME NEW s \in Ids, NEW b \in BOOLEAN,
               BeginRetrieve(c, s, b) \/ BeginUpdate(c, s) \/ BeginDelete(c, s) \/ QuarantineSecret(c, s, b)
        PROVE  \E k \in Call : Fits(k) /\ calls' = [calls EXCEPT ![c] = k]
    <3>1. \E op \in OnSecret, f \in BOOLEAN : Begin(c, op, s, f)
      BY <2>4 DEF BeginRetrieve, BeginUpdate, BeginDelete, QuarantineSecret, OnSecret
    <3>2. PICK op \in OnSecret, f \in BOOLEAN : calls' = [calls EXCEPT ![c] = [op |-> op, id |-> s, flag |-> f]]
      BY <3>1 DEF Begin
    <3>3. Fits([op |-> op, id |-> s, flag |-> f])
      BY <1>1, <1>4
    <3> QED BY <3>2, <3>3 DEF Fits
  <2> QED BY <1>6, <2>1, <2>2, <2>3, <2>4 DEF Starts
<1>7. ASSUME NEW c \in Slot, GoesOn(c)
      PROVE  calls' = calls \/ \E k \in Call : Fits(k) /\ calls' = [calls EXCEPT ![c] = k]
  <2> DEFINE k0 == calls[c]
  <2>1. k0 \in Call /\ Fits(k0)
    BY <1>1 DEF CallsFit
  <2>2. CASE Rotated(c) \/ RotationFailed(c)
    <3>1. AfterRotation(c) /\ k0.id + 1 \in Nat
      BY <2>1, <2>2 DEF Rotated, RotationFailed, Call
    <3>2. CASE k0.flag
      <4>1. calls' = [calls EXCEPT ![c] = [op |-> "auto", id |-> k0.id + 1, flag |-> FALSE]]
        BY <3>1, <3>2 DEF AfterRotation
      <4>2. Fits([op |-> "auto", id |-> k0.id + 1, flag |-> FALSE])
        BY <1>4, <3>1
      <4> QED BY <4>1, <4>2 DEF Fits
    <3>3. CASE ~k0.flag
      BY <1>3, <3>1, <3>3 DEF AfterRotation, End
    <3> QED BY <3>2, <3>3
  <2>3. CASE AutoRotationGoesOn(c)
    <3>1. End(c) \/ \E s \in Ids : StartRotation(c, s, TRUE) \/ calls' = [calls EXCEPT ![c].id = s + 1]
      BY <2>3 DEF AutoRotationGoesOn
    <3>2. ASSUME NEW s \in Ids, calls' = [calls EXCEPT ![c].id = s + 1]
          PROVE  \E k \in Call : Fits(k) /\ calls' = [calls EXCEPT ![c] = k]
      <4>1. calls' = [calls EXCEPT ![c] = [k0 EXCEPT !.id = s + 1]] /\ s + 1 \in Nat /\ k0.op = "auto"
        BY <1>1, <2>3, <3>2 DEF AutoRotationGoesOn
      <4>2. Fits([k0 EXCEPT !.id = s + 1])
        BY <2>1, <4>1 DEF Fits, Call, OnSecret
      <4> QED BY <4>1, <4>2 DEF Fits
    <3> QED BY <1>3, <1>5, <3>1, <3>2
  <2>4. CASE Quarantined(c)
    <3>1. k0.op = "warp" /\ (End(c) \/ calls' = [calls EXCEPT ![c] = [k0 EXCEPT !.op = "burn"]])
      BY <2>4 DEF Quarantined
    <3>2. Fits([k0 EXCEPT !.op = "burn"])
      BY <2>1, <3>1 DEF Fits, Call, OnSecret
    <3> QED BY <1>3, <3>1, <3>2 DEF Fits
  <2> QED BY <1>3, <1>7, <2>2, <2>3, <2>4
        DEF GoesOn, ShardVerified, ShardRejected, Stored, Granted, Denied, Updated, Deleted, Burnt
<1> QED BY <1>6, <1>7 DEF Next, SealVault, TimePasses, RetrieveExpired

LEMMA SealTyped ==
  ASSUME TypeOK, Next
  PROVE  seal' \in [sealed: BOOLEAN, provided: Nat, remaining: Nat]
         /\ shards' \subseteq ShardIndex /\ accepted' \subseteq ShardIndex
<1>1. Threshold \in Nat
  BY VaultAssumption, FS_CardinalityType
<1>2. ASSUME NEW c \in Slot, ShardVerified(c)
      PROVE  seal' \in [sealed: BOOLEAN, provided: Nat, remaining: Nat]
             /\ shards' \subseteq ShardIndex /\ accepted' \subseteq ShardIndex
  <2> DEFINE held == shards \cup {calls[c].id}
             n == Cardinality(held)
  <2>1. calls[c].id \in ShardIndex
    BY <1>2 DEF ShardVerified, TypeOK, InFlight
  <2>2. held \subseteq ShardIndex /\ n \in Nat
    <3>1. held \subseteq ShardIndex
      BY <2>1 DEF TypeOK
    <3> QED BY <3>1, VaultAssumption, FS_Subset, FS_CardinalityType
  <2>3. Missing(n) \in Nat
    BY <1>1, <2>2 DEF Missing
  <2>4. n \in Nat /\ held \subseteq ShardIndex /\ seal \in [sealed: BOOLEAN, provided: Nat, remaining: Nat]
    BY <2>2 DEF TypeOK
  <2>5. [seal EXCEPT !.provided = n, !.remaining = Missing(n)] \in [sealed: BOOLEAN, provided: Nat, remaining: Nat]
    BY <2>3, <2>4
  <2>6. seal' \in {[sealed |-> FALSE, provided |-> n, remaining |-> 0],
                   [seal EXCEPT !.provided = n, !.remaining = Missing(n)]}
        /\ shards' \in {{}, held} /\ accepted' = accepted \cup {calls[c].id}
    BY <1>2 DEF ShardVerified
  <2> HIDE DEF n, held
  <2>7. [sealed |-> FALSE, provided |-> n, remaining |-> 0] \in [sealed: BOOLEAN, provided: Nat, remaining: Nat]
    BY <2>4
  <2>8. shards' \subseteq ShardIndex /\ accepted' \subseteq ShardIndex
    BY <2>1, <2>4, <2>6 DEF TypeOK
  <2> QED BY <2>5, <2>6, <2>7, <2>8
<1>3. CASE SealVault
  BY <1>1, <1>3 DEF SealVault
<1>4. CASE UNCHANGED sealing
  BY <1>4 DEF sealing, TypeOK
<1> QED BY <1>2, <1>3, <1>4
      DEF Next, TimePasses, RetrieveExpired, Starts, GoesOn, ProvideUnsealShard, BeginStore,
          RunAutoRotation, BeginRetrieve, BeginUpdate, BeginDelete, RotateSecret, QuarantineSecret,
          BreakGlassRotation, ShardRejected, Stored, Granted, Denied, Updated, Deleted, Rotated,
          RotationFailed, AutoRotationGoesOn, Quarantined, Burnt

LEMMA TypeStep ==
  TypeOK /\ [Next]_vars => TypeOK'
<1> SUFFICES ASSUME TypeOK, Next PROVE TypeOK'
  BY DEF vars, sealing, TypeOK, Ids, InFlight
<1>1. CallsFit'
  <2>1. Ids \subseteq Ids' /\ CallsFit
    BY SecretsTyped, TypedCalls
  <2> QED BY <2>1, CallStep DEF CallsFit, Fits
<1> QED BY <1>1, SecretsTyped, SealTyped DEF TypeOK, CallsFit, Fits, OnSecret, InFlight

(* The variables have their types, for any number of secrets and calls.        *)
THEOREM TypeCorrect ==
  Spec => []TypeOK
<1>1. Init => TypeOK
  BY VaultAssumption, FS_CardinalityType, EmptySeq, LenProperties
    DEF Init, TypeOK, Idle, Call, Ids, InFlight
<1> QED BY <1>1, TypeStep, PTL DEF Spec

LEMMA VersionStep ==
  TypeOK /\ NoVersionLost /\ [Next]_vars => NoVersionLost'
<1> SUFFICES ASSUME TypeOK, NoVersionLost, Next PROVE NoVersionLost'
  BY DEF vars, NoVersionLost, Ids
<1> DEFINE Good(r) == /\ r.previousVersions = [v \in 1..(r.version - 1) |-> v]
                      /\ r.payload \in {Shredded, r.version}
<1>1. secrets \in Seq(Secret) /\ Ids = 1..Len(secrets) /\ \A s \in Ids : Good(secrets[s])
  BY LenProperties DEF TypeOK, Ids, NoVersionLost
<1>2. ASSUME NEW s \in Ids, Change(s)
      PROVE  NoVersionLost'
  <2>1. PICK e \in Secret : (Kept(secrets[s], e) \/ Grown(secrets[s], e)) /\ secrets' = [secrets EXCEPT ![s] = e]
    BY <1>2 DEF Change
  <2>2. Good(secrets[s]) /\ secrets[s] \in Secret
    BY <1>1, SecretOf
  <2>3. CASE Kept(secrets[s], e)
    <3>1. Good(e)
      BY <2>2, <2>3 DEF Kept
    <3> QED BY <1>1, <2>1, <3>1 DEF NoVersionLost, Ids
  <2>4. CASE Grown(secrets[s], e)
    <3> DEFINE n == secrets[s].version
    <3>1. n \in Nat \ {0} /\ e.version = n + 1 /\ e.payload = e.version
      BY <2>2, <2>4 DEF Grown, Secret
    <3>2. e.previousVersions = Append([v \in 1..(n - 1) |-> v], n)
      BY <2>2, <2>4 DEF Grown
    <3>3. Append([v \in 1..(n - 1) |-> v], n) = [v \in 1..n |-> v]
      BY <3>1
    <3>4. Good(e)
      BY <3>1, <3>2, <3>3
    <3> QED BY <1>1, <2>1, <3>4 DEF NoVersionLost, Ids
  <2> QED BY <2>1, <2>3, <2>4
<1>3. ASSUME NEW c \in Slot, Stored(c)
      PROVE  NoVersionLost'
  <2>1. secrets' = Append(secrets, First) /\ First \in Secret
    <3>1. <<>> \in Seq(Nat)
      BY EmptySeq
    <3> QED BY <1>3, <3>1 DEF Stored, First, Secret, Status
  <2>2. Good(First)
    BY DEF First
  <2>3. Ids' = 1..(Len(secrets) + 1) /\ \A s \in Ids' : secrets'[s] = IF s = Len(secrets) + 1 THEN First ELSE secrets[s]
    BY <1>1, <2>1, AppendProperties, LenProperties DEF Ids
  <2>4. \A s \in Ids' : Good(secrets'[s])
    <3> HIDE DEF Good
    <3>1. Len(secrets) \in Nat
      BY <1>1, LenProperties
    <3> QED BY <1>1, <2>2, <2>3, <3>1
  <2> QED BY <2>4 DEF NoVersionLost
<1>4. CASE secrets' = secrets
  BY <1>4 DEF NoVersionLost, Ids
<1> QED BY <1>2, <1>3, <1>4, SecretStep

(* No version of a secret is lost or comes back.                               *)
THEOREM VersionsKept ==
  Spec => []NoVersionLost
<1>1. Init => NoVersionLost
  BY DEF Init, NoVersionLost, Ids
<1> QED BY <1>1, VersionStep, TypeCorrect, PTL DEF Spec

LEMMA QuorumStep ==
  LET Inv == QuorumUnseals /\ (seal.sealed => shards = accepted)
  IN  TypeOK /\ Inv /\ [Next]_vars => Inv'
<1> SUFFICES ASSUME TypeOK, QuorumUnseals, seal.sealed => shards = accepted, [Next]_vars
             PROVE  QuorumUnseals' /\ (seal'.sealed => shards' = accepted')
  OBVIOUS
<1>1. ASSUME NEW c \in Slot, ShardVerified(c)
      PROVE  QuorumUnseals' /\ (seal'.sealed => shards' = accepted')
  <2> DEFINE held == shards \cup {calls[c].id}
             n == Cardinality(held)
  <2>1. calls[c].id \in ShardIndex
    BY <1>1 DEF ShardVerified, TypeOK, InFlight
  <2>2. IsFiniteSet(accepted) /\ accepted \subseteq accepted' /\ accepted' \subseteq ShardIndex
    BY <1>1, <2>1, VaultAssumption, FS_Subset DEF ShardVerified, TypeOK
  <2>3. /\ Cardinality(accepted) \in Nat /\ Cardinality(accepted') \in Nat /\ Threshold \in Nat
        /\ Cardinality(accepted) <= Cardinality(accepted')
    <3>1. IsFiniteSet(accepted') /\ accepted \in SUBSET accepted'
      BY <2>2, VaultAssumption, FS_Subset
    <3>2. Cardinality(accepted) \in Nat /\ Cardinality(accepted') \in Nat /\ Cardinality(ShardIndex) \in Nat
      BY <2>2, <3>1, VaultAssumption, FS_CardinalityType
    <3>3. Threshold \in Nat
      BY <3>2, VaultAssumption
    <3> QED BY <3>1, <3>2, <3>3, FS_Subset
  <2>4. seal.sealed => n = Cardinality(accepted')
    BY <1>1 DEF ShardVerified
  <2>5. CASE n >= Threshold
    <3>1. seal'.sealed = FALSE
      BY <1>1, <2>5 DEF ShardVerified
    <3> QED BY <2>3, <2>4, <2>5, <3>1 DEF QuorumUnseals
  <2>6. CASE ~(n >= Threshold)
    <3>1. seal'.sealed = seal.sealed /\ shards' = held /\ accepted' = accepted \cup {calls[c].id}
      BY <1>1, <2>6 DEF ShardVerified, TypeOK
    <3> QED BY <2>3, <3>1 DEF QuorumUnseals
  <2> QED BY <2>5, <2>6
<1>2. CASE SealVault
  BY <1>2 DEF SealVault, QuorumUnseals
<1>3. CASE UNCHANGED sealing
  BY <1>3 DEF sealing, QuorumUnseals
<1> QED BY <1>1, <1>2, <1>3
      DEF Next, TimePasses, RetrieveExpired, Starts, GoesOn, ProvideUnsealShard, BeginStore,
          RunAutoRotation, BeginRetrieve, BeginUpdate, BeginDelete, RotateSecret, QuarantineSecret,
          BreakGlassRotation, ShardRejected, Stored, Granted, Denied, Updated, Deleted, Rotated,
          RotationFailed, AutoRotationGoesOn, Quarantined, Burnt, vars

(* The vault opens only to a threshold of shards given since it was sealed.    *)
THEOREM QuorumNeeded ==
  Spec => []QuorumUnseals
<1> DEFINE Inv == QuorumUnseals /\ (seal.sealed => shards = accepted)
<1>1. Init => Inv
  BY DEF Init, QuorumUnseals
<1>2. TypeOK /\ Inv /\ [Next]_vars => Inv'
  BY QuorumStep
<1>3. Inv => QuorumUnseals
  OBVIOUS
<1> HIDE DEF Inv
<1> QED BY <1>1, <1>2, <1>3, TypeCorrect, PTL DEF Spec

(* Who rotates a secret.                                                       *)
RotatedBy(c, s) == calls[c].op = "rotate" /\ calls[c].id = s

(* The end of a rotation makes its secret ACTIVE; the others are as they were. *)
LEMMA RotationEnds ==
  ASSUME TypeOK, RotationInFlight, NEW c \in Slot, Rotated(c) \/ RotationFailed(c)
  PROVE  RotationInFlight'
<1> DEFINE s == calls[c].id
<1>1. s \in Ids /\ secrets[s] \in Secret /\ "ACTIVE" \in Status
  BY SecretOf DEF Rotated, RotationFailed, TypeOK, InFlight, Status
<1>2. Ids' = Ids /\ secrets'[s].status = "ACTIVE" /\ \A r \in Ids \ {s} : secrets'[r] = secrets[r]
  <2>1. CASE Rotated(c)
    <3>1. [NewVersion(secrets[s], "ACTIVE") EXCEPT !.due = FALSE].status = "ACTIVE"
      BY <1>1 DEF NewVersion, Secret
    <3> QED BY <1>1, <2>1, <3>1 DEF Rotated, Ids
  <2>2. CASE RotationFailed(c)
    BY <1>1, <2>2 DEF RotationFailed, Ids, Secret
  <2> QED BY <2>1, <2>2
<1>3. \A d \in Slot \ {c} : calls'[d] = calls[d]
  BY DEF Rotated, RotationFailed, AfterRotation, TypeOK
<1>4. ASSUME NEW r \in Ids', secrets'[r].status = "ROTATING"
      PROVE  \E d \in Slot : RotatedBy(d, r)'
  <2>1. r \in Ids \ {s} /\ secrets[r].status = "ROTATING"
    BY <1>2, <1>4
  <2>2. PICK d \in Slot : RotatedBy(d, r)
    BY <2>1 DEF RotationInFlight, InFlight, RotatedBy
  <2>3. d # c
    BY <2>1, <2>2 DEF RotatedBy
  <2> QED BY <1>3, <2>2, <2>3 DEF RotatedBy
<1> QED BY <1>4 DEF RotationInFlight, InFlight, RotatedBy

(* Any other step ends no rotation, and makes no secret ROTATING without one.  *)
LEMMA OtherSteps ==
  ASSUME TypeOK, RotationInFlight,
         \A s \in Ids' : secrets'[s].status = "ROTATING" =>
            (s \in Ids /\ secrets[s].status = "ROTATING") \/ (\E c \in Slot : RotatedBy(c, s)'),
         \A c \in Slot : calls[c].op = "rotate" => calls'[c] = calls[c]
  PROVE  RotationInFlight'
BY DEF RotationInFlight, InFlight, RotatedBy

(* No secret starts to rotate in this step, or an open vault starts a rotation. *)
Quiet == \A s \in Ids' : secrets'[s].status = "ROTATING" => s \in Ids /\ secrets[s].status = "ROTATING"
Begun(c, s, auto) == ~seal.sealed /\ calls[c].op # "rotate" /\ StartRotation(c, s, auto)

LEMMA QuietStep ==
  ASSUME TypeOK, Next
  PROVE  Quiet \/ \E c \in Slot, s \in Ids, auto \in BOOLEAN : Begun(c, s, auto)
<1>0. calls \in [Slot -> Call] /\ secrets \in Seq(Secret) /\ \A s \in Ids : secrets[s] \in Secret
  BY SecretOf DEF TypeOK
<1>1. ASSUME NEW s \in Ids, NEW x \in Status \ {"ROTATING"}, secrets' = [secrets EXCEPT ![s].status = x]
      PROVE  Quiet
  BY <1>0, <1>1 DEF Quiet, Ids, Secret
<1>2. ASSUME NEW s \in Ids, NEW e, e.status = secrets[s].status, secrets' = [secrets EXCEPT ![s] = e]
      PROVE  Quiet
  BY <1>0, <1>2 DEF Quiet, Ids
<1>3. ASSUME UNCHANGED secrets
      PROVE  Quiet
  BY <1>3 DEF Quiet, Ids
<1>4. CASE SealVault \/ TimePasses \/ \E s \in Ids : RetrieveExpired(s)
  <2>1. ASSUME NEW s \in Ids, secrets' = [secrets EXCEPT ![s].lapsed = TRUE] \/ secrets' = [secrets EXCEPT ![s].due = TRUE]
        PROVE  Quiet
    <3>1. [secrets[s] EXCEPT !.lapsed = TRUE].status = secrets[s].status /\ [secrets[s] EXCEPT !.due = TRUE].status = secrets[s].status
      BY <1>0 DEF Secret
    <3> QED BY <1>2, <2>1, <3>1
  <2> QED BY <1>1, <1>3, <1>4, <2>1 DEF SealVault, TimePasses, RetrieveExpired, Status
<1>5. ASSUME NEW c \in Slot, Starts(c)
      PROVE  Quiet \/ \E s \in Ids, auto \in BOOLEAN : Begun(c, s, auto)
  <2>1. ASSUME NEW s \in Ids, RotateSecret(c, s) \/ BreakGlassRotation(c, s)
        PROVE  Quiet \/ Begun(c, s, FALSE)
    <3>1. (~seal.sealed /\ StartRotation(c, s, FALSE)) \/ UNCHANGED secrets
      BY <2>1 DEF RotateSecret, BreakGlassRotation
    <3>2. calls[c] = Idle
      BY <2>1 DEF RotateSecret, BreakGlassRotation
    <3>3. calls[c].op # "rotate"
      BY <3>2 DEF Idle
    <3> QED BY <1>3, <3>1, <3>3 DEF Begun
  <2>2. ASSUME NEW s \in Ids, BeginDelete(c, s)
        PROVE  Quiet
    <3>1. [secrets[s] EXCEPT !.payload = Shredded].status = secrets[s].status
      BY <1>0 DEF Secret
    <3> QED BY <1>2, <2>2, <3>1 DEF BeginDelete
  <2>3. FALSE \in BOOLEAN
    OBVIOUS
  <2> QED BY <1>3, <1>5, <2>1, <2>2, <2>3
        DEF Starts, ProvideUnsealShard, BeginStore, RunAutoRotation, BeginRetrieve, BeginUpdate, QuarantineSecret
<1>6. ASSUME NEW c \in Slot, GoesOn(c)
      PROVE  Quiet \/ \E s \in Ids, auto \in BOOLEAN : Begun(c, s, auto)
  <2>1. CASE AutoRotationGoesOn(c)
    <3>1. UNCHANGED secrets \/ \E r \in Ids : Begun(c, r, TRUE)
      BY <2>1 DEF AutoRotationGoesOn, Begun
    <3> QED BY <1>3, <3>1
  <2>2. CASE Stored(c)
    <3>1. secrets' = Append(secrets, First) /\ Ids = 1..Len(secrets) /\ Len(secrets) \in Nat
      BY <1>0, <2>2, LenProperties DEF Stored, First, Ids
    <3>2. Ids' = 1..(Len(secrets) + 1) /\ \A r \in Ids' : secrets'[r] = IF r = Len(secrets) + 1 THEN First ELSE secrets[r]
      BY <3>1 DEF Ids
    <3> QED BY <3>1, <3>2 DEF First, Quiet
  <2>3. CASE Updated(c)
    <3> DEFINE s == calls[c].id
    <3>1. s \in Ids /\ secrets' = [secrets EXCEPT ![s] = NewVersion(secrets[s], secrets[s].status)]
      BY <2>3 DEF Updated, TypeOK, InFlight
    <3>2. NewVersion(secrets[s], secrets[s].status).status = secrets[s].status
      BY <1>0, <3>1 DEF NewVersion, Secret
    <3> QED BY <1>2, <3>1, <3>2
  <2>4. CASE Deleted(c) \/ Burnt(c) \/ RotationFailed(c)
    <3>1. PICK s \in Ids, x \in Status \ {"ROTATING"} : secrets' = [secrets EXCEPT ![s].status = x]
      BY <2>4 DEF Deleted, Burnt, RotationFailed, TypeOK, InFlight, Status
    <3> QED BY <1>1, <3>1
  <2>5. CASE Rotated(c)
    <3>1. PICK s \in Ids : secrets' = [secrets EXCEPT ![s] = [NewVersion(@, "ACTIVE") EXCEPT !.due = FALSE]]
      BY <2>5 DEF Rotated, TypeOK, InFlight
    <3>2. [NewVersion(secrets[s], "ACTIVE") EXCEPT !.due = FALSE].status = "ACTIVE"
      BY <1>0 DEF NewVersion, Secret
    <3> QED BY <1>0, <3>1, <3>2 DEF Quiet, Ids
  <2>6. CASE Quarantined(c)
    <3>1. PICK s \in Ids :
            \/ secrets' = [secrets EXCEPT ![s].status = "QUARANTINED"]
            \/ secrets' = [secrets EXCEPT ![s] = [@ EXCEPT !.status = "QUARANTINED", !.payload = Shredded]]
      BY <2>6 DEF Quarantined, TypeOK, InFlight
    <3>2. [secrets[s] EXCEPT !.status = "QUARANTINED", !.payload = Shredded].status = "QUARANTINED"
      BY <1>0 DEF Secret
    <3>3. CASE secrets' = [secrets EXCEPT ![s] = [@ EXCEPT !.status = "QUARANTINED", !.payload = Shredded]]
      BY <1>0, <3>2, <3>3 DEF Quiet, Ids
    <3> QED BY <1>1, <3>1, <3>3 DEF Status
  <2> QED BY <1>3, <1>6, <2>1, <2>2, <2>3, <2>4, <2>5, <2>6
        DEF GoesOn, ShardVerified, ShardRejected, Granted, Denied
<1> QED BY <1>4, <1>5, <1>6 DEF Next

(* A rotation in flight goes on until it ends.                                  *)
LEMMA RotationHolds ==
  ASSUME TypeOK, Next, NEW d \in Slot, calls[d].op = "rotate", ~Rotated(d), ~RotationFailed(d)
  PROVE  calls'[d] = calls[d]
<1>1. ASSUME NEW c \in Slot, calls[c].op # "rotate", NEW k, calls' = [calls EXCEPT ![c] = k]
      PROVE  calls'[d] = calls[d]
  BY <1>1 DEF TypeOK
<1>2. ASSUME NEW c \in Slot, Starts(c) PROVE calls'[d] = calls[d]
  <2>1. calls[c] = Idle
    BY <1>2 DEF Starts, ProvideUnsealShard, BeginStore, RunAutoRotation, BeginRetrieve, BeginUpdate,
                BeginDelete, RotateSecret, BreakGlassRotation, QuarantineSecret, Begin
  <2>2. calls[c].op # "rotate"
    BY <2>1 DEF Idle
  <2>3. UNCHANGED calls \/ \E k : calls' = [calls EXCEPT ![c] = k]
    BY <1>2 DEF Starts, ProvideUnsealShard, BeginStore, RunAutoRotation, BeginRetrieve, BeginUpdate,
                BeginDelete, RotateSecret, BreakGlassRotation, StartRotation, QuarantineSecret, Begin
  <2> QED BY <1>1, <2>2, <2>3
<1>3. ASSUME NEW c \in Slot, Rotated(c) \/ RotationFailed(c) PROVE calls'[d] = calls[d]
  BY <1>3 DEF Rotated, RotationFailed, AfterRotation, TypeOK
<1>4. ASSUME NEW c \in Slot, GoesOn(c), ~Rotated(c), ~RotationFailed(c) PROVE calls'[d] = calls[d]
  <2>1. calls[c].op # "rotate"
    BY <1>4 DEF GoesOn, ShardVerified, ShardRejected, Stored, Granted, Denied, Updated, Deleted,
                AutoRotationGoesOn, Quarantined, Burnt
  <2>2. \E k : calls' = [calls EXCEPT ![c] = k]
    BY <1>4 DEF GoesOn, ShardVerified, ShardRejected, Stored, Granted, Denied, Updated, Deleted,
                AutoRotationGoesOn, StartRotation, Quarantined, Burnt, End
  <2> QED BY <1>1, <2>1, <2>2
<1> QED BY <1>2, <1>3, <1>4 DEF Next, SealVault, TimePasses, RetrieveExpired

LEMMA RotationStep ==
  TypeOK /\ RotationInFlight /\ [Next]_vars => RotationInFlight'
<1> SUFFICES ASSUME TypeOK, RotationInFlight, Next PROVE RotationInFlight'
  BY DEF vars, RotationInFlight, Ids, InFlight
<1>1. ASSUME NEW c \in Slot, Rotated(c) \/ RotationFailed(c) PROVE RotationInFlight'
  BY <1>1, RotationEnds
<1>2. ASSUME \A c \in Slot : ~Rotated(c) /\ ~RotationFailed(c) PROVE RotationInFlight'
  <2>1. \A c \in Slot : calls[c].op = "rotate" => calls'[c] = calls[c]
    BY <1>2, RotationHolds
  <2>2. CASE Quiet
    BY <2>1, <2>2, OtherSteps DEF Quiet
  <2>3. ASSUME NEW c \in Slot, NEW s \in Ids, NEW auto \in BOOLEAN, Begun(c, s, auto)
        PROVE  RotationInFlight'
    <3>1. /\ \A r \in Ids' : r \in Ids /\ (r # s => secrets'[r] = secrets[r])
          /\ RotatedBy(c, s)'
      BY <2>3 DEF Begun, StartRotation, Ids, RotatedBy, TypeOK
    <3> QED BY <2>1, <3>1, OtherSteps
  <2> QED BY <2>2, <2>3, QuietStep
<1> QED BY <1>1, <1>2

(* A ROTATING secret is being rotated.                                         *)
THEOREM RotationsEnd ==
  Spec => []RotationInFlight
<1>1. Init => RotationInFlight
  BY DEF Init, RotationInFlight, Ids
<1> QED BY <1>1, RotationStep, TypeCorrect, PTL DEF Spec

(* Versions and statuses together: no secret is left between two versions.     *)
THEOREM SecretsKept ==
  Spec => []SecretsConsistent
BY VersionsKept, RotationsEnd, PTL DEF SecretsConsistent

-------------------------------------------------------------------------------
(* The secrets as the versioned store sees them.                               *)
View == [s \in Ids |-> Versions(secrets[s])]

LEMMA ViewOf ==
  ASSUME TypeOK
  PROVE  /\ Ids = 1..Len(secrets) /\ Len(secrets) \in Nat
         /\ View \in Seq({Versions(e) : e \in Secret}) /\ Len(View) = Len(secrets)
         /\ \A s \in Ids : View[s] = Versions(secrets[s])
<1>1. secrets \in Seq(Secret) /\ Ids = 1..Len(secrets) /\ Len(secrets) \in Nat
  BY LenProperties DEF TypeOK, Ids
<1>2. \A s \in Ids : Versions(secrets[s]) \in {Versions(e) : e \in Secret}
  BY SecretOf
<1> HIDE DEF Ids
<1>3. View \in [1..Len(secrets) -> {Versions(e) : e \in Secret}]
  BY <1>1, <1>2 DEF View
<1> QED BY <1>1, <1>3, IsASeq, LenProperties DEF View

(* What changes one secret is a write, an erasure, or nothing to the store.    *)
LEMMA ChangeImplements ==
  ASSUME TypeOK, NEW s \in Ids, Change(s)
  PROVE  Abstract!SNext \/ View' = View
<1>1. PICK e \in Secret : /\ Kept(secrets[s], e) \/ Grown(secrets[s], e)
                          /\ secrets' = [secrets EXCEPT ![s] = e]
  BY DEF Change
<1>2. secrets \in [Ids -> Secret] /\ secrets[s] \in Secret /\ View \in [Ids -> {Versions(x) : x \in Secret}]
  BY ViewOf, SecretOf, LenProperties DEF TypeOK, View
<1>3. Ids' = Ids
  BY <1>1, <1>2 DEF Ids
<1>4. View' = [View EXCEPT ![s] = Versions(e)]
  BY <1>1, <1>2, <1>3 DEF View
<1>5. View[s] = Versions(secrets[s]) /\ DOMAIN View = Ids
  BY DEF View
<1>6. CASE Grown(secrets[s], e)
  <2>1. Versions(e) = Abstract!NextVersion(View[s])
    BY <1>5, <1>6 DEF Grown, Versions, Abstract!NextVersion
  <2>2. Abstract!Write(s)
    BY <1>4, <2>1 DEF Abstract!Write, View
  <2> QED BY <2>2, <1>5 DEF Abstract!SNext, View
<1>7. CASE Kept(secrets[s], e) /\ e.payload = Shredded
  <2>1. Versions(e) = Abstract!Emptied(View[s])
    BY <1>5, <1>7 DEF Kept, Versions, Abstract!Emptied
  <2>2. Abstract!Erase(s)
    BY <1>4, <2>1 DEF Abstract!Erase, View
  <2> QED BY <2>2, <1>5 DEF Abstract!SNext, View
<1>8. CASE Kept(secrets[s], e) /\ e.payload = secrets[s].payload
  <2>1. Versions(e) = View[s]
    BY <1>5, <1>8 DEF Kept, Versions
  <2> QED BY <1>2, <1>4, <2>1
<1> QED BY <1>1, <1>6, <1>7, <1>8 DEF Kept

(* Storing a secret stores its first version.                                  *)
LEMMA StoredImplements ==
  ASSUME TypeOK, NEW c \in Slot, Stored(c)
  PROVE  Abstract!Store
<1> DEFINE V == {Versions(x) : x \in Secret}
<1>1. /\ secrets' = Append(secrets, First) /\ First \in Secret /\ secrets \in Seq(Secret)
      /\ Versions(First) = Abstract!FirstVersion
  <2>1. <<>> \in Seq(Nat)
    BY EmptySeq
  <2> QED BY <2>1 DEF Stored, First, Secret, Status, TypeOK, Versions, Abstract!FirstVersion
<1>2. /\ Ids = 1..Len(secrets) /\ Len(secrets) \in Nat
      /\ View \in Seq(V) /\ Len(View) = Len(secrets)
      /\ \A s \in Ids : View[s] = Versions(secrets[s])
  BY ViewOf
<1>3. Ids' = 1..(Len(secrets) + 1) /\ \A s \in Ids' : secrets'[s] = IF s = Len(secrets) + 1 THEN First ELSE secrets[s]
  BY <1>1, <1>2, AppendProperties, LenProperties DEF Ids
<1>4. Versions(First) \in V
  BY <1>1
<1> HIDE DEF V
<1>5. PICK w : w = Append(View, Versions(First))
  OBVIOUS
<1>6. /\ w \in Seq(V) /\ Len(w) = Len(secrets) + 1
      /\ \A s \in 1..Len(secrets) : w[s] = View[s]
      /\ w[Len(secrets) + 1] = Versions(First)
  BY <1>2, <1>4, <1>5, AppendProperties
<1>7. w \in [Ids' -> V]
  BY <1>3, <1>6, LenProperties
<1>8. \A s \in Ids' : w[s] = Versions(secrets'[s])
  BY <1>2, <1>3, <1>6
<1>9. View' = w
  BY <1>7, <1>8 DEF View
<1> QED BY <1>1, <1>5, <1>9 DEF Abstract!Store, View

(* However calls overlap, the vault implements a versioned store: a write is   *)
(* one new version, and what was replaced or shredded does not come back.      *)
THEOREM StoreTheorem ==
  Spec => ImplementsStore
<1>1. Init => Abstract!SInit
  BY DEF Init, Abstract!SInit, Ids
<1>2. TypeOK /\ [Next]_vars => Abstract!SNext \/ View' = View
  <2> SUFFICES ASSUME TypeOK, [Next]_vars PROVE Abstract!SNext \/ View' = View
    OBVIOUS
  <2>1. CASE secrets' = secrets
    BY <2>1 DEF View, Ids
  <2>2. ASSUME NEW c \in Slot, Stored(c) PROVE Abstract!SNext
    BY <2>2, StoredImplements DEF Abstract!SNext
  <2>3. CASE UNCHANGED vars
    BY <2>1, <2>3 DEF vars
  <2> QED BY <2>1, <2>2, <2>3, ChangeImplements, SecretStep
<1>3. TypeOK /\ [Next]_vars => [Abstract!SNext]_[s \in Ids |-> Versions(secrets[s])]
  BY <1>2 DEF View
<1> QED BY <1>1, <1>3, TypeCorrect, PTL DEF Spec, ImplementsStore, Abstract!SSpec

-------------------------------------------------------------------------------
(* While the vault is sealed no guarded operation begins and no secret starts   *)
(* to rotate, not by a scan or a break glass timer either: what is in flight    *)
(* goes on, and that is all.  SealTakesHold needs this and fairness.           *)
Barred ==
  /\ \A c \in Slot : calls'[c].op \in Gated => calls'[c] = calls[c]
  /\ Quiet
SealShutsOut == [][seal.sealed => Barred]_vars

LEMMA SealedCalls ==
  ASSUME TypeOK, seal.sealed, Next, NEW d \in Slot, calls'[d].op \in Gated
  PROVE  calls'[d] = calls[d]
<1> USE DEF Gated
<1>0. calls \in [Slot -> Call]
  BY DEF TypeOK
<1>1. ASSUME NEW c \in Slot, NEW k, k.op \notin Gated, calls' = [calls EXCEPT ![c] = k]
      PROVE  calls'[d] = calls[d]
  BY <1>0, <1>1
<1>2. Idle.op \notin Gated
  BY DEF Idle
<1>3. CASE UNCHANGED calls
  BY <1>3
<1>4. ASSUME NEW c \in Slot, Starts(c) PROVE calls'[d] = calls[d]
  <2>1. \/ \E i : Begin(c, "shard", i, FALSE)
        \/ Begin(c, "auto", 1, FALSE)
        \/ \E s, f : Begin(c, "warp", s, f)
        \/ UNCHANGED calls
    BY <1>4 DEF Starts, ProvideUnsealShard, BeginStore, RunAutoRotation, BeginRetrieve, BeginUpdate,
                BeginDelete, RotateSecret, BreakGlassRotation, QuarantineSecret
  <2>2. ASSUME NEW op \in {"shard", "auto", "warp"}, NEW id, NEW f, Begin(c, op, id, f)
        PROVE  calls'[d] = calls[d]
    BY <1>1, <2>2 DEF Begin
  <2> QED BY <1>3, <2>1, <2>2
<1>5. ASSUME NEW c \in Slot, End(c) PROVE calls'[d] = calls[d]
  BY <1>1, <1>2, <1>5 DEF End
<1>6. ASSUME NEW c \in Slot, Rotated(c) \/ RotationFailed(c) PROVE calls'[d] = calls[d]
  <2>1. PICK k : k.op \notin Gated /\ calls' = [calls EXCEPT ![c] = k]
    <3>1. CASE calls[c].flag
      BY <1>6, <3>1 DEF Rotated, RotationFailed, AfterRotation
    <3>2. CASE ~calls[c].flag
      BY <1>2, <1>6, <3>2 DEF Rotated, RotationFailed, AfterRotation
    <3> QED BY <3>1, <3>2
  <2> QED BY <1>1, <2>1
<1>7. ASSUME NEW c \in Slot, AutoRotationGoesOn(c) PROVE calls'[d] = calls[d]
  <2>1. calls[c].op = "auto" /\ (End(c) \/ \E s \in Ids : calls' = [calls EXCEPT ![c].id = s + 1])
    BY <1>7 DEF AutoRotationGoesOn
  <2>2. ASSUME NEW s \in Ids, calls' = [calls EXCEPT ![c].id = s + 1] PROVE calls'[d] = calls[d]
    <3>1. calls'[c].op = "auto" /\ \A e \in Slot \ {c} : calls'[e] = calls[e]
      BY <1>0, <2>1, <2>2 DEF Call
    <3> QED BY <3>1
  <2> QED BY <1>5, <2>1, <2>2
<1>8. ASSUME NEW c \in Slot, Quarantined(c) PROVE calls'[d] = calls[d]
  <2>1. CASE calls' = [calls EXCEPT ![c].op = "burn"]
    <3>1. calls'[c].op = "burn" /\ \A e \in Slot \ {c} : calls'[e] = calls[e]
      BY <1>0, <2>1 DEF Call
    <3> QED BY <3>1
  <2> QED BY <1>5, <1>8, <2>1 DEF Quarantined
<1> QED
  BY <1>3, <1>4, <1>5, <1>6, <1>7, <1>8
  DEF Next, SealVault, TimePasses, RetrieveExpired, GoesOn, ShardVerified, ShardRejected, Stored,
      Granted, Denied, Updated, Deleted, Burnt

(* A sealed vault lets no guarded operation begin, whoever asks for it.         *)
THEOREM SealTheorem ==
  Spec => SealShutsOut
<1>1. TypeOK /\ [Next]_vars => [seal.sealed => Barred]_vars
  <2> SUFFICES ASSUME TypeOK, Next, seal.sealed PROVE Barred
    OBVIOUS
  <2>1. Quiet
    BY QuietStep DEF Begun
  <2> QED BY <2>1, SealedCalls DEF Barred
<1> QED BY <1>1, TypeCorrect, PTL DEF Spec, SealShutsOut

===============================================================================

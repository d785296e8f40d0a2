---------------------------- MODULE LighthouseProofs ----------------------------
(* Proofs about the tokens, for any entities, calls and bounds.                  *)
EXTENDS Lighthouse, SequenceTheorems, TLAPS

(* A chain is linked, and every append in flight to it has read one of its       *)
(* entries: the last one, and alone, unless two were ever in flight at once.     *)
Linked(r) ==
  /\ Len(r.auditChain) # 0
  /\ \A k \in DOMAIN r.auditChain :
       /\ r.auditChain[k] < k /\ (r.auditChain[k] = 0 => k = 1)
       /\ ~r.contended => r.auditChain[k] = k - 1
Read(r, n) == n \in 1..Len(r.auditChain) /\ (~r.contended => n = Len(r.auditChain))
AppendsOK(t) ==
  \A c \in Slot : calls[c].op = "append" /\ calls[c].token = t =>
    /\ Read(tokens[t], calls[c].link)
    /\ \A d \in Slot : calls[d].op = "append" /\ calls[d].token = t /\ d # c => tokens[t].contended
ChainsOK == \A t \in Ids : Linked(tokens[t]) /\ AppendsOK(t)

LEMMA Between ==
  ASSUME NEW n \in Nat, NEW l \in 1..n
  PROVE  l < n + 1 /\ l # 0 /\ n = (n + 1) - 1
OBVIOUS

(* What a step does to tokens and calls: it begins an append, ends one, issues   *)
(* a token, or none of these.                                                    *)
Sound(call) == call \in Call /\ (call.op \notin {"idle", "issue"} => call.token \in Ids)
Aside ==
  /\ calls' \in [Slot -> Call]
  /\ \A c \in Slot : \/ calls'[c] = calls[c]
                     \/ calls[c].op # "append" /\ calls'[c].op # "append" /\ Sound(calls'[c])
Touched ==
  \/ tokens' = tokens
  \/ \E t \in Ids, altered \in BOOLEAN : tokens' = [tokens EXCEPT ![t].altered = altered]
  \/ \E t \in Ids : tokens' = [tokens EXCEPT ![t].lapsed = TRUE]
(* A token becomes ACTIVE only by a new call, which releases an entry of it.     *)
Released(c, t) ==
  calls[c] = Idle /\ \E i \in DOMAIN iceBox : iceBox[i].tokenId = t /\ iceBox'[i].status = "RELEASED"
Opens ==
  \E c \in Slot, t \in Ids, status \in TokenStatus, cycle \in BOOLEAN :
    /\ calls[c].op # "append" /\ Becomes(c, t, status, cycle)
    /\ status = "ACTIVE" => tokens[t].status = "ACTIVE" \/ Released(c, t)

(* A step keeps the tokens that are there, and the entities they belong to.      *)
Grows ==
  /\ tokens' \in Seq(Token) /\ Ids \subseteq Ids'
  /\ \A t \in Ids : tokens'[t].entityId = tokens[t].entityId

LEMMA TokenOf ==
  ASSUME TypeOK
  PROVE  /\ Ids = 1..Len(tokens) /\ Len(tokens) \in Nat
         /\ \A t \in Ids : tokens[t] \in Token
BY LenProperties, ElementOfSeq DEF Ids, TypeOK

LEMMA ChangeGrows ==
  ASSUME TypeOK, NEW t \in Ids, NEW r \in Token, r.entityId = tokens[t].entityId,
         tokens' = [tokens EXCEPT ![t] = r]
  PROVE  Grows /\ Ids' = Ids /\ tokens'[t] = r /\ \A u \in Ids : u # t => tokens'[u] = tokens[u]
<1>1. tokens \in Seq(Token) /\ t \in 1..Len(tokens)
  BY TokenOf DEF TypeOK
<1>2. tokens' \in Seq(Token) /\ Len(tokens') = Len(tokens)
  BY <1>1, ExceptSeq
<1>3. Ids' = Ids
  BY DEF Ids
<1>4. tokens'[t] = r /\ \A u \in Ids : u # t => tokens'[u] = tokens[u]
  BY DEF Ids
<1> QED BY <1>2, <1>3, <1>4 DEF Grows

LEMMA CallSound ==
  ASSUME TypeOK, NEW c \in Slot
  PROVE  calls[c] \in Call /\ Sound(calls[c])
BY DEF TypeOK, Sound

LEMMA DoingSound ==
  ASSUME NEW t \in Ids, TypeOK,
         NEW op \in {"issue", "rotate", "revoke", "flag", "scan", "verify", "failed", "monitor"}
  PROVE  Doing(op, t) \in Call /\ Doing(op, t).op = op /\ Sound(Doing(op, t))
BY TokenOf DEF Doing, Call, Sound

LEMMA IdleSound ==
  /\ Idle \in Call /\ Idle.op = "idle" /\ Sound(Idle)
  /\ Doing("issue", 0) \in Call /\ Doing("issue", 0).op = "issue" /\ Sound(Doing("issue", 0))
BY DEF Idle, Doing, Call, Sound

(* The end of an append leaves its call to the cycle it belongs to, or idle.     *)
LEMMA AppendedEnds ==
  ASSUME TypeOK, NEW c \in Slot, Appended(c)
  PROVE  \E call : Sound(call) /\ call.op # "append" /\ calls' = [calls EXCEPT ![c] = call]
<1>1. calls[c].token \in Ids
  BY CallSound DEF Appended, Sound
<1>2. \/ calls' = [calls EXCEPT ![c] = Idle]
      \/ calls' = [calls EXCEPT ![c] = Doing("monitor", calls[c].token)]
  BY DEF Appended
<1> QED BY <1>1, <1>2, DoingSound, IdleSound

LEMMA OneAside ==
  ASSUME TypeOK, NEW c \in Slot, NEW call, calls[c].op # "append", call.op # "append", Sound(call),
         calls' = [calls EXCEPT ![c] = call]
  PROVE  Aside
BY DEF Aside, Sound, TypeOK

(* Every step has one of the forms.                                              *)
LEMMA Forms ==
  ASSUME TypeOK, Next
  PROVE  \/ Aside /\ Touched /\ UNCHANGED tokensByEntity
         \/ Aside /\ \E e \in Entity : Registered(e)
         \/ Opens /\ UNCHANGED tokensByEntity
         \/ (\E c \in Slot : Appended(c)) /\ UNCHANGED tokensByEntity
<1> DEFINE A == Aside /\ Touched /\ UNCHANGED tokensByEntity
           B == Aside /\ \E e \in Entity : Registered(e)
           O == Opens /\ UNCHANGED tokensByEntity
           P == (\E c \in Slot : Appended(c)) /\ UNCHANGED tokensByEntity
<1>0. calls' = calls => Aside
  BY DEF Aside, TypeOK
<1>1. ASSUME NEW c \in Slot, NEW op \in {"rotate", "flag", "scan"}, NEW t \in Ids, Begin(c, op, t)
      PROVE  Aside
  BY <1>1, IdleSound, DoingSound, OneAside DEF Begin
<1>2. ASSUME NEW c \in Slot, NEW t \in Ids, NEW status \in TokenStatus, NEW cycle \in BOOLEAN,
             calls[c].op # "append", Becomes(c, t, status, cycle),
             status = "ACTIVE" => tokens[t].status = "ACTIVE" \/ Released(c, t)
      PROVE  Opens
  BY <1>2 DEF Opens
<1>3. ASSUME NEW t \in Ids, Rescored(t)
      PROVE  Touched
  <2>1. tokens[t].altered \in BOOLEAN
    BY TokenOf DEF Token
  <2> QED BY <1>3, <2>1 DEF Rescored, Touched
<1>4. ASSUME NEW c \in Slot, GoesOn(c)
      PROVE  A \/ B \/ O \/ P
  <2>1. CASE Appended(c)
    BY <2>1 DEF Appended
  <2>2. ASSUME NEW e \in Entity, Issued(c, e)
        PROVE  B
    BY <2>2, IdleSound, OneAside DEF Issued
  <2>3. CASE Rotated(c)
    <3>1. calls[c].token \in Ids /\ tokens[calls[c].token].entityId \in Entity
      BY <2>3, TokenOf DEF Rotated, TypeOK, Token
    <3>2. PICK next \in {Doing("revoke", calls[c].token), Idle} : calls' = [calls EXCEPT ![c] = next]
      BY <2>3 DEF Rotated
    <3>3. next.op # "append" /\ Sound(next) /\ calls[c].op # "append"
      BY <2>3, <3>1, DoingSound, IdleSound DEF Rotated
    <3>4. Aside
      BY <3>2, <3>3, OneAside
    <3> QED BY <2>3, <3>1, <3>4 DEF Rotated
  <2>4. CASE Replaced(c) \/ Flagged(c) \/ Quarantined(c)
    <3>1. calls[c].token \in Ids /\ calls[c].op # "append" /\ tokens[calls[c].token].status \in TokenStatus
      BY <2>4, TokenOf DEF Replaced, Flagged, Quarantined, TypeOK, Token
    <3> QED BY <2>4, <3>1, <1>2 DEF Replaced, Flagged, Quarantined, TokenStatus
  <2>5. CASE RevokeExpired(c)
    BY <2>5, <1>2, IdleSound DEF RevokeExpired, Overdue, TokenStatus
  <2>6. CASE CycleEnds(c)
    BY <2>6, IdleSound, OneAside DEF CycleEnds, Touched
  <2>7. CASE TransferToIceBox(c)
    <3>1. calls[c].token \in Ids
      BY <2>7 DEF TransferToIceBox, TypeOK
    <3> QED BY <2>7, <3>1, DoingSound, OneAside DEF TransferToIceBox, Touched
  <2>8. CASE TransferFails(c)
    <3>1. calls[c].token \in Ids
      BY <2>8 DEF TransferFails, TypeOK
    <3> QED BY <2>8, <3>1, DoingSound, OneAside DEF TransferFails, Touched
  <2>9. CASE FailureReturns(c)
    BY <2>9, IdleSound, OneAside DEF FailureReturns, Touched
  <2> QED BY <1>4, <2>1, <2>2, <2>3, <2>4, <2>5, <2>6, <2>7, <2>8, <2>9 DEF GoesOn
<1>5. ASSUME NEW c \in Slot, Starts(c)
      PROVE  A \/ B \/ O \/ P
  <2>1. CASE BeginIssue(c)
    BY <2>1, IdleSound, OneAside DEF BeginIssue, Begin, Touched
  <2>2. CASE RevokeExpired(c)
    BY <2>2, <1>2, IdleSound DEF RevokeExpired, Overdue, TokenStatus
  <2>3. ASSUME NEW t \in Ids, BeginRotate(c, t) \/ RevokeToken(c, t) \/ VerifyToken(c, t)
                              \/ CreateThreatEvent(c, t) \/ UpdateRiskScore(c, t)
        PROVE  A \/ B \/ O \/ P
    <3>1. CASE BeginRotate(c, t)
      BY <3>1, <1>1 DEF BeginRotate, Touched
    <3>2. CASE RevokeToken(c, t)
      BY <3>2, <1>2, IdleSound DEF RevokeToken, TokenStatus
    <3>3. CASE VerifyToken(c, t)
      BY <3>3, <1>1, <1>2, IdleSound DEF VerifyToken, TokenStatus, Touched
    <3>4. CASE CreateThreatEvent(c, t)
      BY <3>4, <1>1 DEF CreateThreatEvent, TriggerWarpTunnel, Touched
    <3>5. CASE UpdateRiskScore(c, t)
      BY <3>5, <1>0, <1>1, <1>3 DEF UpdateRiskScore, TriggerWarpTunnel
    <3> QED BY <2>3, <3>1, <3>2, <3>3, <3>4, <3>5
  <2>4. ASSUME NEW i \in DOMAIN iceBox, Release(c, i) \/ Block(c, i)
        PROVE  O
    <3>1. iceBox[i].tokenId \in Ids
      BY DEF TypeOK
    <3>2. CASE Release(c, i)
      <4>1. Released(c, iceBox[i].tokenId)
        BY <3>2 DEF Release, Verdict, Released, TypeOK
      <4> QED BY <3>1, <3>2, <4>1, <1>2, IdleSound DEF Release, TokenStatus
    <3>3. CASE Block(c, i)
      BY <3>1, <3>3, <1>2, IdleSound DEF Block, TokenStatus
    <3> QED BY <2>4, <3>2, <3>3
  <2> QED BY <1>5, <2>1, <2>2, <2>3, <2>4 DEF Starts
<1>6. ASSUME NEW t \in Ids, Lapse(t)
      PROVE  A
  BY <1>0, <1>6 DEF Lapse, Touched
<1>7. ASSUME NEW e \in Entity, RecordActivity(e)
      PROVE  A
  <2>1. tokensByEntity[e] \in Ids
    BY <1>7 DEF RecordActivity, TypeOK
  <2> QED BY <1>0, <1>7, <2>1 DEF RecordActivity, Touched
<1>8. ASSUME NEW i \in DOMAIN iceBox, RunForensicAnalysis(i) \/ AnalysisEnds(i) \/ LegalAction(i)
      PROVE  A
  BY <1>0, <1>8 DEF RunForensicAnalysis, AnalysisEnds, LegalAction, Touched
<1> QED BY <1>4, <1>5, <1>6, <1>7, <1>8 DEF Next

(* What the forms do to the tokens.                                              *)
LEMMA TouchedGrows ==
  ASSUME TypeOK, Touched
  PROVE  /\ Grows /\ Ids' = Ids
         /\ \A t \in Ids : /\ tokens'[t].auditChain = tokens[t].auditChain
                           /\ tokens'[t].contended = tokens[t].contended
                           /\ tokens'[t].status = tokens[t].status
<1>1. CASE tokens' = tokens
  <2>1. Ids' = Ids /\ tokens' \in Seq(Token)
    BY <1>1 DEF Ids, TypeOK
  <2> QED BY <1>1, <2>1 DEF Grows
<1>2. ASSUME NEW t \in Ids, NEW r \in Token, tokens' = [tokens EXCEPT ![t] = r],
             r.entityId = tokens[t].entityId, r.auditChain = tokens[t].auditChain,
             r.contended = tokens[t].contended, r.status = tokens[t].status
      PROVE  /\ Grows /\ Ids' = Ids
             /\ \A u \in Ids : /\ tokens'[u].auditChain = tokens[u].auditChain
                               /\ tokens'[u].contended = tokens[u].contended
                               /\ tokens'[u].status = tokens[u].status
  <2>1. Grows /\ Ids' = Ids /\ tokens'[t] = r /\ \A u \in Ids : u # t => tokens'[u] = tokens[u]
    BY <1>2, ChangeGrows
  <2>2. /\ tokens'[t].auditChain = tokens[t].auditChain /\ tokens'[t].contended = tokens[t].contended
        /\ tokens'[t].status = tokens[t].status
    BY <1>2, <2>1
  <2> QED BY <2>1, <2>2
<1>3. ASSUME NEW t \in Ids, NEW altered \in BOOLEAN, tokens' = [tokens EXCEPT ![t].altered = altered]
      PROVE  \E r \in Token : /\ tokens' = [tokens EXCEPT ![t] = r]
                              /\ r.entityId = tokens[t].entityId /\ r.auditChain = tokens[t].auditChain
                              /\ r.contended = tokens[t].contended /\ r.status = tokens[t].status
  <2> DEFINE r == [tokens[t] EXCEPT !.altered = altered]
  <2>1. r \in Token /\ r.entityId = tokens[t].entityId /\ r.auditChain = tokens[t].auditChain
        /\ r.contended = tokens[t].contended /\ r.status = tokens[t].status
    BY TokenOf DEF Token
  <2> QED BY <1>3, <2>1
<1>4. ASSUME NEW t \in Ids, tokens' = [tokens EXCEPT ![t].lapsed = TRUE]
      PROVE  \E r \in Token : /\ tokens' = [tokens EXCEPT ![t] = r]
                              /\ r.entityId = tokens[t].entityId /\ r.auditChain = tokens[t].auditChain
                              /\ r.contended = tokens[t].contended /\ r.status = tokens[t].status
  <2> DEFINE r == [tokens[t] EXCEPT !.lapsed = TRUE]
  <2>1. r \in Token /\ r.entityId = tokens[t].entityId /\ r.auditChain = tokens[t].auditChain
        /\ r.contended = tokens[t].contended /\ r.status = tokens[t].status
    BY TokenOf DEF Token
  <2> QED BY <1>4, <2>1
<1> QED BY <1>1, <1>2, <1>3, <1>4 DEF Touched

LEMMA BecomesGrows ==
  ASSUME TypeOK, NEW c \in Slot, NEW t \in Ids, NEW status \in TokenStatus, NEW cycle \in BOOLEAN,
         Becomes(c, t, status, cycle)
  PROVE  /\ Grows /\ Ids' = Ids
         /\ tokens'[t].auditChain = tokens[t].auditChain
         /\ tokens'[t].contended <=> tokens[t].contended \/ Appending(t) # {}
         /\ tokens'[t].status = status
         /\ \A u \in Ids : u # t => tokens'[u] = tokens[u]
<1> DEFINE r == Marked(t, status)
           was == tokens[t].contended \/ Appending(t) # {}
<1>1. tokens[t] \in Token /\ was \in BOOLEAN
  BY TokenOf
<1>2. r = [tokens[t] EXCEPT !.status = status, !.contended = was]
  BY DEF Marked
<1> HIDE DEF was
<1>3. r \in Token /\ r.entityId = tokens[t].entityId /\ r.auditChain = tokens[t].auditChain
      /\ r.contended = was /\ r.status = status
  BY <1>1, <1>2 DEF Token
<1>4. tokens' = [tokens EXCEPT ![t] = r]
  BY DEF Becomes
<1> HIDE DEF r
<1>5. Grows /\ Ids' = Ids /\ tokens'[t] = r /\ \A u \in Ids : u # t => tokens'[u] = tokens[u]
  BY <1>3, <1>4, ChangeGrows
<1> QED BY <1>3, <1>5 DEF was

LEMMA AppendedGrows ==
  ASSUME TypeOK, NEW c \in Slot, Appended(c)
  PROVE  LET t == calls[c].token IN
         /\ t \in Ids /\ Grows /\ Ids' = Ids
         /\ tokens'[t].auditChain = Append(tokens[t].auditChain, calls[c].link)
         /\ tokens'[t].contended = tokens[t].contended
         /\ tokens'[t].status = tokens[t].status
         /\ \A u \in Ids : u # t => tokens'[u] = tokens[u]
<1> DEFINE t == calls[c].token
           chain == Append(tokens[t].auditChain, calls[c].link)
           r == [tokens[t] EXCEPT !.auditChain = chain]
<1>1. t \in Ids /\ calls[c].link \in Nat
  BY CallSound DEF Appended, TypeOK, Call
<1>2. tokens[t] \in Token /\ tokens[t].auditChain \in Seq(Nat)
  BY <1>1, TokenOf DEF Token
<1>3. chain \in Seq(Nat)
  BY <1>1, <1>2, AppendProperties
<1>4. tokens' = [tokens EXCEPT ![t] = r]
  BY DEF Appended
<1> HIDE DEF chain
<1>5. r \in Token /\ r.entityId = tokens[t].entityId /\ r.auditChain = chain
      /\ r.contended = tokens[t].contended /\ r.status = tokens[t].status
  BY <1>2, <1>3 DEF Token
<1> HIDE DEF t, r
<1>6. Grows /\ Ids' = Ids /\ tokens'[t] = r /\ \A u \in Ids : u # t => tokens'[u] = tokens[u]
  BY <1>1, <1>4, <1>5, ChangeGrows
<1> QED BY <1>1, <1>5, <1>6 DEF t, chain

LEMMA RegisteredGrows ==
  ASSUME TypeOK, NEW e \in Entity, Registered(e)
  PROVE  /\ Grows /\ Len(tokens') = Len(tokens) + 1
         /\ Ids' = Ids \cup {Len(tokens) + 1}
         /\ \A u \in Ids : tokens'[u] = tokens[u]
         /\ tokens'[Len(tokens) + 1] = NewToken(e)
<1>1. NewToken(e) \in Token
  BY EmptySeq, AppendProperties DEF NewToken, Token, TokenStatus
<1>2. tokens \in Seq(Token) /\ tokens' = Append(tokens, NewToken(e))
  BY DEF TypeOK, Registered
<1>3. /\ tokens' \in Seq(Token) /\ Len(tokens') = Len(tokens) + 1
      /\ \A u \in 1..Len(tokens) : tokens'[u] = tokens[u]
      /\ tokens'[Len(tokens) + 1] = NewToken(e)
  BY <1>1, <1>2, AppendProperties
<1>4. Ids = 1..Len(tokens) /\ Len(tokens) \in Nat
  BY TokenOf
<1>5. Ids' = 1..Len(tokens')
  BY <1>3, LenProperties DEF Ids
<1>6. Ids' = Ids \cup {Len(tokens) + 1}
  BY <1>3, <1>4, <1>5
<1> QED BY <1>3, <1>4, <1>6 DEF Grows

LEMMA StepGrows ==
  ASSUME TypeOK, Next
  PROVE  Grows
BY Forms, TouchedGrows, BecomesGrows, AppendedGrows, RegisteredGrows, CallSound DEF Opens

-----------------------------------------------------------------------------
(* Types *)

LEMMA CallsTyped ==
  ASSUME TypeOK, Next
  PROVE  calls' \in [Slot -> Call] /\ \A c \in Slot : calls'[c].op \notin {"idle", "issue"} => calls'[c].token \in Ids
<1>1. CASE Aside
  BY <1>1, CallSound DEF Aside, Sound
<1>2. ASSUME NEW c \in Slot, NEW call, Sound(call), calls' = [calls EXCEPT ![c] = call]
      PROVE  /\ calls' \in [Slot -> Call]
             /\ \A d \in Slot : calls'[d].op \notin {"idle", "issue"} => calls'[d].token \in Ids
  BY <1>2 DEF Sound, TypeOK
<1>3. ASSUME NEW t \in Ids, NEW cycle \in BOOLEAN
      PROVE  Sound(AppendCall(t, cycle))
  <2>1. tokens[t].auditChain \in Seq(Nat) /\ t \in Nat
    BY TokenOf DEF Token
  <2>2. Len(tokens[t].auditChain) \in Nat
    BY <2>1, LenProperties
  <2> QED BY <2>1, <2>2 DEF AppendCall, Sound, Call
<1>4. CASE Opens
  BY <1>2, <1>3, <1>4 DEF Opens, Becomes
<1>5. ASSUME NEW c \in Slot, Appended(c)
      PROVE  \E call : Sound(call) /\ calls' = [calls EXCEPT ![c] = call]
  BY <1>5, AppendedEnds
<1> QED BY <1>1, <1>2, <1>4, <1>5, Forms

(* A tunnel adds one entry, for its token.                                       *)
LEMMA NewEntry ==
  ASSUME TypeOK, NEW c \in Slot, TransferToIceBox(c) \/ TransferFails(c)
  PROVE  \E n \in IceBoxEntry : n.tokenId \in Ids /\ iceBox' = Append(iceBox, n)
<1> DEFINE t == calls[c].token
<1>1. t \in Ids
  BY DEF TransferToIceBox, TransferFails, TypeOK
<1>2. t \in Nat \ {0}
  BY <1>1, TokenOf
<1>3. /\ Entry(t, "ANALYSING", 1) \in IceBoxEntry /\ Entry(t, "ANALYSING", 1).tokenId = t
      /\ Entry(t, "QUARANTINED", 0) \in IceBoxEntry /\ Entry(t, "QUARANTINED", 0).tokenId = t
  BY <1>2 DEF Entry, IceBoxEntry, IceBoxStatus
<1>4. \/ iceBox' = Append(iceBox, Entry(t, "ANALYSING", 1))
      \/ iceBox' = Append(iceBox, Entry(t, "QUARANTINED", 0))
  BY DEF TransferToIceBox, TransferFails
<1> HIDE DEF t
<1> QED BY <1>1, <1>3, <1>4

LEMMA IceBoxTyped ==
  ASSUME TypeOK, Next
  PROVE  iceBox' \in Seq(IceBoxEntry) /\ \A i \in DOMAIN iceBox' : iceBox'[i].tokenId \in Ids
<1> DEFINE Good(box) == box \in Seq(IceBoxEntry) /\ \A i \in DOMAIN box : box[i].tokenId \in Ids
<1>1. Good(iceBox) /\ iceBox \in Seq(IceBoxEntry)
  BY DEF TypeOK
<1>2. DOMAIN iceBox = 1..Len(iceBox) /\ Len(iceBox) \in Nat /\ \A i \in DOMAIN iceBox : iceBox[i] \in IceBoxEntry
  BY <1>1, LenProperties, ElementOfSeq
<1>3. ASSUME NEW i \in DOMAIN iceBox, NEW n \in IceBoxEntry, n.tokenId = iceBox[i].tokenId,
             iceBox' = [iceBox EXCEPT ![i] = n]
      PROVE  Good(iceBox')
  <2>1. iceBox' \in Seq(IceBoxEntry) /\ DOMAIN iceBox' = DOMAIN iceBox
    BY <1>1, <1>2, <1>3, ExceptSeq
  <2>2. \A j \in DOMAIN iceBox : iceBox'[j].tokenId = iceBox[j].tokenId
    BY <1>3
  <2> QED BY <1>1, <2>1, <2>2
<1>4. ASSUME NEW i \in DOMAIN iceBox, NEW status \in IceBoxStatus, NEW k \in Nat,
             iceBox' = [iceBox EXCEPT ![i].status = status, ![i].analyses = k]
      PROVE  Good(iceBox')
  <2> DEFINE n == [iceBox[i] EXCEPT !.status = status, !.analyses = k]
  <2>1. n \in IceBoxEntry /\ n.tokenId = iceBox[i].tokenId
    BY <1>2 DEF IceBoxEntry
  <2>2. iceBox' = [iceBox EXCEPT ![i] = n]
    BY <1>4
  <2> QED BY <1>3, <2>1, <2>2
<1>5. ASSUME NEW i \in DOMAIN iceBox, NEW status \in IceBoxStatus, Verdict(i, status)
      PROVE  Good(iceBox')
  <2> DEFINE n == [iceBox[i] EXCEPT !.status = status]
  <2>1. n \in IceBoxEntry /\ n.tokenId = iceBox[i].tokenId
    BY <1>2 DEF IceBoxEntry
  <2>2. iceBox' = [iceBox EXCEPT ![i] = n]
    BY <1>5 DEF Verdict
  <2> QED BY <1>3, <2>1, <2>2
<1>6. ASSUME NEW c \in Slot, TransferToIceBox(c) \/ TransferFails(c)
      PROVE  Good(iceBox')
  <2>2. PICK n \in IceBoxEntry : n.tokenId \in Ids /\ iceBox' = Append(iceBox, n)
    BY <1>6, NewEntry
  <2>4. /\ iceBox' \in Seq(IceBoxEntry) /\ Len(iceBox') = Len(iceBox) + 1
        /\ \A i \in 1..Len(iceBox) : iceBox'[i] = iceBox[i]
        /\ iceBox'[Len(iceBox) + 1] = n
    BY <1>1, <2>2, AppendProperties
  <2>5. DOMAIN iceBox' = DOMAIN iceBox \cup {Len(iceBox) + 1}
    BY <1>2, <2>4, LenProperties
  <2> QED BY <1>1, <1>2, <2>2, <2>4, <2>5
<1>7. ASSUME NEW i \in DOMAIN iceBox
      PROVE  /\ RunForensicAnalysis(i) => Good(iceBox')
             /\ AnalysisEnds(i) => Good(iceBox')
             /\ LegalAction(i) => Good(iceBox')
  <2> DEFINE k == iceBox[i].analyses
  <2>1. k \in Nat
    BY <1>2 DEF IceBoxEntry
  <2>2. k + 1 \in Nat /\ (k > 0 => k - 1 \in Nat)
    BY <2>1
  <2> QED BY <2>2, <1>4, <1>5 DEF RunForensicAnalysis, AnalysisEnds, LegalAction, IceBoxStatus
<1>8. ASSUME NEW c \in Slot, NEW i \in DOMAIN iceBox, Release(c, i) \/ Block(c, i)
      PROVE  Good(iceBox')
  BY <1>5, <1>8 DEF Release, Block, IceBoxStatus
<1> HIDE DEF Good
<1>9. ASSUME NEW c \in Slot, GoesOn(c) \/ Starts(c)
      PROVE  Good(iceBox')
  <2>1. \/ iceBox' = iceBox \/ TransferToIceBox(c) \/ TransferFails(c)
        \/ \E i \in DOMAIN iceBox : Release(c, i) \/ Block(c, i)
    BY <1>9 DEF GoesOn, Starts, Appended, Issued, Rotated, Replaced, Flagged, RevokeExpired, CycleEnds, Quarantined,
                FailureReturns, BeginIssue, BeginRotate, RevokeToken, VerifyToken, CreateThreatEvent, UpdateRiskScore
  <2> QED BY <1>1, <1>6, <1>8, <2>1
<1>10. Good(iceBox')
  BY <1>1, <1>7, <1>9 DEF Next, Lapse, RecordActivity
<1> QED BY <1>10 DEF Good

LEMMA ByEntityTyped ==
  ASSUME TypeOK, Next
  PROVE  /\ tokensByEntity' \in [Entity -> Nat]
         /\ \A e \in Entity : tokensByEntity'[e] # 0 =>
              tokensByEntity'[e] \in Ids' /\ tokens'[tokensByEntity'[e]].entityId = e
<1>1. CASE UNCHANGED tokensByEntity
  BY <1>1, StepGrows DEF TypeOK, Grows
<1>2. ASSUME NEW e \in Entity, Registered(e)
      PROVE  /\ tokensByEntity' \in [Entity -> Nat]
             /\ \A u \in Entity : tokensByEntity'[u] # 0 =>
                  tokensByEntity'[u] \in Ids' /\ tokens'[tokensByEntity'[u]].entityId = u
  <2> DEFINE n == Len(tokens) + 1
  <2>1. n \in Nat /\ n \in Ids' /\ tokens'[n] = NewToken(e) /\ Grows
    BY <1>2, RegisteredGrows, TokenOf
  <2>2. NewToken(e).entityId = e
    BY DEF NewToken
  <2>3. tokensByEntity' = [tokensByEntity EXCEPT ![e] = n]
    BY <1>2 DEF Registered
  <2> HIDE DEF n
  <2> QED BY <2>1, <2>2, <2>3 DEF TypeOK, Grows
<1> QED BY <1>1, <1>2, Forms

LEMMA TypeStep == TypeOK /\ [Next]_vars => TypeOK'
<1> SUFFICES ASSUME TypeOK, [Next]_vars PROVE TypeOK'
  OBVIOUS
<1>1. CASE Next
  <2>1. tokens' \in Seq(Token) /\ Ids \subseteq Ids'
    BY <1>1, StepGrows DEF Grows
  <2> QED BY <1>1, <2>1, CallsTyped, IceBoxTyped, ByEntityTyped DEF TypeOK
<1>2. CASE UNCHANGED vars
  BY <1>2 DEF vars, TypeOK, Ids
<1> QED BY <1>1, <1>2

(* The variables have their types, and every number is that of a token.          *)
THEOREM TypeCorrect ==
  Spec => []TypeOK
<1>1. Init => TypeOK
  BY EmptySeq, IdleSound DEF Init, TypeOK, Ids
<1> QED BY <1>1, TypeStep, PTL DEF Spec

-----------------------------------------------------------------------------
(* Chains *)

LEMMA ChainOf ==
  ASSUME TypeOK, NEW t \in Ids
  PROVE  /\ tokens[t].auditChain \in Seq(Nat) /\ Len(tokens[t].auditChain) \in Nat
         /\ DOMAIN tokens[t].auditChain = 1..Len(tokens[t].auditChain)
         /\ tokens[t].contended \in BOOLEAN
BY TokenOf, LenProperties DEF Token

(* A token whose chain and mark are as they were, and no new append to it.       *)
LEMMA Unmoved ==
  ASSUME TypeOK, ChainsOK, NEW t \in Ids,
         tokens'[t].auditChain = tokens[t].auditChain,
         tokens'[t].contended = tokens[t].contended,
         \A c \in Slot : calls'[c].op = "append" /\ calls'[c].token = t => calls'[c] = calls[c]
  PROVE  (Linked(tokens[t]) /\ AppendsOK(t))'
<1>1. Linked(tokens[t])'
  BY DEF ChainsOK, Linked
<1>2. AppendsOK(t)'
  BY DEF ChainsOK, AppendsOK, Read
<1> QED BY <1>1, <1>2

LEMMA NewLinked ==
  ASSUME NEW e
  PROVE  Linked(NewToken(e))
<1>1. NewToken(e).auditChain = <<0>> /\ Len(<<0>>) = 1 /\ DOMAIN <<0>> = {1} /\ <<0>>[1] = 0
  BY DEF NewToken
<1> QED BY <1>1 DEF Linked

LEMMA OpensKeeps ==
  ASSUME TypeOK, ChainsOK, Opens
  PROVE  ChainsOK'
<1>1. PICK c \in Slot, t \in Ids, status \in TokenStatus, cycle \in BOOLEAN :
        calls[c].op # "append" /\ Becomes(c, t, status, cycle)
  BY DEF Opens
<1>2. /\ Ids' = Ids /\ tokens'[t].auditChain = tokens[t].auditChain
      /\ tokens'[t].contended <=> tokens[t].contended \/ Appending(t) # {}
      /\ \A u \in Ids : u # t => tokens'[u] = tokens[u]
  BY <1>1, BecomesGrows
<1>3. /\ calls'[c].op = "append" /\ calls'[c].token = t
      /\ calls'[c].link = Len(tokens[t].auditChain)
      /\ \A d \in Slot : d # c => calls'[d] = calls[d]
  BY <1>1 DEF Becomes, AppendCall, TypeOK
<1>4. ASSUME NEW u \in Ids, u # t
      PROVE  (Linked(tokens[u]) /\ AppendsOK(u))'
  BY <1>2, <1>3, <1>4, Unmoved
<1>5. Linked(tokens[t]) /\ AppendsOK(t)
  BY DEF ChainsOK
<1>6. Linked(tokens[t])'
  BY <1>2, <1>5 DEF Linked
<1>7. AppendsOK(t)'
  <2>1. Len(tokens[t].auditChain) \in 1..Len(tokens[t].auditChain)
    BY <1>5, ChainOf DEF Linked
  <2>2. ASSUME NEW d \in Slot, calls'[d].op = "append", calls'[d].token = t
        PROVE  Read(tokens'[t], calls'[d].link)
    <3>1. CASE d = c
      BY <1>2, <1>3, <2>1, <3>1 DEF Read
    <3>2. CASE d # c
      <4>1. calls'[d] = calls[d]
        BY <1>3, <3>2
      <4>2. Read(tokens[t], calls[d].link)
        BY <1>5, <2>2, <4>1 DEF AppendsOK
      <4> QED BY <1>2, <4>1, <4>2 DEF Read
    <3> QED BY <3>1, <3>2
  <2>3. ASSUME NEW d \in Slot, NEW x \in Slot, d # x,
               calls'[d].op = "append", calls'[d].token = t,
               calls'[x].op = "append", calls'[x].token = t
        PROVE  tokens'[t].contended
    <3>1. PICK y \in Slot : y # c /\ calls'[y].op = "append" /\ calls'[y].token = t
      BY <2>3
    <3>2. y \in Appending(t)
      BY <1>3, <3>1 DEF Appending, InFlight
    <3> QED BY <1>2, <3>2
  <2> QED BY <2>2, <2>3 DEF AppendsOK
<1> QED BY <1>2, <1>4, <1>6, <1>7 DEF ChainsOK

LEMMA AppendedKeeps ==
  ASSUME TypeOK, ChainsOK, NEW c \in Slot, Appended(c)
  PROVE  ChainsOK'
<1>0. PICK t : t = calls[c].token
  OBVIOUS
<1> DEFINE chain == tokens[t].auditChain
           link == calls[c].link
           long == Append(chain, link)
<1>1. /\ t \in Ids /\ Ids' = Ids
      /\ tokens'[t].auditChain = long
      /\ tokens'[t].contended = tokens[t].contended
      /\ \A u \in Ids : u # t => tokens'[u] = tokens[u]
  BY <1>0, AppendedGrows
<1>2. calls[c].op = "append" /\ calls'[c].op # "append" /\ \A d \in Slot : d # c => calls'[d] = calls[d]
  BY AppendedEnds DEF Appended, TypeOK
<1>3. ASSUME NEW u \in Ids, u # t
      PROVE  (Linked(tokens[u]) /\ AppendsOK(u))'
  BY <1>0, <1>1, <1>2, <1>3, Unmoved
<1>4. Linked(tokens[t]) /\ AppendsOK(t) /\ Read(tokens[t], link)
  BY <1>0, <1>1, <1>2 DEF ChainsOK, AppendsOK
<1>5. chain \in Seq(Nat) /\ Len(chain) \in Nat /\ DOMAIN chain = 1..Len(chain)
  BY <1>1, ChainOf
<1>6. link \in 1..Len(chain) /\ link \in Nat /\ (~tokens[t].contended => link = Len(chain))
  BY <1>4, <1>5 DEF Read
<1> HIDE DEF link, chain
<1>7. /\ long \in Seq(Nat) /\ Len(long) = Len(chain) + 1
      /\ \A k \in 1..Len(chain) : long[k] = chain[k]
      /\ long[Len(chain) + 1] = link
  <2>1. link \in Nat
    BY <1>6
  <2> QED BY <1>5, <2>1, AppendProperties
<1>8. DOMAIN long = 1..(Len(chain) + 1)
  BY <1>7, LenProperties
<1> HIDE DEF long
<1>9. Linked(tokens[t])'
  <2>1. chain = tokens[t].auditChain
    BY DEF chain
  <2>2. \A k \in 1..Len(chain) : /\ chain[k] < k /\ (chain[k] = 0 => k = 1)
                                 /\ ~tokens[t].contended => chain[k] = k - 1
    BY <1>4, <1>5, <2>1 DEF Linked
  <2>3. ASSUME NEW k \in DOMAIN long
        PROVE  /\ long[k] < k /\ (long[k] = 0 => k = 1)
               /\ ~tokens[t].contended => long[k] = k - 1
    <3>1. k \in 1..Len(chain) \/ k = Len(chain) + 1
      BY <1>5, <1>8
    <3>2. CASE k \in 1..Len(chain)
      BY <1>7, <2>2, <3>2
    <3>3. CASE k = Len(chain) + 1
      <4>1. long[k] = link
        BY <1>7, <3>3
      <4>2. link < k /\ link # 0 /\ Len(chain) = k - 1
        BY <1>5, <1>6, <3>3, Between
      <4> QED BY <1>6, <4>1, <4>2
    <3> QED BY <3>1, <3>2, <3>3
  <2>4. Len(long) # 0
    BY <1>5, <1>7
  <2>5. ~tokens'[t].contended <=> ~tokens[t].contended
    BY <1>1
  <2> QED BY <1>1, <2>3, <2>4, <2>5 DEF Linked
<1>10. AppendsOK(t)'
  <2>1. ASSUME NEW d \in Slot, calls'[d].op = "append", calls'[d].token = t
        PROVE  d # c /\ calls'[d] = calls[d] /\ tokens[t].contended
    <3>1. d # c /\ calls'[d] = calls[d]
      BY <1>2, <2>1
    <3> QED BY <1>0, <1>2, <1>4, <2>1, <3>1 DEF AppendsOK
  <2>2. ASSUME NEW d \in Slot, calls'[d].op = "append", calls'[d].token = t
        PROVE  Read(tokens'[t], calls'[d].link)
    <3>1. Read(tokens[t], calls[d].link)
      BY <1>4, <2>1, <2>2 DEF AppendsOK
    <3>2. calls[d].link \in 1..Len(chain)
      BY <3>1 DEF Read, chain
    <3>3. calls[d].link \in 1..Len(long)
      BY <1>5, <1>7, <3>2
    <3> QED BY <1>1, <2>1, <2>2, <3>3 DEF Read
  <2> QED BY <1>1, <2>1, <2>2 DEF AppendsOK
<1> QED BY <1>1, <1>3, <1>9, <1>10 DEF ChainsOK

LEMMA RegisteredKeeps ==
  ASSUME TypeOK, ChainsOK, Aside, NEW e \in Entity, Registered(e)
  PROVE  ChainsOK'
<1>0. PICK n : n = Len(tokens) + 1
  OBVIOUS
<1>1. /\ Ids' = Ids \cup {n} /\ tokens'[n] = NewToken(e)
      /\ \A u \in Ids : tokens'[u] = tokens[u]
  BY <1>0, RegisteredGrows
<1>2. n \notin Ids
  BY <1>0, TokenOf
<1>3. ASSUME NEW u \in Ids
      PROVE  (Linked(tokens[u]) /\ AppendsOK(u))'
  BY <1>1, Unmoved DEF Aside
<1>4. Linked(tokens[n])'
  BY <1>1, NewLinked
<1>5. AppendsOK(n)'
  <2>1. \A c \in Slot : calls'[c].op = "append" => calls'[c].token \in Ids
    BY CallSound DEF Aside, Sound
  <2> QED BY <1>2, <2>1 DEF AppendsOK
<1> QED BY <1>1, <1>3, <1>4, <1>5 DEF ChainsOK

LEMMA ChainStep == TypeOK /\ ChainsOK /\ [Next]_vars => ChainsOK'
<1> SUFFICES ASSUME TypeOK, ChainsOK, [Next]_vars PROVE ChainsOK'
  OBVIOUS
<1>1. CASE Next
  <2>1. CASE Aside /\ Touched
    <3>1. /\ Ids' = Ids
          /\ \A t \in Ids : /\ tokens'[t].auditChain = tokens[t].auditChain
                            /\ tokens'[t].contended = tokens[t].contended
      BY <2>1, TouchedGrows
    <3> QED BY <2>1, <3>1, Unmoved DEF Aside, ChainsOK
  <2> QED BY <1>1, <2>1, Forms, OpensKeeps, AppendedKeeps, RegisteredKeeps
<1>2. CASE UNCHANGED vars
  BY <1>2 DEF vars, ChainsOK, AppendsOK, Ids
<1> QED BY <1>1, <1>2

(* Every entry of a chain records an earlier one, and the last one unless two    *)
(* appends to the chain were in flight at once.                                  *)
THEOREM ChainsLinked ==
  Spec => []AuditLinked
<1>1. Init => ChainsOK
  BY DEF Init, ChainsOK, Ids
<1>2. ChainsOK => AuditLinked
  BY DEF ChainsOK, Linked, AuditLinked
<1> QED BY <1>1, <1>2, ChainStep, TypeCorrect, PTL DEF Spec

-----------------------------------------------------------------------------
(* What the chain tells *)

(* The three parts of StatusAudited, of one step.                                *)
Announced ==
  \A t \in Ids : tokens'[t].status # tokens[t].status =>
    \E c \in Slot :
      /\ calls[c].op # "append" /\ calls'[c].op = "append" /\ calls'[c].token = t
      /\ tokens'[t].status = "ACTIVE" => Released(c, t)
AppendOnly ==
  \A t \in Ids : tokens'[t].auditChain # tokens[t].auditChain =>
    \E c \in Appending(t) :
      /\ calls'[c].op # "append"
      /\ tokens'[t].auditChain = Append(tokens[t].auditChain, calls[c].link)
NoneLost ==
  \A c \in InFlight({"append"}) : calls'[c] # calls[c] =>
    LET t == calls[c].token
    IN  tokens'[t].auditChain = Append(tokens[t].auditChain, calls[c].link)

LEMMA StepAudited ==
  ASSUME TypeOK, Next
  PROVE  Announced /\ AppendOnly /\ NoneLost
<1>1. ASSUME Aside, Touched \/ \E e \in Entity : Registered(e)
      PROVE  Announced /\ AppendOnly /\ NoneLost
  <2>1. \A t \in Ids : /\ tokens'[t].status = tokens[t].status
                       /\ tokens'[t].auditChain = tokens[t].auditChain
    BY <1>1, TouchedGrows, RegisteredGrows
  <2>2. NoneLost
    BY <1>1 DEF Aside, NoneLost, InFlight
  <2> QED BY <2>1, <2>2 DEF Announced, AppendOnly
<1>2. CASE Opens
  <2>1. PICK c \in Slot, t \in Ids, status \in TokenStatus, cycle \in BOOLEAN :
          /\ calls[c].op # "append" /\ Becomes(c, t, status, cycle)
          /\ status = "ACTIVE" => tokens[t].status = "ACTIVE" \/ Released(c, t)
    BY <1>2 DEF Opens
  <2>2. /\ tokens'[t].auditChain = tokens[t].auditChain /\ tokens'[t].status = status
        /\ \A u \in Ids : u # t => tokens'[u] = tokens[u]
    BY <2>1, BecomesGrows
  <2>3. /\ calls'[c].op = "append" /\ calls'[c].token = t
        /\ \A d \in Slot : d # c => calls'[d] = calls[d]
    BY <2>1 DEF Becomes, AppendCall, TypeOK
  <2>4. Announced
    BY <2>1, <2>2, <2>3 DEF Announced
  <2>5. AppendOnly
    BY <2>2 DEF AppendOnly
  <2>6. NoneLost
    BY <2>1, <2>3 DEF NoneLost, InFlight
  <2> QED BY <2>4, <2>5, <2>6
<1>3. ASSUME NEW c \in Slot, Appended(c)
      PROVE  Announced /\ AppendOnly /\ NoneLost
  <2>1. PICK t : t = calls[c].token
    OBVIOUS
  <2>2. /\ t \in Ids /\ tokens'[t].status = tokens[t].status
        /\ tokens'[t].auditChain = Append(tokens[t].auditChain, calls[c].link)
        /\ \A u \in Ids : u # t => tokens'[u] = tokens[u]
    BY <1>3, <2>1, AppendedGrows
  <2>3. /\ calls[c].op = "append" /\ calls'[c].op # "append"
        /\ \A d \in Slot : d # c => calls'[d] = calls[d]
    BY <1>3, AppendedEnds DEF Appended, TypeOK
  <2>4. c \in Appending(t)
    BY <2>1, <2>3 DEF Appending, InFlight
  <2>5. Announced
    BY <2>2 DEF Announced
  <2>6. AppendOnly
    BY <2>2, <2>3, <2>4 DEF AppendOnly
  <2>7. NoneLost
    BY <2>1, <2>2, <2>3 DEF NoneLost, InFlight
  <2> QED BY <2>5, <2>6, <2>7
<1> QED BY <1>1, <1>2, <1>3, Forms

(* Every change of a status begins an append to the chain of its token, every    *)
(* append in flight ends in the chain, and none but a release makes a token      *)
(* ACTIVE again.                                                                 *)
THEOREM AuditTheorem ==
  Spec => StatusAudited
<1>1. TypeOK /\ [Next]_vars => [Announced /\ AppendOnly /\ NoneLost]_vars
  BY StepAudited
<1> QED BY <1>1, TypeCorrect, PTL DEF Spec, StatusAudited, Announced, AppendOnly, NoneLost, Released

-----------------------------------------------------------------------------
(* The warp tunnel *)

(* A tunnel that is open waits, puts its token in the ice box and goes on, or    *)
(* FAILs with the token there; one past its transfer waits or quarantines it.    *)
TunnelGoesOn ==
  \A c \in Slot : LET t == calls[c].token IN
    /\ calls[c].op = "scan" /\ calls'[c] # calls[c] =>
         /\ Len(iceBox') = Len(iceBox) + 1 /\ iceBox'[Len(iceBox')].tokenId = t
         /\ \/ calls'[c] = Doing("verify", t)
            \/ /\ calls'[c] = Doing("failed", t)
               /\ iceBox'[Len(iceBox')].status = "QUARANTINED" /\ tokens' = tokens
    /\ calls[c].op = "verify" /\ calls'[c] # calls[c] =>
         tokens'[t].status = "QUARANTINED" /\ calls'[c] = AppendCall(t, FALSE)

LEMMA OnlyOwnCall ==
  ASSUME TypeOK, NEW d \in Slot, GoesOn(d) \/ Starts(d), NEW c \in Slot, c # d
  PROVE  calls'[c] = calls[c]
<1>1. \/ calls' = calls
      \/ \E call : calls' = [calls EXCEPT ![d] = call]
  BY DEF GoesOn, Starts, Appended, Issued, Rotated, Replaced, Flagged, RevokeExpired, CycleEnds,
         TransferToIceBox, TransferFails, FailureReturns, Quarantined, Becomes, Begin, BeginIssue,
         BeginRotate, RevokeToken, VerifyToken, CreateThreatEvent, UpdateRiskScore,
         TriggerWarpTunnel, Release, Block
<1> QED BY <1>1 DEF TypeOK

LEMMA TunnelStep ==
  ASSUME TypeOK, Next
  PROVE  TunnelGoesOn
<1> SUFFICES ASSUME NEW c \in Slot, calls[c].op \in {"scan", "verify"}, calls'[c] # calls[c]
             PROVE  LET t == calls[c].token IN
                    /\ calls[c].op = "scan" =>
                         /\ Len(iceBox') = Len(iceBox) + 1 /\ iceBox'[Len(iceBox')].tokenId = t
                         /\ \/ calls'[c] = Doing("verify", t)
                            \/ /\ calls'[c] = Doing("failed", t)
                               /\ iceBox'[Len(iceBox')].status = "QUARANTINED" /\ tokens' = tokens
                    /\ calls[c].op = "verify" =>
                         tokens'[t].status = "QUARANTINED" /\ calls'[c] = AppendCall(t, FALSE)
  BY DEF TunnelGoesOn
<1>1. calls[c] # Idle
  BY IdleSound
<1>2. calls' # calls
  OBVIOUS
<1>3. ~Starts(c)
  BY <1>1, <1>2 DEF Starts, Begin, BeginIssue, RevokeExpired, BeginRotate, RevokeToken, VerifyToken,
                    CreateThreatEvent, UpdateRiskScore, TriggerWarpTunnel, Release, Block
<1>4. GoesOn(c)
  BY <1>2, <1>3, OnlyOwnCall DEF Next, Lapse, RecordActivity, RunForensicAnalysis, AnalysisEnds, LegalAction
<1>5. CASE calls[c].op = "scan"
  <2> DEFINE t == calls[c].token
  <2>1. TransferToIceBox(c) \/ TransferFails(c)
    BY <1>4, <1>5 DEF GoesOn, Appended, Issued, Rotated, Replaced, Flagged, CycleEnds, FailureReturns, Quarantined
  <2>2. ASSUME NEW n \in IceBoxEntry, iceBox' = Append(iceBox, n)
        PROVE  Len(iceBox') = Len(iceBox) + 1 /\ iceBox'[Len(iceBox')] = n
    BY <2>2, AppendProperties DEF TypeOK
  <2>3. t \in Nat \ {0}
    BY <1>5, TokenOf DEF TypeOK
  <2>4. ASSUME NEW n \in {Entry(t, "ANALYSING", 1), Entry(t, "QUARANTINED", 0)}
        PROVE  n \in IceBoxEntry /\ n.tokenId = t
    BY <2>3 DEF Entry, IceBoxEntry, IceBoxStatus
  <2>5. CASE TransferToIceBox(c)
    <3>1. PICK n \in {Entry(t, "ANALYSING", 1), Entry(t, "QUARANTINED", 0)} : iceBox' = Append(iceBox, n)
      BY <2>5 DEF TransferToIceBox
    <3>2. calls'[c] = Doing("verify", t)
      BY <2>5 DEF TransferToIceBox, TypeOK
    <3> QED BY <1>5, <2>2, <2>4, <3>1, <3>2
  <2>6. CASE TransferFails(c)
    <3> DEFINE n == Entry(t, "QUARANTINED", 0)
    <3>1. iceBox' = Append(iceBox, n) /\ calls'[c] = Doing("failed", t) /\ tokens' = tokens
      BY <2>6 DEF TransferFails, TypeOK
    <3>2. n \in IceBoxEntry /\ n.tokenId = t /\ n.status = "QUARANTINED"
      BY <2>4 DEF Entry
    <3> HIDE DEF n
    <3> QED BY <1>5, <2>2, <3>1, <3>2
  <2> QED BY <2>1, <2>5, <2>6
<1>6. CASE calls[c].op = "verify"
  <2>1. Quarantined(c)
    BY <1>4, <1>6 DEF GoesOn, Appended, Issued, Rotated, Replaced, Flagged, CycleEnds,
                      TransferToIceBox, TransferFails, FailureReturns
  <2>2. calls[c].token \in Ids
    BY <1>6 DEF TypeOK
  <2>3. tokens'[calls[c].token].status = "QUARANTINED"
    BY <2>1, <2>2, BecomesGrows DEF Quarantined, TokenStatus
  <2>4. calls'[c] = AppendCall(calls[c].token, FALSE)
    BY <2>1 DEF Quarantined, Becomes, TypeOK
  <2> QED BY <1>6, <2>3, <2>4
<1> QED BY <1>5, <1>6

(* No rotation, revocation, release, verdict or analysis takes a tunnel from its *)
(* way: it leaves its token in the ice box, and past that quarantines it.  Only  *)
(* a listener does that throws when the entry is there: the token stays as it is.*)
THEOREM TunnelTheorem == Spec => [][TunnelGoesOn]_vars
<1>1. TypeOK /\ [Next]_vars => [TunnelGoesOn]_vars
  BY TunnelStep
<1> QED BY <1>1, TypeCorrect, PTL DEF Spec

-----------------------------------------------------------------------------
(* Verdicts *)

(* What a step may do to an entry of the ice box.                                *)
VerdictOrAnalysis ==
  \A i \in DOMAIN iceBox :
    LET was == iceBox[i]  now == iceBox'[i]  token == tokens'[was.tokenId] IN
    /\ now.tokenId = was.tokenId
    /\ now.status # was.status =>
         \/ now.status = "RELEASED" /\ token.status = "ACTIVE"
         \/ now.status = "PERMANENTLY_BLOCKED" /\ token.status = "REVOKED"
         \/ now.status = "LEGAL_HOLD"
         \/ now.status = "ANALYSING" /\ now.analyses > was.analyses
         \/ now.status = "PENDING_VERDICT" /\ now.analyses < was.analyses

LEMMA VerdictStep ==
  ASSUME TypeOK, Next
  PROVE  VerdictOrAnalysis
<1>1. /\ iceBox \in Seq(IceBoxEntry) /\ DOMAIN iceBox = 1..Len(iceBox)
      /\ \A i \in DOMAIN iceBox : iceBox[i] \in IceBoxEntry /\ iceBox[i].tokenId \in Ids
  BY LenProperties, ElementOfSeq DEF TypeOK
<1>2. CASE iceBox' = iceBox
  BY <1>2 DEF VerdictOrAnalysis
<1>3. ASSUME NEW c \in Slot, TransferToIceBox(c) \/ TransferFails(c) PROVE VerdictOrAnalysis
  <2>1. PICK n \in IceBoxEntry : iceBox' = Append(iceBox, n)
    BY <1>3, NewEntry
  <2>2. \A i \in DOMAIN iceBox : iceBox'[i] = iceBox[i]
    BY <1>1, <2>1, AppendProperties
  <2> QED BY <2>2 DEF VerdictOrAnalysis
<1>4. ASSUME NEW c \in Slot, NEW i \in DOMAIN iceBox, Release(c, i) \/ Block(c, i)
      PROVE  VerdictOrAnalysis
  <2> DEFINE t == iceBox[i].tokenId
  <2>1. t \in Ids
    BY <1>1
  <2>2. ASSUME NEW status \in IceBoxStatus, NEW given \in TokenStatus,
               Verdict(i, status), Becomes(c, t, given, FALSE),
               \/ status = "RELEASED" /\ given = "ACTIVE"
               \/ status = "PERMANENTLY_BLOCKED" /\ given = "REVOKED"
        PROVE  VerdictOrAnalysis
    <3>1. tokens'[t].status = given
      BY <2>1, <2>2, BecomesGrows
    <3>2. /\ iceBox'[i].status = status /\ iceBox'[i].tokenId = t
          /\ \A j \in DOMAIN iceBox : j # i => iceBox'[j] = iceBox[j]
      BY <1>1, <2>2 DEF Verdict, IceBoxEntry
    <3> QED BY <2>2, <3>1, <3>2 DEF VerdictOrAnalysis
  <2>3. CASE Release(c, i)
    <3>1. Verdict(i, "RELEASED") /\ Becomes(c, t, "ACTIVE", FALSE)
      BY <2>3 DEF Release
    <3>2. "RELEASED" \in IceBoxStatus /\ "ACTIVE" \in TokenStatus
      BY DEF IceBoxStatus, TokenStatus
    <3> QED BY <2>2, <3>1, <3>2
  <2>4. CASE Block(c, i)
    <3>1. Verdict(i, "PERMANENTLY_BLOCKED") /\ Becomes(c, t, "REVOKED", FALSE)
      BY <2>4 DEF Block
    <3>2. "PERMANENTLY_BLOCKED" \in IceBoxStatus /\ "REVOKED" \in TokenStatus
      BY DEF IceBoxStatus, TokenStatus
    <3> QED BY <2>2, <3>1, <3>2
  <2> QED BY <1>4, <2>3, <2>4
<1>5. ASSUME NEW i \in DOMAIN iceBox, RunForensicAnalysis(i) \/ AnalysisEnds(i) \/ LegalAction(i)
      PROVE  VerdictOrAnalysis
  <2>1. iceBox[i].analyses \in Nat
    BY <1>1 DEF IceBoxEntry
  <2>2. \A j \in DOMAIN iceBox : j # i => iceBox'[j] = iceBox[j]
    BY <1>5 DEF RunForensicAnalysis, AnalysisEnds, LegalAction, Verdict
  <2>3. iceBox'[i].tokenId = iceBox[i].tokenId
    BY <1>1, <1>5 DEF RunForensicAnalysis, AnalysisEnds, LegalAction, Verdict, IceBoxEntry
  <2>4. \/ iceBox'[i].status = "ANALYSING" /\ iceBox'[i].analyses = iceBox[i].analyses + 1
        \/ iceBox'[i].status = "PENDING_VERDICT" /\ iceBox'[i].analyses = iceBox[i].analyses - 1
        \/ iceBox'[i].status = "LEGAL_HOLD"
    BY <1>1, <1>5 DEF RunForensicAnalysis, AnalysisEnds, LegalAction, Verdict, IceBoxEntry
  <2>5. \A k \in Nat : k + 1 > k /\ k - 1 < k
    OBVIOUS
  <2> QED BY <2>1, <2>2, <2>3, <2>4, <2>5 DEF VerdictOrAnalysis
<1>6. ASSUME NEW c \in Slot, GoesOn(c) \/ Starts(c) PROVE VerdictOrAnalysis
  <2>1. \/ iceBox' = iceBox \/ TransferToIceBox(c) \/ TransferFails(c)
        \/ \E i \in DOMAIN iceBox : Release(c, i) \/ Block(c, i)
    BY <1>6 DEF GoesOn, Starts, Appended, Issued, Rotated, Replaced, Flagged, RevokeExpired, CycleEnds, Quarantined,
                FailureReturns, BeginIssue, BeginRotate, RevokeToken, VerifyToken, CreateThreatEvent, UpdateRiskScore
  <2> QED BY <1>2, <1>3, <1>4, <2>1
<1> QED BY <1>2, <1>5, <1>6 DEF Next, Lapse, RecordActivity

(* A verdict acts on its token at once, and only an analysis of its entry, which  *)
(* begins or was in flight, takes it back.                                       *)
THEOREM VerdictTheorem == Spec => VerdictStands
<1>1. TypeOK /\ [Next]_vars => [VerdictOrAnalysis]_vars
  BY VerdictStep
<1> QED BY <1>1, TypeCorrect, PTL DEF Spec, VerdictStands, VerdictOrAnalysis
===============================================================================

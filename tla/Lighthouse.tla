------------------------------- MODULE Lighthouse -------------------------------
(***************************************************************************)
(* The tokens of packages/lighthouse/src/LighthouseService.ts, their audit *)
(* chains, the warp tunnel and the ice box.  A call is split at its awaits: *)
(* a slot says what a call in flight waits for, and for which token.       *)
(*                                                                         *)
(* Tokens and entries are numbered in the order of their maps.  A link of  *)
(* an audit chain is the entry whose hash the next one records, 0 for the  *)
(* hash of zeros.  Left out: threats (records only, but for the tunnel a   *)
(* critical one opens), what a forensic analysis finds, and the verdicts   *)
(* that are only noted (escalate, remediate and release).                  *)
(*                                                                         *)
(* emit() runs the listeners unguarded: one that throws ends the call      *)
(* there.  Where that leaves something undone it is an outcome below; a    *)
(* tunnel fails only so, for the hash it compares is the hash it copied.   *)
(***************************************************************************)
EXTENDS Naturals, Sequences, FiniteSets

CONSTANTS
  Entity, Slot,                            \* Slot bounds the calls in flight at once
  AutoAnalysis,                            \* the settings of config.iceBox.autoAnalysis
  MaxTokens, MaxChain, MaxEntries, MaxAnalyses  \* bounds, the last two of the ice box

ASSUME LighthouseAssumption ==
  /\ AutoAnalysis \subseteq BOOLEAN
  /\ MaxTokens \in Nat /\ MaxChain \in Nat /\ MaxEntries \in Nat /\ MaxAnalyses \in Nat

VARIABLES
  tokens,
  tokensByEntity,  \* the token of each entity, 0 for none
  iceBox,
  calls

vars == <<tokens, tokensByEntity, iceBox, calls>>

TokenStatus == {"ACTIVE", "REVOKED", "QUARANTINED"}
Token == [entityId: Entity, status: TokenStatus,
          altered: BOOLEAN,     \* the payload may differ from what was signed
          lapsed: BOOLEAN,      \* expiresAt has passed
          auditChain: Seq(Nat),
          contended: BOOLEAN]   \* history: two appends to the chain were in flight at once
IceBoxStatus ==
  {"QUARANTINED", "ANALYSING", "PENDING_VERDICT", "RELEASED", "PERMANENTLY_BLOCKED", "LEGAL_HOLD"}
IceBoxEntry == [tokenId: Nat \ {0}, status: IceBoxStatus,
                analyses: Nat]  \* those in flight

\* What a call waits for; link is what an append has read, cycle says that a
\* monitoring cycle goes on after it.
Call == [op: {"idle", "issue", "rotate", "revoke", "flag", "scan", "verify", "failed",
              "append", "monitor"},
         token: Nat, link: Nat, cycle: BOOLEAN]
Doing(op, t) == [op |-> op, token |-> t, link |-> 0, cycle |-> op = "monitor"]
Idle == Doing("idle", 0)

Ids == DOMAIN tokens
InFlight(ops) == {c \in Slot : calls[c].op \in ops}

\* A call appends to the chain of its token at most once, a cycle to every chain.
Room(t) ==
  Len(tokens[t].auditChain)
    + Cardinality({c \in Slot : calls[c] # Idle /\ (calls[c].token = t \/ calls[c].cycle)}) < MaxChain
RoomForToken == Len(tokens) + Cardinality(InFlight({"issue", "rotate"})) < MaxTokens
RoomForEntry == Len(iceBox) + Cardinality(InFlight({"scan"})) < MaxEntries

Begin(c, op, t) ==
  /\ calls[c] = Idle
  /\ calls' = [calls EXCEPT ![c] = Doing(op, t)]

Init ==
  /\ tokens = <<>> /\ iceBox = <<>>
  /\ tokensByEntity = [e \in Entity |-> 0]
  /\ calls = [c \in Slot |-> Idle]

-----------------------------------------------------------------------------
(* The audit chain *)

Appending(t) == {c \in InFlight({"append"}) : calls[c].token = t}

(* Mutant: the link is taken from the end the chain will have. *)
AppendCallAhead(t, cycle) ==
  [op |-> "append", token |-> t, link |-> Len(tokens[t].auditChain) + Cardinality(Appending(t)),
   cycle |-> cycle]

\* appendAuditChain() reads the last entry, then waits for a hash.
AppendCall(t, cycle) ==
  [op |-> "append", token |-> t, link |-> Len(tokens[t].auditChain), cycle |-> cycle]

Marked(t, status) ==
  [tokens[t] EXCEPT !.status = status, !.contended = tokens[t].contended \/ Appending(t) # {}]

\* A token gets a status, and the entry for it is on its way.
Becomes(c, t, status, cycle) ==
  /\ tokens' = [tokens EXCEPT ![t] = Marked(t, status)]
  /\ calls' = [calls EXCEPT ![c] = AppendCall(t, cycle)]

\* A cycle goes on, unless a listener of token.revoked throws.
Appended(c) ==
  /\ calls[c].op = "append"
  /\ LET t == calls[c].token
     IN  /\ tokens' = [tokens EXCEPT ![t].auditChain = Append(@, calls[c].link)]
         /\ \E next \in {Idle} \cup {Doing("monitor", u) : u \in IF calls[c].cycle THEN {t} ELSE {}} :
              calls' = [calls EXCEPT ![c] = next]
  /\ UNCHANGED <<tokensByEntity, iceBox>>

-----------------------------------------------------------------------------
(* Tokens *)

NewToken(e) ==
  [entityId |-> e, status |-> "ACTIVE", altered |-> FALSE, lapsed |-> FALSE,
   auditChain |-> <<0>>, contended |-> FALSE]

BeginIssue(c) ==
  /\ RoomForToken
  /\ Begin(c, "issue", 0)
  /\ UNCHANGED <<tokens, tokensByEntity, iceBox>>

\* The end of issueToken().
Registered(e) ==
  /\ tokens' = Append(tokens, NewToken(e))
  /\ tokensByEntity' = [tokensByEntity EXCEPT ![e] = Len(tokens) + 1]

Issued(c, e) ==
  /\ calls[c].op = "issue"
  /\ Registered(e)
  /\ calls' = [calls EXCEPT ![c] = Idle]
  /\ UNCHANGED iceBox

\* Nothing asks for the status of the old token.
BeginRotate(c, t) ==
  /\ RoomForToken /\ Room(t)
  /\ Begin(c, "rotate", t)
  /\ UNCHANGED <<tokens, tokensByEntity, iceBox>>

\* The new token is issued to the entity of the old one, which is revoked next,
\* unless a listener of token.issued throws: then both stay.
Rotated(c) ==
  /\ calls[c].op = "rotate"
  /\ Registered(tokens[calls[c].token].entityId)
  /\ \E next \in {Doing("revoke", calls[c].token), Idle} : calls' = [calls EXCEPT ![c] = next]
  /\ UNCHANGED iceBox

Replaced(c) ==
  /\ calls[c].op = "revoke"
  /\ Becomes(c, calls[c].token, "REVOKED", FALSE)
  /\ UNCHANGED <<tokensByEntity, iceBox>>

RevokeToken(c, t) ==
  /\ calls[c] = Idle /\ Room(t)
  /\ Becomes(c, t, "REVOKED", FALSE)
  /\ UNCHANGED <<tokensByEntity, iceBox>>

\* verifyToken(): an expired token is revoked, one whose payload is not the signed
\* one is flagged once its hash is there; otherwise nothing modelled changes.
VerifyToken(c, t) ==
  /\ calls[c] = Idle /\ Room(t) /\ tokens[t].status = "ACTIVE"
  /\ \/ /\ tokens[t].lapsed
        /\ Becomes(c, t, "REVOKED", FALSE)
     \/ /\ ~tokens[t].lapsed /\ tokens[t].altered
        /\ Begin(c, "flag", t)
        /\ UNCHANGED tokens
  /\ UNCHANGED <<tokensByEntity, iceBox>>

(* Mutant: the token is written back as verifyToken() had found it. *)
FlaggedActive(c) ==
  /\ calls[c].op = "flag"
  /\ Becomes(c, calls[c].token, "ACTIVE", FALSE)
  /\ UNCHANGED <<tokensByEntity, iceBox>>

Flagged(c) ==
  /\ calls[c].op = "flag"
  /\ Becomes(c, calls[c].token, tokens[calls[c].token].status, FALSE)
  /\ UNCHANGED <<tokensByEntity, iceBox>>

Overdue(place) == {t \in Ids : t > place /\ tokens[t].lapsed /\ tokens[t].status = "ACTIVE"}

\* A cycle, new or waiting, revokes the next expired token of the map ...
RevokeExpired(c) ==
  /\ calls[c].op = "monitor" \/ (calls[c] = Idle /\ \A t \in Ids : Room(t))
  /\ \E t \in Overdue(calls[c].token) :
       /\ \A u \in Overdue(calls[c].token) : t <= u
       /\ Becomes(c, t, "REVOKED", TRUE)
  /\ UNCHANGED <<tokensByEntity, iceBox>>

\* ... and ends when there is none.
CycleEnds(c) ==
  /\ calls[c].op = "monitor" /\ Overdue(calls[c].token) = {}
  /\ calls' = [calls EXCEPT ![c] = Idle]
  /\ UNCHANGED <<tokens, tokensByEntity, iceBox>>

Lapse(t) ==
  /\ ~tokens[t].lapsed
  /\ tokens' = [tokens EXCEPT ![t].lapsed = TRUE]
  /\ UNCHANGED <<tokensByEntity, iceBox, calls>>

-----------------------------------------------------------------------------
(* Threats: the signature covers the risk score and the fingerprint, which change. *)

TriggerWarpTunnel(c, t) ==
  /\ RoomForEntry /\ Room(t)
  /\ Begin(c, "scan", t)

\* A critical threat, or a caller, opens the tunnel.
CreateThreatEvent(c, t) ==
  /\ TriggerWarpTunnel(c, t)
  /\ UNCHANGED <<tokens, tokensByEntity, iceBox>>

\* The score may be the one there was; that it is the signed one again is not told
\* apart, for an altered payload lets a verification flag the token and forces none.
Rescored(t) ==
  \E altered \in {tokens[t].altered, TRUE} : tokens' = [tokens EXCEPT ![t].altered = altered]

UpdateRiskScore(c, t) ==
  /\ Rescored(t)
  /\ TriggerWarpTunnel(c, t) \/ UNCHANGED calls
  /\ UNCHANGED <<tokensByEntity, iceBox>>

\* The activity of an entity goes into the fingerprint before anything compares
\* the two, so it is never anomalous.
RecordActivity(e) ==
  /\ tokensByEntity[e] # 0
  /\ tokens' = [tokens EXCEPT ![tokensByEntity[e]].altered = TRUE]
  /\ UNCHANGED <<tokensByEntity, iceBox, calls>>

-----------------------------------------------------------------------------
(* The warp tunnel and the ice box *)

Entry(t, status, analyses) == [tokenId |-> t, status |-> status, analyses |-> analyses]

\* Step 4; if so configured an analysis starts at once, and waits.
TransferToIceBox(c) ==
  /\ calls[c].op = "scan"
  /\ \E auto \in AutoAnalysis :
       iceBox' = Append(iceBox, IF auto THEN Entry(calls[c].token, "ANALYSING", 1)
                                        ELSE Entry(calls[c].token, "QUARANTINED", 0))
  /\ calls' = [calls EXCEPT ![c] = Doing("verify", calls[c].token)]
  /\ UNCHANGED <<tokens, tokensByEntity>>

\* A listener of icebox.entry_added throws: the entry is there, the transfer is
\* FAILED, and the call has only to return.
TransferFails(c) ==
  /\ calls[c].op = "scan"
  /\ iceBox' = Append(iceBox, Entry(calls[c].token, "QUARANTINED", 0))
  /\ calls' = [calls EXCEPT ![c] = Doing("failed", calls[c].token)]
  /\ UNCHANGED <<tokens, tokensByEntity>>

FailureReturns(c) ==
  /\ calls[c].op = "failed"
  /\ calls' = [calls EXCEPT ![c] = Idle]
  /\ UNCHANGED <<tokens, tokensByEntity, iceBox>>

(* Mutant: the token suspended is the one the entity has now. *)
QuarantinedByEntity(c) ==
  /\ calls[c].op = "verify"
  /\ Becomes(c, tokensByEntity[tokens[calls[c].token].entityId], "QUARANTINED", FALSE)
  /\ UNCHANGED <<tokensByEntity, iceBox>>

\* Step 6, whatever has become of the token or of the entry.
Quarantined(c) ==
  /\ calls[c].op = "verify"
  /\ Becomes(c, calls[c].token, "QUARANTINED", FALSE)
  /\ UNCHANGED <<tokensByEntity, iceBox>>

RunForensicAnalysis(i) ==
  /\ iceBox[i].analyses < MaxAnalyses
  /\ iceBox' = [iceBox EXCEPT ![i].status = "ANALYSING", ![i].analyses = @ + 1]
  /\ UNCHANGED <<tokens, tokensByEntity, calls>>

(* Mutant: the end of an analysis is reported once more. *)
AnalysisEndsAgain(i) ==
  /\ iceBox' = [iceBox EXCEPT ![i].status = "PENDING_VERDICT",
                              ![i].analyses = IF @ > 0 THEN @ - 1 ELSE 0]
  /\ UNCHANGED <<tokens, tokensByEntity, calls>>

\* A verdict given meanwhile loses its status.
AnalysisEnds(i) ==
  /\ iceBox[i].analyses > 0
  /\ iceBox' = [iceBox EXCEPT ![i].status = "PENDING_VERDICT", ![i].analyses = @ - 1]
  /\ UNCHANGED <<tokens, tokensByEntity, calls>>

Verdict(i, status) == iceBox' = [iceBox EXCEPT ![i].status = status]

Release(c, i) ==
  /\ calls[c] = Idle /\ Room(iceBox[i].tokenId)
  /\ Verdict(i, "RELEASED")
  /\ Becomes(c, iceBox[i].tokenId, "ACTIVE", FALSE)
  /\ UNCHANGED tokensByEntity

Block(c, i) ==
  /\ calls[c] = Idle /\ Room(iceBox[i].tokenId)
  /\ Verdict(i, "PERMANENTLY_BLOCKED")
  /\ Becomes(c, iceBox[i].tokenId, "REVOKED", FALSE)
  /\ UNCHANGED tokensByEntity

LegalAction(i) ==
  /\ iceBox[i].status # "LEGAL_HOLD"
  /\ Verdict(i, "LEGAL_HOLD")
  /\ UNCHANGED <<tokens, tokensByEntity, calls>>

-----------------------------------------------------------------------------
\* What a call goes on to do when what it awaits is there.
GoesOn(c) ==
  \/ Appended(c)
  \/ \E e \in Entity : Issued(c, e)
  \/ Rotated(c)
  \/ Replaced(c)
  \/ Flagged(c)
  \/ (calls[c].op = "monitor" /\ RevokeExpired(c))
  \/ CycleEnds(c)
  \/ TransferToIceBox(c) \/ TransferFails(c) \/ FailureReturns(c)
  \/ Quarantined(c)

Starts(c) ==
  \/ BeginIssue(c)
  \/ (calls[c] = Idle /\ RevokeExpired(c))
  \/ \E t \in Ids :
       \/ BeginRotate(c, t)
       \/ RevokeToken(c, t)
       \/ VerifyToken(c, t)
       \/ CreateThreatEvent(c, t)
       \/ UpdateRiskScore(c, t)
  \/ \E i \in DOMAIN iceBox :
       \/ Release(c, i)
       \/ Block(c, i)

Next ==
  \/ \E c \in Slot : GoesOn(c) \/ Starts(c)
  \/ \E t \in Ids : Lapse(t)
  \/ \E e \in Entity : RecordActivity(e)
  \/ \E i \in DOMAIN iceBox :
       \/ RunForensicAnalysis(i)
       \/ AnalysisEnds(i)
       \/ LegalAction(i)

Spec == Init /\ [][Next]_vars

\* A promise that is settled is acted upon: nothing here waits for a timer or a peer.
FairSpec == Spec /\ \A c \in Slot : WF_vars(GoesOn(c))

-----------------------------------------------------------------------------
\* Types, and the numbers of tokens that other maps, entries and calls hold:
\* each is that of a token of the map, and an entity's token is its own.
TypeOK ==
  /\ tokens \in Seq(Token)
  /\ tokensByEntity \in [Entity -> Nat]
  /\ \A e \in Entity : tokensByEntity[e] # 0 =>
       tokensByEntity[e] \in Ids /\ tokens[tokensByEntity[e]].entityId = e
  /\ iceBox \in Seq(IceBoxEntry)
  /\ \A i \in DOMAIN iceBox : iceBox[i].tokenId \in Ids
  /\ calls \in [Slot -> Call]
  /\ \A c \in Slot : calls[c].op \notin {"idle", "issue"} => calls[c].token \in Ids

\* The audit chain of a token is evidence only if each entry records the one before
\* it.  appendAuditChain() reads the last hash before it waits
\* and pushes after: a link always points to an earlier entry, and to the last
\* one as long as no two appends to that token were ever in flight at once.
AuditLinked ==
  \A t \in Ids : LET chain == tokens[t].auditChain IN
    \A k \in DOMAIN chain :
      /\ chain[k] < k /\ (chain[k] = 0 => k = 1)
      /\ ~tokens[t].contended => chain[k] = k - 1

\* The chain tells the whole history of a token, though every status is set before
\* the entry for it is there.  A status changes only in a step that also begins an
\* append to the chain; an append in flight ends only with its entry in the
\* chain, which nothing else changes; and a call already under way
\* never makes a token ACTIVE again: only a new call does that, which releases
\* an entry of that token.
StatusAudited ==
  [][/\ \A t \in Ids : tokens'[t].status # tokens[t].status =>
          \E c \in Slot :
            /\ calls[c].op # "append" /\ calls'[c].op = "append" /\ calls'[c].token = t
            /\ tokens'[t].status = "ACTIVE" =>
                 calls[c] = Idle /\ \E i \in DOMAIN iceBox :
                                      iceBox[i].tokenId = t /\ iceBox'[i].status = "RELEASED"
     /\ \A t \in Ids : tokens'[t].auditChain # tokens[t].auditChain =>
          \E c \in Appending(t) :
            /\ calls'[c].op # "append"
            /\ tokens'[t].auditChain = Append(tokens[t].auditChain, calls[c].link)
     /\ \A c \in InFlight({"append"}) : calls'[c] # calls[c] =>
          LET t == calls[c].token
          IN  tokens'[t].auditChain = Append(tokens[t].auditChain, calls[c].link)]_vars

\* A verdict acts on the token of its entry in the step that gives it, and stands: no
\* other call, and nothing that awaits, takes it back but the analyses of that entry,
\* one that begins or the end of one that was in flight when the verdict was given.
VerdictStands ==
  [][\A i \in DOMAIN iceBox :
       LET was == iceBox[i]  now == iceBox'[i]  token == tokens'[was.tokenId] IN
       /\ now.tokenId = was.tokenId
       /\ now.status # was.status =>
            \/ now.status = "RELEASED" /\ token.status = "ACTIVE"
            \/ now.status = "PERMANENTLY_BLOCKED" /\ token.status = "REVOKED"
            \/ now.status = "LEGAL_HOLD"
            \/ now.status = "ANALYSING" /\ now.analyses > was.analyses
            \/ now.status = "PENDING_VERDICT" /\ now.analyses < was.analyses]_vars

\* A tunnel that has put its token in the ice box quarantines it in the end,
\* whatever is rotated, revoked or released before step 6 is reached; one that is
\* open does so too, or is FAILED.
TunnelQuarantines ==
  \A c \in Slot, t \in 1..MaxTokens :
    LET Done == t \in Ids /\ tokens[t].status = "QUARANTINED" IN
    /\ calls[c] = Doing("verify", t) ~> Done
    /\ calls[c] = Doing("scan", t) ~> Done \/ calls[c] = Doing("failed", t)
===============================================================================

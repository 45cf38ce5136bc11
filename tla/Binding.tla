------------------------------ MODULE Binding ------------------------------
(***************************************************************************)
(* Stage A fixture: what has to agree before a snapshot is compared.  The  *)
(* controller (A2) reads its own SID, reads the protected file P10, and    *)
(* asks the broker (A3) for the protected record P11 with a nonce of its   *)
(* own; the broker reads P11 from its file and answers.                    *)
(*                                                                         *)
(* Both files may be written at any time: they are opened with write       *)
(* sharing.  Messages may be lost, delayed and delivered again, also to a  *)
(* later call.  The transport itself is not part of the repository.        *)
(*                                                                         *)
(* Any check that does not hold, and any call that fails, ends the call in *)
(* Fail; on the broker's side, in ReplyError or in silence.                *)
(***************************************************************************)
EXTENDS Naturals

CONSTANTS
    Sid,          \* security identifiers
    Case, Frozen, \* fixture cases, id and data together, and those of fixture_cases()
    Nonce,        \* 16 bytes; one is never drawn twice
    Inputs,       \* trusted inputs of controller and broker, see InputType
    Garbled,      \* contents of a file that are no rendering
    None,         \* nothing
    MaxCalls,     \* bound: calls of bind_controller_precomparison
    MaxEdits      \* bound: changes of the two files

-----------------------------------------------------------------------------
(* Renderings and digests.  A rendering contains what it binds; different   *)
(* contents have different digests.                                         *)

RenderP10(sid) == [controller |-> sid]
RenderP11(case, digest) == [case_id |-> case, p10 |-> digest]
Sha256(bytes) == [sha256 |-> bytes]

P10Renderings == {RenderP10(s) : s \in Sid}
P10Digests    == {Sha256(b) : b \in P10Renderings}
P11Renderings == {RenderP11(c, d) : c \in Case, d \in P10Digests}
P11Digests    == {Sha256(b) : b \in P11Renderings}

P10Bytes == P10Renderings \cup {Garbled}
P11Bytes == P11Renderings \cup {Garbled}

\* ApprovedAuthorityBinding, the P10 reader's canonical bytes, the selected case,
\* the SID in the process token, and the broker's P11CustodyConfig.
InputType ==
    [approved  : [sid : Sid, case : Case, p10 : P10Digests, p11 : P11Digests],
     canonical : P10Renderings,
     selected  : Case,
     token     : Sid,
     seal      : [case : Case, p10 : P10Digests, p11 : P11Digests]]

ASSUME InputAssumption == Inputs \subseteq InputType
ASSUME CaseAssumption == Frozen \subseteq Case
ASSUME NoneAssumption == None \notin Nonce /\ None \notin P10Bytes /\ None \notin P11Bytes
ASSUME GarbledAssumption == Garbled \notin P10Renderings /\ Garbled \notin P11Renderings
ASSUME BoundAssumption == MaxCalls \in Nat /\ MaxEdits \in Nat

VARIABLES
    trusted,      \* the inputs
    p10, p11,     \* contents of the two protected files
    edits,
    \* controller
    pc, calls,
    sid,          \* what the token reader returned
    got10,        \* first reading of P10
    nonce,        \* nonce of this call
    input,        \* comparison_input
    \* wire
    used,         \* nonces drawn
    wire,         \* every message sent
    \* broker
    bpc, bnonce,
    got11,        \* first reading of P11
    \* observer
    seen          \* what P11 has contained since this call's request

fileVars == <<p10, p11, edits>>
brokerVars == <<bpc, bnonce, got11>>
vars == <<trusted, fileVars, pc, calls, sid, got10, nonce, input, used, wire, brokerVars, seen>>

Message == [kind : {"request", "success", "error"}, nonce : Nonce, p10 : P10Digests,
            payload : P11Bytes \cup {None}]

\* Only a success carries a record.
WellFormed(m) == (m.payload # None) <=> m.kind = "success"

TypeOK ==
    /\ trusted \in Inputs
    /\ p10 \in P10Bytes /\ p11 \in P11Bytes
    /\ edits \in 0..MaxEdits
    /\ pc \in {"Rest", "Token", "Check", "First", "Second", "Head", "Wait", "Ready"}
    /\ calls \in 0..MaxCalls
    /\ sid \in Sid \cup {None}
    /\ got10 \in P10Bytes \cup {None}
    /\ nonce \in Nonce \cup {None}
    /\ input \in [case : Case, p11 : P11Bytes, p10 : P10Digests] \cup {None}
    /\ used \subseteq Nonce
    /\ wire \subseteq Message /\ \A m \in wire : WellFormed(m)
    /\ bpc \in {"Idle", "First", "Second"}
    /\ bnonce \in Nonce \cup {None}
    /\ got11 \in P11Bytes \cup {None}
    /\ seen \subseteq P11Bytes

Init ==
    /\ trusted \in Inputs
    /\ p10 \in P10Bytes /\ p11 \in P11Bytes /\ edits = 0
    /\ pc = "Rest" /\ calls = 0
    /\ sid = None /\ got10 = None /\ nonce = None /\ input = None
    /\ used = {} /\ wire = {}
    /\ bpc = "Idle" /\ bnonce = None /\ got11 = None
    /\ seen = {}

approved == trusted.approved
seal     == trusted.seal

-----------------------------------------------------------------------------
(* The codec *)

EncodeRequest(n, d) == [kind |-> "request", nonce |-> n, p10 |-> d, payload |-> None]
EncodeSuccess(n, d, b) == [kind |-> "success", nonce |-> n, p10 |-> d, payload |-> b]

\* Mutant of EncodeError: the generic error is marked as a success.
EncodeErrorAsSuccess(n, d) == [kind |-> "success", nonce |-> n, p10 |-> d, payload |-> None]

EncodeError(n, d) == [kind |-> "error", nonce |-> n, p10 |-> d, payload |-> None]

ValidateRequest(m, d) ==
    IF m.kind # "request" THEN "malformed"
    ELSE IF m.p10 # d THEN "correlation_mismatch"
    ELSE "none"

\* Mutant of Echoes: the nonce of the response is not compared.
EchoesDigest(m, n, d) == m.p10 = d

\* The response echoes the nonce and the digest of the request.
Echoes(m, n, d) == m.nonce = n /\ m.p10 = d

ValidateResponse(m, n, d, expected) ==
    IF m.kind = "request" THEN "malformed"
    ELSE IF ~Echoes(m, n, d) THEN "correlation_mismatch"
    ELSE IF m.kind = "error" THEN "read_incomplete"
    ELSE IF m.payload # expected THEN "correlation_mismatch"
    ELSE "none"

-----------------------------------------------------------------------------
(* The controller *)

Start ==
    /\ pc \in {"Rest", "Ready"}
    /\ calls < MaxCalls
    /\ calls' = calls + 1
    /\ pc' = "Token"
    /\ sid' = None /\ got10' = None /\ nonce' = None /\ input' = None
    /\ UNCHANGED <<trusted, fileVars, used, wire, brokerVars, seen>>

\* An exception anywhere, a check that does not hold, or no answer: the result
\* says so and carries no comparison input.
Fail ==
    /\ pc \notin {"Rest", "Ready"}
    /\ pc' = "Rest"
    /\ input' = None
    /\ UNCHANGED <<trusted, fileVars, calls, sid, got10, nonce, used, wire, brokerVars, seen>>

\* read_current_process_sid
ReadSid ==
    /\ pc = "Token"
    /\ sid' = trusted.token
    /\ pc' = "Check"
    /\ UNCHANGED <<trusted, fileVars, calls, got10, nonce, input, used, wire, brokerVars, seen>>

\* Mutant of SidMatches: the controller that runs need not be the approved one.
AnySid == TRUE

SidMatches == sid = approved.sid

\* The checks of bind_protected_authority before its first read.
CheckApproval ==
    /\ pc = "Check"
    /\ approved.case = trusted.selected
    /\ trusted.selected \in Frozen
    /\ SidMatches
    /\ Sha256(RenderP10(approved.sid)) = approved.p10
    /\ pc' = "First"
    /\ UNCHANGED <<trusted, fileVars, calls, sid, got10, nonce, input, used, wire, brokerVars, seen>>

\* read_verified_p10 reads the file, compares it with its seal, ...
ReadP10First ==
    /\ pc = "First"
    /\ p10 = trusted.canonical
    /\ got10' = p10
    /\ pc' = "Second"
    /\ UNCHANGED <<trusted, fileVars, calls, sid, nonce, input, used, wire, brokerVars, seen>>

\* What the controller expects of the broker.
ExpectedP11 == RenderP11(trusted.selected, Sha256(got10))

\* The bytes read are compared with the approval.
P10Bound == got10 = RenderP10(approved.sid) /\ Sha256(got10) = approved.p10

\* ... and reads it again.
ReadP10Second ==
    /\ pc = "Second"
    /\ p10 = got10
    /\ P10Bound
    /\ Sha256(ExpectedP11) = approved.p11
    /\ pc' = "Head"
    /\ UNCHANGED <<trusted, fileVars, calls, sid, got10, nonce, input, used, wire, brokerVars, seen>>

\* The port draws a nonce and sends the request.
SendRequest(n) ==
    /\ pc = "Head"
    /\ n \notin used
    /\ nonce' = n
    /\ used' = used \cup {n}
    /\ wire' = wire \cup {EncodeRequest(n, approved.p10)}
    /\ seen' = {p11}
    /\ pc' = "Wait"
    /\ UNCHANGED <<trusted, fileVars, calls, sid, got10, input, brokerVars>>

\* A response passes, and its record is compared once more with the expected one.
AcceptResponse(m) ==
    /\ pc = "Wait"
    /\ ValidateResponse(m, nonce, approved.p10, ExpectedP11) = "none"
    /\ m.payload = ExpectedP11 /\ Sha256(m.payload) = approved.p11
    /\ input' = [case |-> trusted.selected, p11 |-> m.payload, p10 |-> Sha256(got10)]
    /\ pc' = "Ready"
    /\ UNCHANGED <<trusted, fileVars, calls, sid, got10, nonce, used, wire, brokerVars, seen>>

-----------------------------------------------------------------------------
(* The broker *)

controllerVars == <<trusted, fileVars, pc, calls, sid, got10, nonce, input, used, seen>>

TakeRequest(m) ==
    /\ bpc = "Idle"
    /\ ValidateRequest(m, seal.p10) = "none"
    /\ bnonce' = m.nonce
    /\ got11' = None
    /\ bpc' = "First"
    /\ UNCHANGED <<controllerVars, wire>>

\* The custody reader's configuration agrees with itself.
SealHolds == seal.case \in Frozen /\ Sha256(RenderP11(seal.case, seal.p10)) = seal.p11

\* read_verified_p11 checks its seal, reads the file and compares it, ...
ReadP11First ==
    /\ bpc = "First"
    /\ SealHolds
    /\ p11 = RenderP11(seal.case, seal.p10)
    /\ got11' = p11
    /\ bpc' = "Second"
    /\ UNCHANGED <<controllerVars, bnonce, wire>>

\* ... and reads it again; the answer is sent.
ReadP11Second ==
    /\ bpc = "Second"
    /\ p11 = got11
    /\ wire' = wire \cup {EncodeSuccess(bnonce, seal.p10, got11)}
    /\ bpc' = "Idle"
    /\ UNCHANGED <<controllerVars, bnonce, got11>>

ReplyError ==
    /\ bpc # "Idle"
    /\ wire' = wire \cup {EncodeError(bnonce, seal.p10)}
    /\ bpc' = "Idle"
    /\ UNCHANGED <<controllerVars, bnonce, got11>>

\* The broker stops before it answers, and starts again.
BrokerRestart ==
    /\ bpc # "Idle"
    /\ bpc' = "Idle"
    /\ UNCHANGED <<controllerVars, bnonce, got11, wire>>

-----------------------------------------------------------------------------

EditP10(b) ==
    /\ edits < MaxEdits /\ edits' = edits + 1
    /\ p10' = b
    /\ UNCHANGED <<trusted, p11, pc, calls, sid, got10, nonce, input, used, wire, brokerVars, seen>>

EditP11(b) ==
    /\ edits < MaxEdits /\ edits' = edits + 1
    /\ p11' = b
    /\ seen' = seen \cup {b}
    /\ UNCHANGED <<trusted, p10, pc, calls, sid, got10, nonce, input, used, wire, brokerVars>>

Controller ==
    \/ Start \/ Fail \/ ReadSid \/ CheckApproval \/ ReadP10First \/ ReadP10Second
    \/ \E n \in Nonce : SendRequest(n)
    \/ \E m \in wire : AcceptResponse(m)

Broker ==
    \/ ReadP11First \/ ReadP11Second \/ ReplyError \/ BrokerRestart
    \/ \E m \in wire : TakeRequest(m)

Edit == (\E b \in P10Bytes : EditP10(b)) \/ (\E b \in P11Bytes : EditP11(b))

Next == Controller \/ Broker \/ Edit

Spec == Init /\ [][Next]_vars

-----------------------------------------------------------------------------
(* Properties *)

\* The record handed on is fresh: the broker's file contained it at some moment
\* after this call's request, not before.  A late answer to an earlier call, or a
\* request delivered twice, never makes an overwritten record look current.
HeadIsFresh == pc = "Ready" => input.p11 \in seen

\* What is handed on hangs together, although four parties supplied it: the
\* record names the selected case and the digest of the P10 that names the SID
\* this process runs under, which is what compare_impl checks again; and the
\* broker's own seal is for the same case and the same P10.
AuthorityChain == pc = "Ready" =>
    /\ input.p11 = RenderP11(input.case, input.p10)
    /\ input.p10 = Sha256(RenderP10(trusted.token))
    /\ input.case \in Frozen /\ input.case = approved.case
    /\ seal.case = input.case /\ seal.p10 = input.p10
=============================================================================

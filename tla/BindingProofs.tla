--------------------------- MODULE BindingProofs ---------------------------
(***************************************************************************)
(* For any inputs, any number of calls and edits, and any loss, delay and  *)
(* repetition of messages: a comparison input is fresh and hangs together. *)
(***************************************************************************)
EXTENDS Binding, TLAPS

\* Messages and the broker only know nonces that were drawn.
NonceInv ==
    /\ pc \in {"Wait", "Ready"} => nonce \in used
    /\ \A m \in wire : m.nonce \in used
    /\ bpc # "Idle" => bnonce \in used

\* What the broker has read, and says, is what its seal names.
SealInv ==
    /\ bpc = "Second" => got11 = RenderP11(seal.case, seal.p10)
    /\ \A m \in wire : m.kind = "success" => m.payload = RenderP11(seal.case, seal.p10)

\* From the request on, what the broker reads and sends under this call's nonce is
\* something the file has contained since.
FreshInv == pc \in {"Wait", "Ready"} =>
    /\ p11 \in seen
    /\ bpc = "Second" /\ bnonce = nonce => got11 \in seen
    /\ \A m \in wire : m.kind = "success" /\ m.nonce = nonce => m.payload \in seen

\* What the checks passed so far have established.
ChecksInv ==
    /\ pc = "Check" => sid = trusted.token
    /\ pc \in {"First", "Second", "Head", "Wait"} =>
         /\ approved.sid = trusted.token
         /\ approved.case = trusted.selected /\ trusted.selected \in Frozen
    /\ pc \in {"Head", "Wait"} => got10 = RenderP10(approved.sid)

BindInv == TypeOK /\ NonceInv /\ SealInv /\ FreshInv /\ ChecksInv /\ HeadIsFresh /\ AuthorityChain

-----------------------------------------------------------------------------

\* A message built by the codec is a message.
LEMMA MessageType ==
    ASSUME NEW n \in Nonce, NEW x \in P10Digests, NEW b \in P11Bytes
    PROVE  /\ EncodeRequest(n, x) \in Message /\ WellFormed(EncodeRequest(n, x))
           /\ EncodeSuccess(n, x, b) \in Message /\ WellFormed(EncodeSuccess(n, x, b))
           /\ EncodeError(n, x) \in Message /\ WellFormed(EncodeError(n, x))
BY NoneAssumption DEF EncodeRequest, EncodeSuccess, EncodeError, Message, WellFormed

\* The inputs have the types of their fields.
LEMMA InputFields ==
    ASSUME TypeOK
    PROVE  /\ approved.sid \in Sid /\ approved.p10 \in P10Digests /\ seal.p10 \in P10Digests
           /\ trusted.token \in Sid /\ trusted.selected \in Case
BY InputAssumption DEF TypeOK, InputType, approved, seal

\* Every step keeps the types.
LEMMA TypeStep ==
    ASSUME BindInv, [Next]_vars
    PROVE  TypeOK'
<1> USE DEF BindInv
<1>1. CASE Start
  BY <1>1, BoundAssumption DEF TypeOK, Start, fileVars, brokerVars
<1>2. CASE Fail
  BY <1>2 DEF TypeOK, Fail, fileVars, brokerVars
<1>3. CASE ReadSid
  BY <1>3, InputFields DEF TypeOK, ReadSid, fileVars, brokerVars
<1>4. CASE CheckApproval
  BY <1>4 DEF TypeOK, CheckApproval, fileVars, brokerVars
<1>5. CASE ReadP10First
  BY <1>5 DEF TypeOK, ReadP10First, fileVars, brokerVars
<1>6. CASE ReadP10Second
  BY <1>6 DEF TypeOK, ReadP10Second, fileVars, brokerVars
<1>7. ASSUME NEW n \in Nonce, SendRequest(n) PROVE TypeOK'
  <2>1. P11Bytes # {}
    BY DEF TypeOK
  <2>2. wire' \subseteq Message /\ \A m \in wire' : WellFormed(m)
    BY <1>7, <2>1, InputFields, MessageType DEF TypeOK, SendRequest
  <2> QED BY <1>7, <2>2 DEF TypeOK, SendRequest, fileVars, brokerVars
<1>8. ASSUME NEW m \in wire, AcceptResponse(m) PROVE TypeOK'
  <2>1. m.payload \in P11Bytes
    BY <1>8 DEF TypeOK, AcceptResponse, ValidateResponse, WellFormed, Message
  <2>2. Sha256(got10) \in P10Digests
    BY <1>8, InputFields DEF AcceptResponse, ChecksInv, P10Digests, P10Renderings
  <2>3. input' \in [case : Case, p11 : P11Bytes, p10 : P10Digests]
    BY <1>8, <2>1, <2>2, InputFields DEF AcceptResponse
  <2> QED BY <1>8, <2>3 DEF TypeOK, AcceptResponse, fileVars, brokerVars
<1>9. ASSUME NEW m \in wire, TakeRequest(m) PROVE TypeOK'
  <2>1. m.nonce \in Nonce
    BY DEF TypeOK, Message
  <2> QED BY <1>9, <2>1 DEF TypeOK, TakeRequest, controllerVars, fileVars
<1>10. CASE ReadP11First
  BY <1>10 DEF TypeOK, ReadP11First, controllerVars, fileVars
<1>11. CASE ReadP11Second
  <2>1. bnonce \in Nonce /\ got11 \in P11Bytes
    BY <1>11 DEF TypeOK, ReadP11Second, NonceInv
  <2>2. wire' \subseteq Message /\ \A m \in wire' : WellFormed(m)
    BY <1>11, <2>1, InputFields, MessageType DEF TypeOK, ReadP11Second
  <2> QED BY <1>11, <2>2 DEF TypeOK, ReadP11Second, controllerVars, fileVars
<1>12. CASE ReplyError
  <2>1. bnonce \in Nonce /\ p11 \in P11Bytes
    BY <1>12 DEF TypeOK, ReplyError, NonceInv
  <2>2. wire' \subseteq Message /\ \A m \in wire' : WellFormed(m)
    BY <1>12, <2>1, InputFields, MessageType DEF TypeOK, ReplyError
  <2> QED BY <1>12, <2>2 DEF TypeOK, ReplyError, controllerVars, fileVars
<1>13. CASE BrokerRestart
  BY <1>13 DEF TypeOK, BrokerRestart, controllerVars, fileVars
<1>14. ASSUME NEW b \in P10Bytes, EditP10(b) PROVE TypeOK'
  BY <1>14, BoundAssumption DEF TypeOK, EditP10, brokerVars
<1>15. ASSUME NEW b \in P11Bytes, EditP11(b) PROVE TypeOK'
  BY <1>15, BoundAssumption DEF TypeOK, EditP11, brokerVars
<1>16. CASE UNCHANGED vars
  BY <1>16 DEF TypeOK, vars, fileVars, brokerVars
<1> QED
  BY <1>1, <1>2, <1>3, <1>4, <1>5, <1>6, <1>7, <1>8, <1>9, <1>10, <1>11, <1>12, <1>13, <1>14,
     <1>15, <1>16
  DEF Next, Controller, Broker, Edit

-----------------------------------------------------------------------------

\* The parts of the invariant that are not about types.
Rest == NonceInv /\ SealInv /\ FreshInv /\ ChecksInv /\ HeadIsFresh /\ AuthorityChain

\* Steps of the controller.
LEMMA ControllerStep ==
    ASSUME BindInv, Controller
    PROVE  Rest'
<1> USE DEF BindInv, Rest
<1>0. UNCHANGED <<trusted, fileVars, brokerVars>>
  BY DEF Controller, Start, Fail, ReadSid, CheckApproval, ReadP10First, ReadP10Second, SendRequest,
         AcceptResponse
<1>1. CASE Start
  BY <1>0, <1>1 DEF Start, brokerVars, fileVars, NonceInv, SealInv, FreshInv, ChecksInv, HeadIsFresh,
                    AuthorityChain, seal, approved
<1>2. CASE Fail
  BY <1>0, <1>2 DEF Fail, brokerVars, fileVars, NonceInv, SealInv, FreshInv, ChecksInv, HeadIsFresh,
                    AuthorityChain, seal, approved
<1>3. CASE ReadSid
  BY <1>0, <1>3 DEF ReadSid, brokerVars, fileVars, NonceInv, SealInv, FreshInv, ChecksInv, HeadIsFresh,
                    AuthorityChain, seal, approved
<1>4. CASE CheckApproval
  BY <1>0, <1>4 DEF CheckApproval, SidMatches, brokerVars, fileVars, NonceInv, SealInv, FreshInv,
                    ChecksInv, HeadIsFresh, AuthorityChain, seal, approved
<1>5. CASE ReadP10First
  BY <1>0, <1>5 DEF ReadP10First, brokerVars, fileVars, NonceInv, SealInv, FreshInv, ChecksInv,
                    HeadIsFresh, AuthorityChain, seal, approved
<1>6. CASE ReadP10Second
  BY <1>0, <1>6 DEF ReadP10Second, P10Bound, brokerVars, fileVars, NonceInv, SealInv, FreshInv, ChecksInv,
                    HeadIsFresh, AuthorityChain, seal, approved
<1>7. ASSUME NEW n \in Nonce, SendRequest(n) PROVE Rest'
  <2>1. wire' = wire \cup {EncodeRequest(n, approved.p10)} /\ pc' = "Wait" /\ nonce' = n
        /\ n \notin used /\ used' = used \cup {n} /\ seen' = {p11}
    BY <1>7 DEF SendRequest
  <2>2. EncodeRequest(n, approved.p10).kind = "request" /\ EncodeRequest(n, approved.p10).nonce = n
    BY DEF EncodeRequest
  <2>3. NonceInv'
    BY <1>0, <2>1, <2>2 DEF NonceInv, brokerVars
  <2>4. SealInv'
    BY <1>0, <2>1, <2>2 DEF SealInv, brokerVars, seal
  <2>5. FreshInv'
    BY <1>0, <2>1, <2>2 DEF FreshInv, NonceInv, brokerVars, fileVars
  <2>6. ChecksInv' /\ HeadIsFresh' /\ AuthorityChain'
    BY <1>0, <1>7, <2>1 DEF SendRequest, ChecksInv, HeadIsFresh, AuthorityChain, approved
  <2> QED BY <2>3, <2>4, <2>5, <2>6
<1>8. ASSUME NEW m \in wire, AcceptResponse(m) PROVE Rest'
  <2>1. m.kind = "success" /\ m.nonce = nonce /\ m.payload = ExpectedP11
    BY <1>8 DEF AcceptResponse, ValidateResponse, Echoes, TypeOK, Message
  <2>2. NonceInv' /\ SealInv' /\ FreshInv' /\ ChecksInv'
    BY <1>0, <1>8 DEF AcceptResponse, NonceInv, SealInv, FreshInv, ChecksInv, brokerVars, fileVars,
                      seal, approved
  <2>3. input'.p11 = m.payload /\ input'.case = trusted.selected /\ input'.p10 = Sha256(got10)
    BY <1>8 DEF AcceptResponse
  <2>4. HeadIsFresh'
    BY <1>8, <2>1, <2>3 DEF AcceptResponse, FreshInv, HeadIsFresh
  <2>5. RenderP11(trusted.selected, Sha256(got10)) = RenderP11(seal.case, seal.p10)
    BY <1>8, <2>1 DEF SealInv, ExpectedP11
  <2>6. seal.case = trusted.selected /\ seal.p10 = Sha256(got10)
    BY <2>5 DEF RenderP11
  <2>7. got10 = RenderP10(trusted.token) /\ trusted.selected \in Frozen
        /\ approved.case = trusted.selected
    BY <1>8 DEF AcceptResponse, ChecksInv
  <2>8. trusted' = trusted
    BY <1>0
  <2>9. AuthorityChain'
    BY <2>1, <2>3, <2>6, <2>7, <2>8 DEF AuthorityChain, ExpectedP11, seal, approved
  <2> QED BY <2>2, <2>4, <2>9
<1> QED BY <1>1, <1>2, <1>3, <1>4, <1>5, <1>6, <1>7, <1>8 DEF Controller

\* Steps of the broker.
LEMMA BrokerStep ==
    ASSUME BindInv, Broker
    PROVE  Rest'
<1> USE DEF BindInv, Rest
<1>1. UNCHANGED controllerVars
  BY DEF Broker, ReadP11First, ReadP11Second, ReplyError, BrokerRestart, TakeRequest
<1>2. ChecksInv' /\ HeadIsFresh' /\ AuthorityChain'
  BY <1>1 DEF controllerVars, ChecksInv, HeadIsFresh, AuthorityChain, approved, seal
<1>3. ASSUME NEW m \in wire, TakeRequest(m) PROVE Rest'
  BY <1>1, <1>2, <1>3 DEF TakeRequest, controllerVars, fileVars, NonceInv, SealInv, FreshInv, seal
<1>4. CASE ReadP11First
  BY <1>1, <1>2, <1>4 DEF ReadP11First, controllerVars, fileVars, NonceInv, SealInv, FreshInv, seal
<1>5. CASE ReadP11Second
  <2>1. wire' = wire \cup {EncodeSuccess(bnonce, seal.p10, got11)} /\ bpc = "Second" /\ bpc' = "Idle"
    BY <1>5 DEF ReadP11Second
  <2>2. EncodeSuccess(bnonce, seal.p10, got11).nonce = bnonce
        /\ EncodeSuccess(bnonce, seal.p10, got11).payload = got11
    BY DEF EncodeSuccess
  <2>3. NonceInv'
    BY <1>1, <2>1, <2>2 DEF NonceInv, controllerVars
  <2>4. SealInv'
    BY <1>1, <2>1, <2>2 DEF SealInv, controllerVars, seal
  <2>5. FreshInv'
    BY <1>1, <2>1, <2>2 DEF FreshInv, controllerVars, fileVars
  <2> QED BY <1>2, <2>3, <2>4, <2>5
<1>6. CASE ReplyError
  <2>1. wire' = wire \cup {EncodeError(bnonce, seal.p10)} /\ bpc # "Idle" /\ bpc' = "Idle"
    BY <1>6 DEF ReplyError
  <2>2. EncodeError(bnonce, seal.p10).nonce = bnonce /\ EncodeError(bnonce, seal.p10).kind = "error"
    BY DEF EncodeError
  <2>3. NonceInv' /\ SealInv' /\ FreshInv'
    BY <1>1, <2>1, <2>2 DEF NonceInv, SealInv, FreshInv, controllerVars, fileVars, seal
  <2> QED BY <1>2, <2>3
<1>7. CASE BrokerRestart
  BY <1>1, <1>2, <1>7 DEF BrokerRestart, controllerVars, fileVars, NonceInv, SealInv, FreshInv, seal
<1> QED BY <1>3, <1>4, <1>5, <1>6, <1>7 DEF Broker

\* Changes of the files.
LEMMA EditStep ==
    ASSUME BindInv, Edit
    PROVE  Rest'
BY DEF BindInv, Rest, Edit, EditP10, EditP11, brokerVars, NonceInv, SealInv, FreshInv, ChecksInv,
       HeadIsFresh, AuthorityChain, approved, seal

\* BindInv is inductive.
THEOREM BindingInductive == Spec => []BindInv
<1>1. Init => BindInv
  BY BoundAssumption DEF Init, BindInv, TypeOK, NonceInv, SealInv, FreshInv, ChecksInv, HeadIsFresh,
                         AuthorityChain
<1>2. BindInv /\ [Next]_vars => BindInv'
  <2> SUFFICES ASSUME BindInv, [Next]_vars PROVE BindInv'
    OBVIOUS
  <2>1. TypeOK'
    BY TypeStep
  <2>2. CASE Next
    BY <2>1, <2>2, ControllerStep, BrokerStep, EditStep DEF Next, BindInv, Rest
  <2>3. CASE UNCHANGED vars
    BY <2>1, <2>3 DEF BindInv, vars, fileVars, brokerVars, NonceInv, SealInv, FreshInv, ChecksInv,
                      HeadIsFresh, AuthorityChain, approved, seal
  <2> QED BY <2>2, <2>3
<1> QED BY <1>1, <1>2, PTL DEF Spec

\* Controller, broker and wire stay within their types; no error response ever
\* carries a record.
THEOREM BindingTypeCorrect == Spec => []TypeOK
<1>1. BindInv => TypeOK
  BY DEF BindInv
<1> QED BY <1>1, BindingInductive, PTL

\* bind_controller_precomparison never hands on a record older than its request.
THEOREM NoStaleHead == Spec => []HeadIsFresh
<1>1. BindInv => HeadIsFresh
  BY DEF BindInv
<1> QED BY <1>1, BindingInductive, PTL

\* What bind_controller_precomparison hands on names one case, one P10 and the
\* SID of the process, on both sides of the wire.
THEOREM ChainHolds == Spec => []AuthorityChain
<1>1. BindInv => AuthorityChain
  BY DEF BindInv
<1> QED BY <1>1, BindingInductive, PTL
=============================================================================

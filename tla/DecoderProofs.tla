--------------------------- MODULE DecoderProofs ---------------------------
(***************************************************************************)
(* Proofs about Decoders, for every word size, every limit and every input.*)
(* What the properties need besides the types is where in its buffer each  *)
(* decoder is after each check it has passed.                              *)
(***************************************************************************)
EXTENDS Decoders, TLAPS

\* What the checks passed so far say about the page, ...
PageInv ==
    /\ pc = "page" => past = 0 /\ at = 0 /\ read.hi = 0
    /\ pc \in {"header", "name", "next"} => Header <= size /\ size <= MaxPage
    /\ pc = "header" => past <= at /\ at <= size
    /\ pc = "name" => past <= at /\ at + Header <= size
    /\ pc = "next" => past = at + Header + len /\ past <= size

\* ... and about the token; a number never exceeds the limit.
SidInv ==
    /\ pc \in {"size", "query"} => read.hi = 0
    /\ pc \in {"query", "pointer", "subs"} => alloc <= MaxToken /\ base \in Base
    /\ pc \in {"pointer", "subs"} => TokenUser + MinSid <= size /\ size <= alloc
    /\ pc = "subs" => at <= size - MinSid

IInv == TypeOK /\ PageInv /\ SidInv /\ InBounds /\ NoOverlap /\ DecimalIsExact

LEMMA InitIInv == Init => IInv
  <1> SUFFICES ASSUME Init PROVE IInv
    OBVIOUS
  <1> USE PageAssumption, TokenAssumption, DecimalAssumption DEF Words
  <1>1. TypeOK
    BY DEF Init, TypeOK, Running, Ended
  <1>2. PageInv /\ SidInv /\ InBounds /\ NoOverlap /\ DecimalIsExact
    BY DEF Init, PageInv, SidInv, InBounds, NoOverlap, DecimalIsExact
  <1> QED
    BY <1>1, <1>2 DEF IInv

LEMMA StepIInv == IInv /\ [Next]_vars => IInv'
  <1> SUFFICES ASSUME IInv, [Next]_vars PROVE IInv'
    OBVIOUS
  <1> USE PageAssumption, TokenAssumption, DecimalAssumption
      DEF IInv, TypeOK, PageInv, SidInv, InBounds, NoOverlap, DecimalIsExact, Words, Running, Ended,
          pageVars, sidVars, decVars
  <1>1. CASE Refuse
    BY <1>1 DEF Refuse
  <1>2. CASE PageBegin
    BY <1>2 DEF PageBegin
  <1>3. CASE PageName
    BY <1>3 DEF PageName, Sub
  <1>4. CASE PageEnd
    BY <1>4 DEF PageEnd
  <1>5. CASE PageNext
    BY <1>5 DEF PageNext, NextFits, Sub, Plus
  <1>6. ASSUME NEW l \in Words, NEW n \in Words, PageHeader(l, n) PROVE IInv'
    BY <1>6 DEF PageHeader, HeaderFits, Sub
  <1>7. ASSUME NEW n \in Words, SidSize(n) PROVE IInv'
    BY <1>7 DEF SidSize
  <1>8. ASSUME NEW n \in Words, SidQuery(n) PROVE IInv'
    BY <1>8 DEF SidQuery, Returned
  <1>9. ASSUME NEW p \in Words, SidPointer(p) PROVE IInv'
    BY <1>9 DEF SidPointer, Sub
  <1>10. ASSUME NEW count \in 0..255, SidSubs(count) PROVE IInv'
    BY <1>10 DEF SidSubs, Sub, Plus
  <1>11. ASSUME NEW d \in 0..9, Digit(d) PROVE IInv'
    BY <1>11 DEF Digit, DigitFits, Wrap
  <1>12. CASE DecimalEnd
    BY <1>12 DEF DecimalEnd
  <1>13. CASE UNCHANGED vars
    BY <1>13 DEF vars
  <1> QED
    BY <1>1, <1>2, <1>3, <1>4, <1>5, <1>6, <1>7, <1>8, <1>9, <1>10, <1>11, <1>12, <1>13 DEF Next

LEMMA IInvAlways == Safety => []IInv
  BY InitIInv, StepIInv, PTL DEF Safety

\* Whatever lengths, offsets and pointers the bytes contain, no decoder of the
\* fixture reads outside its buffer.
THEOREM ReadsStayInBounds == Safety => []InBounds
  <1>1. IInv => InBounds
    BY DEF IInv
  <1> QED
    BY <1>1, IInvAlways, PTL

\* The entries of a directory page never overlap.
THEOREM EntriesDoNotOverlap == Safety => []NoOverlap
  <1>1. IInv => NoOverlap
    BY DEF IInv
  <1> QED
    BY <1>1, IInvAlways, PTL

\* The decimal length of a writer result is computed without wrapping, and the
\* limit is exact, for every limit of at least 9.
THEOREM DecimalsAreExact == Safety => []DecimalIsExact
  <1>1. IInv => DecimalIsExact
    BY DEF IInv
  <1> QED
    BY <1>1, IInvAlways, PTL

\* Every word the decoders keep is a word: no offset or sum leaves its width.
THEOREM DecodersTypeCorrect == Safety => []TypeOK
  <1>1. IInv => TypeOK
    BY DEF IInv
  <1> QED
    BY <1>1, IInvAlways, PTL

\* No step of a decoder goes back: for every word size and every input, the
\* offsets of a page grow and stay within it, so a page has no endless walk.
THEOREM DecodersGetOn == Safety => NoStepBack
  <1>1. IInv /\ [Next]_vars =>
          [\/ pc' \in Ended
           \/ /\ StepsToGo[pc'] < StepsToGo[pc]
              /\ pc \in {"header", "name"} => UNCHANGED <<size, at>>
           \/ /\ pc = "next" /\ pc' = "header"
              /\ at < at' /\ at' <= size /\ size' = size
           \/ /\ pc = "digit" /\ pc' = "digit"
              /\ digits < digits' /\ digits' <= MaxDigits]_vars
    <2> SUFFICES ASSUME IInv, Next
                 PROVE  \/ pc' \in Ended
                        \/ /\ StepsToGo[pc'] < StepsToGo[pc]
                           /\ pc \in {"header", "name"} => UNCHANGED <<size, at>>
                        \/ /\ pc = "next" /\ pc' = "header"
                           /\ at < at' /\ at' <= size /\ size' = size
                        \/ /\ pc = "digit" /\ pc' = "digit"
                           /\ digits < digits' /\ digits' <= MaxDigits
      OBVIOUS
    <2>1. CASE PageNext
      BY <2>1, PageAssumption DEF PageNext, NextFits, Sub, Plus, IInv, TypeOK, PageInv, Words
    <2>2. ASSUME NEW d \in 0..9, Digit(d)
          PROVE  \/ pc' \in Ended
                 \/ pc = "digit" /\ pc' = "digit" /\ digits < digits' /\ digits' <= MaxDigits
      BY <2>2, DecimalAssumption DEF Digit, IInv, TypeOK, Ended
    <2>3. CASE PageBegin \/ PageName \/ \E l, n \in Words : PageHeader(l, n)
      BY <2>3 DEF PageBegin, PageName, PageHeader, StepsToGo
    <2>4. CASE \E n \in Words : SidSize(n) \/ SidQuery(n) \/ SidPointer(n)
      BY <2>4 DEF SidSize, SidQuery, SidPointer, StepsToGo
    <2>5. CASE Refuse \/ PageEnd \/ DecimalEnd \/ \E count \in 0..255 : SidSubs(count)
      BY <2>5 DEF Refuse, PageEnd, DecimalEnd, SidSubs, Ended
    <2> QED
      BY <2>1, <2>2, <2>3, <2>4, <2>5 DEF Next
  <1> QED
    BY <1>1, IInvAlways, PTL DEF Safety, NoStepBack
=============================================================================

------------------------------ MODULE Decoders ------------------------------
(***************************************************************************)
(* Stage A fixture: the decoders that walk over bytes they do not trust,   *)
(* with lengths and offsets taken from those bytes:                        *)
(*   page     parse_file_id_extd_directory_buffer (windows_snapshot.cpp)   *)
(*   sid      read_current_process_sid and decode_token_user_sid           *)
(*            (windows_controller_token_sid.cpp)                           *)
(*   decimal  the length in parse_writer_result (contracts.cpp)            *)
(* A behaviour is one call of one of them.  A byte is looked at once, so   *)
(* what it contains is chosen when it is read.  Unsigned arithmetic wraps. *)
(***************************************************************************)
EXTENDS Integers

CONSTANTS
    Word,         \* 2^w: an unsigned word holds 0..Word-1
    MaxPage,      \* directory_buffer_bytes
    Header,       \* header_size: where the name begins in an entry
    Align,        \* alignment of an entry
    MaxToken,     \* max_token_user_bytes
    TokenUser,    \* sizeof(TOKEN_USER)
    MinSid,       \* min_sid_bytes
    MaxSub,       \* SID_MAX_SUB_AUTHORITIES
    Limit,        \* 1048576
    MaxDigits,    \* digits that fit in the 256 bytes of a result
    Base          \* addresses a buffer may have

Words == 0..(Word - 1)

ASSUME PageAssumption ==
    /\ Word \in Nat /\ Header \in Nat \ {0} /\ Align \in Nat \ {0}
    /\ MaxPage \in Nat /\ MaxPage < Word
ASSUME TokenAssumption ==
    /\ TokenUser \in Nat /\ MinSid \in Nat /\ MinSid >= 2 /\ MaxSub \in Nat
    /\ MaxToken \in Nat /\ MinSid + 4 * MaxSub <= MaxToken
    /\ Base \subseteq Words /\ \A b \in Base : b + MaxToken < Word
ASSUME DecimalAssumption == Limit \in Nat /\ Limit >= 9 /\ Limit < Word /\ MaxDigits \in Nat

VARIABLES
    pc,
    size,          \* length of the buffer, as the caller gives it
    at,            \* offset of the entry, of the SID
    read,          \* the bytes last read: from lo, up to hi
    \* page
    len, next,     \* FileNameLength and NextEntryOffset of the entry
    past,          \* end of what has been decoded
    \* sid
    alloc, base,   \* allocated length and address of the buffer
    \* decimal
    digits, acc,
    exact          \* observer: the number the digits stand for

pageVars == <<len, next, past>>
sidVars  == <<alloc, base>>
decVars  == <<digits, acc, exact>>
vars == <<pc, size, at, read, pageVars, sidVars, decVars>>

Running == {"page", "header", "name", "next", "size", "query", "pointer", "subs", "digit"}
Ended   == {"accepted", "refused", "too_large"}

TypeOK ==
    /\ pc \in Running \cup Ended
    /\ size \in Words /\ at \in Words
    /\ read \in [lo : Nat, hi : Nat]
    /\ len \in Words /\ next \in Words /\ past \in Nat
    /\ alloc \in Words /\ base \in Words
    /\ digits \in 0..MaxDigits /\ acc \in Words /\ exact \in Nat

Init ==
    /\ pc \in {"page", "size", "digit"}
    /\ size \in (IF pc = "page" THEN Words ELSE {0})
    /\ at = 0 /\ read = [lo |-> 0, hi |-> 0]
    /\ len = 0 /\ next = 0 /\ past = 0
    /\ alloc = 0 /\ base = 0
    /\ digits = 0 /\ acc = 0 /\ exact = 0

\* Unsigned subtraction and addition.
Sub(a, b) == IF b <= a THEN a - b ELSE a - b + Word
Plus(a, b) == IF a + b < Word THEN a + b ELSE a + b - Word

\* A check fails, a name is no UTF-16, a native call fails: an exception.
Refuse ==
    /\ pc \in Running
    /\ pc' = "refused"
    /\ UNCHANGED <<size, at, read, pageVars, sidVars, decVars>>

-----------------------------------------------------------------------------
(* parse_file_id_extd_directory_buffer *)

PageBegin ==
    /\ pc = "page"
    /\ Header <= size /\ size <= MaxPage
    /\ pc' = "header"
    /\ UNCHANGED <<size, at, read, pageVars, sidVars, decVars>>

\* Mutant of HeaderFits: the header may reach one byte too far.
HeaderFitsOff == at <= Sub(size, Header) + 1

HeaderFits == at <= Sub(size, Header)

\* The header of the entry at "at" is copied.
PageHeader(l, n) ==
    /\ pc = "header"
    /\ HeaderFits
    /\ read' = [lo |-> at, hi |-> at + Header]
    /\ len' = l /\ next' = n
    /\ pc' = "name"
    /\ UNCHANGED <<size, at, past, sidVars, decVars>>

\* Its name is copied and converted.
PageName ==
    /\ pc = "name"
    /\ len > 0 /\ len % 2 = 0
    /\ len <= Sub(Sub(size, at), Header)
    /\ read' = [lo |-> at + Header, hi |-> at + Header + len]
    /\ past' = at + Header + len
    /\ pc' = "next"
    /\ UNCHANGED <<size, at, len, next, sidVars, decVars>>

PageEnd ==
    /\ pc = "next" /\ next = 0
    /\ pc' = "accepted"
    /\ UNCHANGED <<size, at, read, pageVars, sidVars, decVars>>

\* Mutants of NextFits: the next entry may begin in this one; it may be anywhere.
NextFitsAfterHeader == next % Align = 0 /\ next >= Header /\ next <= Sub(size, at)
NextFitsAligned == next % Align = 0 /\ next >= Plus(Header, len)

NextFits == next % Align = 0 /\ next >= Plus(Header, len) /\ next <= Sub(size, at)

PageNext ==
    /\ pc = "next" /\ next # 0
    /\ NextFits
    /\ at' = Plus(at, next)
    /\ pc' = "header"
    /\ UNCHANGED <<size, read, pageVars, sidVars, decVars>>

-----------------------------------------------------------------------------
(* read_current_process_sid and decode_token_user_sid *)

\* The sizing query says how much to allocate.
SidSize(n) ==
    /\ pc = "size"
    /\ n >= TokenUser + MinSid /\ n <= MaxToken
    /\ alloc' = n /\ base' \in Base
    /\ pc' = "query"
    /\ UNCHANGED <<size, at, read, pageVars, decVars>>

\* Mutant of Returned: the two queries are taken to agree.
ReturnedAny(n) == TRUE

\* What the second query says it returned is no more than was allocated.
Returned(n) == n <= alloc

\* The second query fills the buffer; TOKEN_USER is copied.
SidQuery(n) ==
    /\ pc = "query"
    /\ Returned(n)
    /\ n >= TokenUser + MinSid /\ n <= MaxToken
    /\ size' = n
    /\ read' = [lo |-> 0, hi |-> TokenUser]
    /\ pc' = "pointer"
    /\ UNCHANGED <<at, pageVars, sidVars, decVars>>

\* The SID pointer p points into the buffer; revision and count are read.
SidPointer(p) ==
    /\ pc = "pointer"
    /\ p >= base
    /\ Sub(p, base) >= TokenUser
    /\ Sub(p, base) <= Sub(size, MinSid)
    /\ at' = Sub(p, base)
    /\ read' = [lo |-> at', hi |-> at' + 2]
    /\ pc' = "subs"
    /\ UNCHANGED <<size, pageVars, sidVars, decVars>>

\* A SID of "count" subauthorities is validated and converted by the system,
\* which reads all of it.
SidSubs(count) ==
    /\ pc = "subs"
    /\ count <= MaxSub
    /\ Plus(MinSid, count * 4) <= Sub(size, at)
    /\ read' = [lo |-> at, hi |-> at + MinSid + count * 4]
    /\ pc' = "accepted"
    /\ UNCHANGED <<size, at, pageVars, sidVars, decVars>>

-----------------------------------------------------------------------------
(* The decimal of parse_writer_result *)

\* Mutant of DigitFits: the digit is left out of the comparison.
DigitFitsAny(d) == acc <= Limit \div 10

DigitFits(d) == acc <= (Limit - d) \div 10

\* x % Word, for natural x.
Wrap(x) == IF x < Word THEN x ELSE x % Word

\* The next character is a digit.  A leading zero is the only digit.
Digit(d) ==
    /\ pc = "digit"
    /\ digits < MaxDigits
    /\ ~(digits = 1 /\ acc = 0)
    /\ digits' = digits + 1
    /\ exact' = 10 * exact + d
    /\ IF DigitFits(d)
       THEN acc' = Wrap(acc * 10 + d) /\ pc' = pc
       ELSE acc' = acc /\ pc' = "too_large"
    /\ UNCHANGED <<size, at, read, pageVars, sidVars>>

DecimalEnd ==
    /\ pc = "digit" /\ digits > 0
    /\ pc' = "accepted"
    /\ UNCHANGED <<size, at, read, pageVars, sidVars, decVars>>

-----------------------------------------------------------------------------

Next ==
    \/ Refuse
    \/ PageBegin \/ PageName \/ PageEnd \/ PageNext
    \/ \E l, n \in Words : PageHeader(l, n)
    \/ \E n \in Words : SidSize(n) \/ SidQuery(n) \/ SidPointer(n)
    \/ \E count \in 0..255 : SidSubs(count)
    \/ \E d \in 0..9 : Digit(d)
    \/ DecimalEnd

Safety == Init /\ [][Next]_vars

\* A decoder is one function call on one thread.
Spec == Safety /\ WF_vars(Next)

-----------------------------------------------------------------------------
(* Properties *)

\* No decoder reads a byte outside its buffer, whatever lengths, offsets and
\* pointers the bytes contain: no subtraction of the checks goes below zero.
InBounds ==
    /\ read.hi <= size
    /\ pc \in {"pointer", "subs"} => size <= alloc

\* No byte of a page is decoded twice: an entry begins behind the last one's name.
NoOverlap == pc = "name" => past <= at

\* A length is accepted only if it is exactly the number written, and refused as
\* too large only if that number exceeds the limit; nothing wraps on the way.
DecimalIsExact ==
    /\ pc = "digit" => acc = exact /\ exact <= Limit
    /\ pc = "too_large" => exact > Limit

StepsToGo ==
    [page |-> 4, header |-> 3, name |-> 2, next |-> 1,
     size |-> 4, query |-> 3, pointer |-> 2, subs |-> 1, digit |-> 1]

\* Why every call ends: each step ends it, or is the next on a straight way, or
\* goes to an entry further on in the same page, or reads one more of the digits.
NoStepBack ==
    [][\/ pc' \in Ended
       \/ /\ StepsToGo[pc'] < StepsToGo[pc]
          /\ pc \in {"header", "name"} => UNCHANGED <<size, at>>
       \/ /\ pc = "next" /\ pc' = "header"
          /\ at < at' /\ at' <= size /\ size' = size
       \/ /\ pc = "digit" /\ pc' = "digit"
          /\ digits < digits' /\ digits' <= MaxDigits]_vars

\* Every call ends: the offsets of a page lead out of it.
DecoderEnds == <>(pc \in Ended)
=============================================================================

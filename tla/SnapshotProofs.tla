--------------------------- MODULE SnapshotProofs ---------------------------
(***************************************************************************)
(* For any names, files and contents, any limits and any number of changes *)
(* by writers: a verdict other than STOP_INCONCLUSIVE is about what the    *)
(* directory held at one moment, the first page of the final inventory.    *)
(***************************************************************************)
EXTENDS Snapshot, TLAPS

\* The directory as the file system keeps it: a file has one name, and its
\* contents are among those it has had.
FilesInv ==
    /\ \A m, n \in Names : dir[m] # None /\ dir[m] = dir[n] => m = n
    /\ \A n \in Names : dir[n] # None => data[dir[n]] \in had[dir[n]]

\* A held file keeps its name.
HeldInv == \A n \in Names : held[n] # None => dir[n] = held[n]

\* What was read is something the held file has had.
BytesInv == pc # "Done" => \A n \in Names :
    bytes[n] # None => held[n] # None /\ bytes[n] \in had[held[n]]

\* What is known on reaching a phase.
PhaseInv ==
    /\ pages = 0 => cursor = 0
    /\ pc \in {"Hold", "Read"} => pages = 0
    /\ pc \in {"Read", "After", "Recheck"} => Present(held) = Present(before)
    /\ pc \in {"After", "Recheck"} => Present(bytes) = Present(held)
    /\ pc = "Recheck" => Present(after) = Present(before)
    /\ pc \notin {"Recheck", "Done"} => checked = {}
    /\ pc # "Done" => verdict = "stop_inconclusive"

\* The moment of the snapshot has passed.
Observed == (pc = "After" /\ pages > 0) \/ pc = "Recheck"

\* A file that still has the bytes read first had them at that moment, since no
\* content comes back; names present at that moment are listed.
WitnessInv ==
    /\ Observed => \A n \in Names :
         /\ held[n] # None /\ data[held[n]] = bytes[n] => witness[n] = bytes[n]
         /\ witness[n] # None => after[n] # None
    /\ pc = "Recheck" => \A n \in checked : witness[n] = bytes[n]

DoneInv == pc = "Done" =>
    verdict = "stop_inconclusive" \/ (bytes = witness /\ verdict = VerdictOn(bytes))

SnapInv == TypeOK /\ FilesInv /\ HeldInv /\ BytesInv /\ PhaseInv /\ WitnessInv /\ DoneInv

-----------------------------------------------------------------------------

\* Nothing is an inventory, and a set of contents, without files.
LEMMA NothingType ==
    /\ \A S : Nothing \in [Names -> S \cup {None}]
    /\ \A n \in Names : Nothing[n] = None
BY DEF Nothing

\* The contents of the directory are contents.
LEMMA ViewType ==
    ASSUME TypeOK
    PROVE  View \in [Names -> Content \cup {None}]
BY DEF TypeOK, View

\* A page leaves an inventory an inventory, and takes no name out of it.
LEMMA ListedType ==
    ASSUME TypeOK, NEW L \in [Names -> Id \cup {None}]
    PROVE  /\ Listed(L) \in [Names -> Id \cup {None}]
           /\ \A n \in Names : L[n] # None => Listed(L)[n] # None
           /\ \A n \in Names : n \in NextPage => Listed(L)[n] # None
BY DEF TypeOK, Listed, NextPage, Present

\* Page and PageEnd keep the enumeration's own state typed.
LEMMA PageType ==
    ASSUME TypeOK, Page
    PROVE  pages' \in 0..MaxPages /\ cursor' \in Names \cup {0} /\ pages' > 0
BY NamesAssumption, LimitAssumption DEF TypeOK, Page, NextPage, Present, MorePages

\* The verdict is one of the five.
LEMMA VerdictType == \A f : VerdictOn(f) \in Verdicts
BY DEF VerdictOn, Verdicts

-----------------------------------------------------------------------------

\* Every step of the comparison and of the writers keeps the types.
LEMMA TypeStep ==
    ASSUME TypeOK, [Next]_vars
    PROVE  TypeOK'
<1> USE NothingType
<1>1. CASE Stop
  BY <1>1 DEF TypeOK, Stop, dirVars, listVars, Verdicts
<1>2. CASE Begin
  BY <1>2 DEF TypeOK, Begin, dirVars, listVars
<1>15. CASE Open
  BY <1>15 DEF TypeOK, Open, dirVars, listVars
<1>3. CASE InitialPage
  <2>1. before' \in [Names -> Id \cup {None}]
    BY <1>3, ListedType DEF InitialPage, TypeOK
  <2> QED BY <1>3, <2>1, PageType DEF TypeOK, InitialPage, dirVars
<1>4. CASE InitialEnd
  BY <1>4, LimitAssumption DEF TypeOK, InitialEnd, PageEnd, dirVars
<1>5. CASE AllHeld
  BY <1>5 DEF TypeOK, AllHeld, dirVars, listVars
<1>6. CASE AllRead
  BY <1>6 DEF TypeOK, AllRead, dirVars, listVars
<1>7. CASE FinalPage
  <2>1. after' \in [Names -> Id \cup {None}]
    BY <1>7, ListedType DEF FinalPage, TypeOK
  <2>2. witness' \in [Names -> Content \cup {None}]
    BY <1>7, ViewType DEF FinalPage, Observe, TypeOK
  <2> QED BY <1>7, <2>1, <2>2, PageType DEF TypeOK, FinalPage, dirVars
<1>8. CASE FinalEnd
  <2>1. witness' \in [Names -> Content \cup {None}]
    BY <1>8, ViewType DEF FinalEnd, Observe, TypeOK
  <2> QED BY <1>8, <2>1, LimitAssumption DEF TypeOK, FinalEnd, PageEnd, dirVars
<1>9. CASE Judge
  BY <1>9, VerdictType DEF TypeOK, Judge, dirVars, listVars
<1>10. ASSUME NEW n \in Names, HoldChild(n) PROVE TypeOK'
  BY <1>10 DEF TypeOK, HoldChild, dirVars, listVars
<1>11. ASSUME NEW n \in Names, ReadChild(n) PROVE TypeOK'
  BY <1>11 DEF TypeOK, ReadChild, dirVars, listVars, Present
<1>12. ASSUME NEW n \in Names, RecheckChild(n) PROVE TypeOK'
  BY <1>12 DEF TypeOK, RecheckChild, dirVars, listVars
<1>13. CASE Writers
  <2>1. changes' \in 0..MaxChanges
    BY <1>13, LimitAssumption
    DEF TypeOK, Writers, Remove, Rename, Write, MappedWrite, Create, Change
  <2>2. dir' \in [Names -> Id \cup {None}]
    BY <1>13 DEF TypeOK, Writers, Remove, Rename, Write, MappedWrite, Create
  <2>3. data' \in [Id -> Content] /\ had' \in [Id -> SUBSET Content]
    BY <1>13 DEF TypeOK, Writers, Remove, Rename, Write, MappedWrite, Create, MayTouch
  <2>4. UNCHANGED compVars
    BY <1>13 DEF Writers, Remove, Rename, Write, MappedWrite, Create
  <2> QED BY <2>1, <2>2, <2>3, <2>4 DEF TypeOK, compVars, listVars
<1>14. CASE UNCHANGED vars
  BY <1>14 DEF TypeOK, vars, dirVars, listVars
<1> QED
  BY <1>1, <1>2, <1>3, <1>4, <1>5, <1>6, <1>7, <1>8, <1>9, <1>10, <1>11, <1>12, <1>13, <1>14, <1>15
  DEF Next, Step

-----------------------------------------------------------------------------

\* The comparison does not touch the directory; holding takes the file a name
\* stands for, and handles are closed only all together.
LEMMA StepKeepsFiles ==
    ASSUME SnapInv, Step
    PROVE  FilesInv' /\ HeldInv'
<1>1. UNCHANGED dirVars
  BY DEF Step, Begin, Open, InitialPage, InitialEnd, AllHeld, AllRead, FinalPage, FinalEnd, Judge, Stop,
         HoldChild, ReadChild, RecheckChild
<1>2. FilesInv'
  BY <1>1 DEF SnapInv, FilesInv, dirVars
<1>3. \/ held' = held
      \/ held' = Nothing
      \/ \E n \in Names : held' = [held EXCEPT ![n] = dir[n]]
  BY DEF Step, Begin, Open, InitialPage, InitialEnd, AllHeld, AllRead, FinalPage, FinalEnd, Judge, Stop,
         HoldChild, ReadChild, RecheckChild
<1>4. HeldInv'
  BY <1>1, <1>3, NothingType DEF SnapInv, TypeOK, HeldInv, dirVars
<1> QED BY <1>2, <1>4

\* The other parts of the invariant under the steps of the comparison.
LEMMA StepInv ==
    ASSUME SnapInv, Step
    PROVE  BytesInv' /\ PhaseInv' /\ WitnessInv' /\ DoneInv'
<1> USE DEF SnapInv
<1>1. CASE Stop
  BY <1>1 DEF Stop, dirVars, listVars, BytesInv, PhaseInv, WitnessInv, Observed, DoneInv
<1>2. CASE Begin
  BY <1>2 DEF Begin, dirVars, listVars, BytesInv, PhaseInv, WitnessInv, Observed, DoneInv
<1>13. CASE Open
  BY <1>13 DEF Open, dirVars, listVars, BytesInv, PhaseInv, WitnessInv, Observed, DoneInv
<1>3. CASE InitialPage
  <2>1. PhaseInv'
    BY <1>3, PageType DEF InitialPage, PhaseInv
  <2> QED BY <1>3, <2>1 DEF InitialPage, dirVars, BytesInv, WitnessInv, Observed, DoneInv
<1>4. CASE InitialEnd
  BY <1>4 DEF InitialEnd, PageEnd, dirVars, BytesInv, PhaseInv, WitnessInv, Observed, DoneInv
<1>5. CASE AllHeld
  BY <1>5 DEF AllHeld, dirVars, listVars, BytesInv, PhaseInv, WitnessInv, Observed, DoneInv, Present
<1>6. CASE AllRead
  <2>1. PhaseInv'
    BY <1>6 DEF AllRead, listVars, PhaseInv, Present
  <2> QED BY <1>6, <2>1 DEF AllRead, dirVars, listVars, BytesInv, PhaseInv, WitnessInv, Observed, DoneInv
<1>7. CASE FinalPage
  <2>1. PhaseInv'
    BY <1>7, PageType DEF FinalPage, PhaseInv, Present
  <2>2. BytesInv' /\ DoneInv'
    BY <1>7 DEF FinalPage, dirVars, BytesInv, DoneInv
  <2>3. CASE pages = 0
    <3>1. witness' = View /\ cursor = 0
      BY <1>7, <2>3 DEF FinalPage, Observe, PhaseInv
    <3>2. \A n \in Names : held[n] # None => View[n] = data[held[n]]
      BY DEF HeldInv, View
    <3>3. \A n \in Names : View[n] # None => Listed(after)[n] # None
      <4>1. \A n \in Names : dir[n] # None => n \in NextPage
        BY <3>1, NamesAssumption DEF NextPage, Present
      <4> QED BY <4>1, ListedType DEF View, TypeOK
    <3> QED BY <1>7, <3>1, <3>2, <3>3, <2>1, <2>2 DEF FinalPage, dirVars, WitnessInv, Observed
  <2>4. CASE pages # 0
    <3>1. pages > 0 /\ witness' = witness
      BY <1>7, <2>4 DEF FinalPage, Observe, TypeOK
    <3>2. \A n \in Names : after[n] # None => after'[n] # None
      BY <1>7, ListedType DEF FinalPage, TypeOK
    <3> QED BY <1>7, <3>1, <3>2, <2>1, <2>2 DEF FinalPage, dirVars, WitnessInv, Observed
  <2> QED BY <2>3, <2>4
<1>8. CASE FinalEnd
  <2>1. PhaseInv'
    BY <1>8 DEF FinalEnd, PageEnd, SameInventory, PhaseInv, Present
  <2>2. BytesInv' /\ DoneInv'
    BY <1>8 DEF FinalEnd, dirVars, BytesInv, DoneInv
  <2>3. checked' = {}
    BY <1>8 DEF FinalEnd, PhaseInv
  <2>4. CASE pages = 0
    <3>1. witness' = View /\ cursor = 0
      BY <1>8, <2>4 DEF FinalEnd, Observe, PhaseInv
    <3>2. \A n \in Names : dir[n] = None
      BY <1>8, <3>1, NamesAssumption DEF FinalEnd, PageEnd, NextPage, Present
    <3>3. \A n \in Names : View[n] = None /\ held[n] = None
      BY <3>2 DEF View, HeldInv
    <3> QED BY <1>8, <3>1, <3>3, <2>1, <2>2, <2>3 DEF FinalEnd, dirVars, WitnessInv, Observed
  <2>5. CASE pages # 0
    <3>1. pages > 0 /\ witness' = witness
      BY <1>8, <2>5 DEF FinalEnd, Observe, TypeOK
    <3> QED BY <1>8, <3>1, <2>1, <2>2, <2>3 DEF FinalEnd, dirVars, WitnessInv, Observed
  <2> QED BY <2>4, <2>5
<1>9. CASE Judge
  <2>1. bytes = witness
    <3>1. \A n \in Names : bytes[n] = witness[n]
      BY <1>9 DEF Judge, PhaseInv, WitnessInv, Observed, Present
    <3> QED BY <3>1 DEF TypeOK
  <2> QED BY <1>9, <2>1 DEF Judge, dirVars, listVars, BytesInv, PhaseInv, WitnessInv, Observed, DoneInv, VerdictOn, Present
<1>10. ASSUME NEW n \in Names, HoldChild(n) PROVE BytesInv' /\ PhaseInv' /\ WitnessInv' /\ DoneInv'
  <2>1. held' = [held EXCEPT ![n] = dir[n]] /\ held[n] = None /\ pc = "Hold" /\ pc' = "Hold"
    BY <1>10 DEF HoldChild, Present
  <2>2. BytesInv'
    BY <1>10, <2>1 DEF HoldChild, dirVars, BytesInv, TypeOK
  <2> QED BY <1>10, <2>1, <2>2 DEF HoldChild, listVars, PhaseInv, WitnessInv, Observed, DoneInv
<1>11. ASSUME NEW n \in Names, ReadChild(n) PROVE BytesInv' /\ PhaseInv' /\ WitnessInv' /\ DoneInv'
  <2>1. bytes' = [bytes EXCEPT ![n] = data[held[n]]] /\ held[n] # None /\ pc = "Read" /\ pc' = "Read"
    BY <1>11 DEF ReadChild, Present
  <2>2. data[held[n]] \in had[held[n]]
    BY <2>1 DEF HeldInv, FilesInv
  <2>3. BytesInv'
    BY <1>11, <2>1, <2>2 DEF ReadChild, dirVars, BytesInv, TypeOK
  <2> QED BY <1>11, <2>1, <2>3 DEF ReadChild, listVars, PhaseInv, WitnessInv, Observed, DoneInv, Present
<1>12. ASSUME NEW n \in Names, RecheckChild(n) PROVE BytesInv' /\ PhaseInv' /\ WitnessInv' /\ DoneInv'
  <2>1. witness[n] = bytes[n]
    BY <1>12 DEF RecheckChild, SameContent, Present, WitnessInv, Observed
  <2> QED BY <1>12, <2>1 DEF RecheckChild, dirVars, listVars, BytesInv, PhaseInv, WitnessInv, Observed, DoneInv, Present
<1> QED
  BY <1>1, <1>2, <1>3, <1>4, <1>5, <1>6, <1>7, <1>8, <1>9, <1>10, <1>11, <1>12, <1>13 DEF Step

\* The writers: a held file keeps its name, and gets only contents it never had.
LEMMA WritersInv ==
    ASSUME SnapInv, Writers
    PROVE  FilesInv' /\ HeldInv' /\ BytesInv' /\ PhaseInv' /\ WitnessInv' /\ DoneInv'
<1> USE DEF SnapInv
<1>1. UNCHANGED compVars
  BY DEF Writers, Remove, Rename, Write, MappedWrite, Create
<1>2. FilesInv'
  BY NoneAssumption DEF Writers, Remove, Rename, Write, MappedWrite, Create, MayTouch, FilesInv, TypeOK
<1>3. \A n \in Names : held[n] # None => dir'[n] = dir[n]
  BY DEF Writers, Remove, Rename, Write, MappedWrite, Create, MayTouch, HeldInv, TypeOK
<1>4. HeldInv'
  BY <1>1, <1>3 DEF HeldInv, compVars
<1>5. \A i \in Id : had[i] \subseteq had'[i]
  BY DEF Writers, Remove, Rename, Write, MappedWrite, Create, MayTouch, TypeOK
<1>6. \A n \in Names : held[n] # None => data'[held[n]] = data[held[n]] \/ data'[held[n]] \notin had[held[n]]
  BY DEF Writers, Remove, Rename, Write, MappedWrite, Create, MayTouch, HeldInv, FilesInv, TypeOK
<1>7. BytesInv'
  BY <1>1, <1>5 DEF BytesInv, compVars, TypeOK
<1>8. PhaseInv' /\ DoneInv'
  BY <1>1 DEF PhaseInv, DoneInv, compVars, listVars, Present, VerdictOn
<1>9. WitnessInv'
  <2>1. pc # "Done" => \A n \in Names : held[n] # None /\ pc \in {"After", "Recheck"} => bytes[n] \in had[held[n]]
    BY DEF BytesInv, PhaseInv, Present
  <2> QED BY <1>1, <1>6, <2>1 DEF WitnessInv, Observed, compVars, listVars
<1> QED BY <1>2, <1>4, <1>7, <1>8, <1>9

\* SnapInv is inductive.
THEOREM SnapshotInductive == Spec => []SnapInv
<1>1. Init => SnapInv
  <2>1. Init => TypeOK
    BY NothingType, LimitAssumption DEF Init, TypeOK, Verdicts
  <2>2. Init => FilesInv
    BY DEF Init, FilesInv, Present
  <2>3. Init => HeldInv /\ BytesInv /\ PhaseInv /\ WitnessInv /\ DoneInv
    BY NothingType DEF Init, HeldInv, BytesInv, PhaseInv, WitnessInv, Observed, DoneInv
  <2> QED BY <2>1, <2>2, <2>3 DEF SnapInv
<1>2. SnapInv /\ [Next]_vars => SnapInv'
  <2> SUFFICES ASSUME SnapInv, [Next]_vars PROVE SnapInv'
    OBVIOUS
  <2>1. TypeOK'
    BY TypeStep DEF SnapInv
  <2>2. CASE Step
    BY <2>1, <2>2, StepKeepsFiles, StepInv DEF SnapInv
  <2>3. CASE Writers
    BY <2>1, <2>3, WritersInv DEF SnapInv
  <2>4. CASE UNCHANGED vars
    BY <2>1, <2>4 DEF SnapInv, vars, dirVars, listVars, FilesInv, HeldInv, BytesInv, PhaseInv,
                      WitnessInv, Observed, DoneInv, Present, VerdictOn
  <2> QED BY <2>2, <2>3, <2>4 DEF Next
<1> QED BY <1>1, <1>2, PTL DEF Spec

\* The variables of compare_impl and of the session stay within their types: in
\* particular no inventory makes more calls than max_pages.
THEOREM SnapshotTypeCorrect == Spec => []TypeOK
<1>1. SnapInv => TypeOK
  BY DEF SnapInv
<1> QED BY <1>1, SnapshotInductive, PTL

\* The files judged by compare_impl are what the directory held at one moment.
THEOREM OneMoment == Spec => []SnapshotIsAtomic
<1>1. SnapInv => SnapshotIsAtomic
  BY DEF SnapInv, DoneInv, SnapshotIsAtomic, Complete
<1> QED BY <1>1, SnapshotInductive, PTL

\* A verdict of compare_impl is true of the directory at that moment.
THEOREM VerdictsAreTrue == Spec => []VerdictIsTrue
<1>1. SnapInv => VerdictIsTrue
  <2> SUFFICES ASSUME SnapInv PROVE VerdictIsTrue
    OBVIOUS
  <2>1. verdict # "stop_inconclusive" => bytes = witness /\ verdict = VerdictOn(bytes)
    BY DEF SnapInv, PhaseInv, DoneInv
  <2>2. Present(bytes) = {} => bytes = Nothing
    BY DEF SnapInv, TypeOK, Present, Nothing
  <2> QED BY <2>1, <2>2 DEF VerdictIsTrue, VerdictOn
<1> QED BY <1>1, SnapshotInductive, PTL

-----------------------------------------------------------------------------
(* The refinement of OneLook *)

\* A name for the phase of the abstract observation.
PhaseNow == IF pc = "Done" THEN "done" ELSE IF Observed THEN "looked" ELSE "looking"

\* What a step does to the observation, in the terms of OneLook.
LEMMA OneLookIs ==
    Atomic!Next <=>
        \/ /\ VerdictOn(witness') = VerdictOn(witness)
           /\ PhaseNow' = PhaseNow /\ verdict' = verdict
        \/ /\ PhaseNow = "looking" /\ PhaseNow' = "looked"
           /\ VerdictOn(witness') = VerdictOn(View)
           /\ VerdictOn(View') = VerdictOn(View) /\ verdict' = verdict
        \/ /\ PhaseNow = "looked" /\ PhaseNow' = "done"
           /\ verdict' = VerdictOn(witness)
           /\ VerdictOn(View') = VerdictOn(View) /\ VerdictOn(witness') = VerdictOn(witness)
        \/ /\ PhaseNow # "done" /\ PhaseNow' = "done"
           /\ verdict' = "stop_inconclusive"
           /\ VerdictOn(View') = VerdictOn(View) /\ VerdictOn(witness') = VerdictOn(witness)
BY DEF Atomic!Next, Atomic!World, Atomic!Look, Atomic!Answer, Atomic!GiveUp, PhaseNow, Observed,
       VerdictOn, Present, View

\* The comparison leaves the directory, and so what one look would find, alone.
LEMMA StepKeepsView ==
    ASSUME Step
    PROVE  VerdictOn(View') = VerdictOn(View)
<1>1. UNCHANGED dirVars
  BY DEF Step, Begin, Open, InitialPage, InitialEnd, AllHeld, AllRead, FinalPage, FinalEnd, Judge, Stop,
         HoldChild, ReadChild, RecheckChild
<1>2. View' = View
  BY <1>1 DEF View, dirVars
<1> QED BY <1>2

\* Before the final inventory, and between its calls, nothing is decided; its first
\* call is the look; Judge answers with what the look found; Stop gives up.
LEMMA StepIsOneLook ==
    ASSUME SnapInv, SnapInv', Step
    PROVE  Atomic!Next
<1> USE DEF PhaseNow, Observed
<1>1. CASE Stop
  BY <1>1, StepKeepsView, OneLookIs DEF Stop
<1>2. CASE Begin \/ Open
  BY <1>2, OneLookIs DEF Begin, Open
<1>3. CASE InitialPage \/ InitialEnd
  BY <1>3, OneLookIs DEF InitialPage, InitialEnd
<1>4. CASE AllHeld \/ \E n \in Names : HoldChild(n) \/ ReadChild(n)
  BY <1>4, OneLookIs DEF AllHeld, HoldChild, ReadChild
<1>5. CASE AllRead
  BY <1>5, OneLookIs DEF AllRead, listVars, SnapInv, PhaseInv
<1>6. CASE FinalPage
  <2>1. pages' > 0 /\ pc = "After" /\ pc' = "After" /\ verdict' = verdict /\ Observe
    BY <1>6, PageType DEF FinalPage, SnapInv
  <2>2. CASE pages = 0
    BY <2>1, <2>2, StepKeepsView, OneLookIs DEF Observe
  <2>3. CASE pages # 0
    <3>1. pages > 0
      BY <2>3 DEF SnapInv, TypeOK
    <3> QED BY <2>1, <2>3, <3>1, OneLookIs DEF Observe
  <2> QED BY <2>2, <2>3
<1>7. CASE FinalEnd
  <2>1. pc = "After" /\ pc' = "Recheck" /\ verdict' = verdict /\ Observe
    BY <1>7 DEF FinalEnd
  <2>2. CASE pages = 0
    BY <2>1, <2>2, StepKeepsView, OneLookIs DEF Observe
  <2>3. CASE pages # 0
    <3>1. pages > 0
      BY <2>3 DEF SnapInv, TypeOK
    <3> QED BY <2>1, <2>3, <3>1, OneLookIs DEF Observe
  <2> QED BY <2>2, <2>3
<1>8. CASE \E n \in Names : RecheckChild(n)
  BY <1>8, OneLookIs DEF RecheckChild
<1>9. CASE Judge
  <2>1. pc = "Recheck" /\ pc' = "Done" /\ verdict' = VerdictOn(bytes) /\ UNCHANGED <<bytes, witness>>
    BY <1>9 DEF Judge
  <2>2. verdict' = "stop_inconclusive" \/ bytes = witness
    BY <2>1 DEF SnapInv, DoneInv
  <2> QED BY <2>1, <2>2, StepKeepsView, OneLookIs
<1> QED BY <1>1, <1>2, <1>3, <1>4, <1>5, <1>6, <1>7, <1>8, <1>9 DEF Step

\* compare_impl, with its calls spread over everything the writers do, implements one
\* look at the directory: its verdict is that of the files at one moment and final.
THEOREM ComparisonIsOneLook == Spec => AsOneLook
<1>1. Init => Atomic!Init
  BY DEF Init, Atomic!Init
<1>2. SnapInv /\ SnapInv' /\ [Next]_vars => [Atomic!Next]_(Atomic!vars)
  <2> SUFFICES ASSUME SnapInv, SnapInv', [Next]_vars PROVE Atomic!Next
    OBVIOUS
  <2>1. CASE Step
    BY <2>1, StepIsOneLook
  <2>2. CASE Writers
    <3>1. UNCHANGED compVars
      BY <2>2 DEF Writers, Remove, Rename, Write, MappedWrite, Create
    <3> QED BY <3>1, OneLookIs DEF compVars, listVars, PhaseNow, Observed
  <2>3. CASE UNCHANGED vars
    BY <2>3, OneLookIs DEF vars, listVars, PhaseNow, Observed
  <2> QED BY <2>1, <2>2, <2>3 DEF Next
<1> QED BY <1>1, <1>2, SnapshotInductive, PTL DEF Spec, AsOneLook, Atomic!Spec
=============================================================================

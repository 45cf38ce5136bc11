------------------------------ MODULE Snapshot ------------------------------
(***************************************************************************)
(* Stage A fixture: compare_fresh_controller (snapshot.cpp) reads the state*)
(* directory through a WindowsSession (windows_snapshot.cpp) while writers *)
(* act on the same directory.  It lists the directory, opens and holds     *)
(* every file listed, reads them all, lists and reads again, and judges    *)
(* only if the second look agrees with the first.  Anything unexpected ends*)
(* in STOP_INCONCLUSIVE.                                                   *)
(*                                                                         *)
(* A held handle shares reading only, so nobody opens the file for writing *)
(* or removes it meanwhile.  A mapping made before the hold is not stopped *)
(* by that; its writes are assumed not to bring back contents the file has *)
(* had, which is what a second reading can detect.                         *)
(***************************************************************************)
EXTENDS Naturals, FiniteSets

CONSTANTS
    Names,        \* file names, numbered in the order NTFS lists them
    Id,           \* file identifiers; one is never used twice
    Content,      \* what a file can contain
    Latest, Old,  \* latest_files and old_files: contents per name, or None
    None,         \* no such file
    MaxPages,     \* max_pages
    MaxEntries,   \* max_entries
    MaxChanges    \* bound: steps of the writers

ASSUME NamesAssumption == Names \subseteq Nat \ {0}
ASSUME NoneAssumption == None \notin Content /\ None \notin Id
ASSUME FixtureAssumption ==
    Latest \in [Names -> Content \cup {None}] /\ Old \in [Names -> Content \cup {None}]
ASSUME LimitAssumption == MaxPages \in Nat /\ MaxEntries \in Nat /\ MaxChanges \in Nat

VARIABLES
    \* the directory
    dir,       \* which file a name stands for
    data,      \* the contents of a file
    had,       \* every content a file has had
    changes,   \* steps of the writers so far
    \* the comparison
    pc,
    cursor,    \* last name the running enumeration returned
    pages,     \* calls of next_page the running enumeration made
    before,    \* the initial inventory
    held,      \* files held open
    bytes,     \* contents of the first reading
    after,     \* the final inventory
    checked,   \* names compared again
    verdict,
    \* observer
    witness    \* the directory at the first page of the final inventory

dirVars  == <<dir, data, had, changes>>
listVars == <<cursor, pages>>
vars == <<dirVars, pc, listVars, before, held, bytes, after, checked, verdict, witness>>

Nothing == [n \in Names |-> None]
Present(f) == {n \in Names : f[n] # None}

\* The contents of the directory at this moment.
View == [n \in Names |-> IF dir[n] = None THEN None ELSE data[dir[n]]]

Verdicts == {"accept_current", "reject_restored_old", "reject_deleted", "reject_mismatch",
             "stop_inconclusive"}

TypeOK ==
    /\ dir \in [Names -> Id \cup {None}]
    /\ data \in [Id -> Content]
    /\ had \in [Id -> SUBSET Content]
    /\ changes \in 0..MaxChanges
    /\ pc \in {"Begin", "Open", "Before", "Hold", "Read", "After", "Recheck", "Done"}
    /\ cursor \in Names \cup {0}
    /\ pages \in 0..MaxPages
    /\ before \in [Names -> Id \cup {None}]
    /\ held \in [Names -> Id \cup {None}]
    /\ bytes \in [Names -> Content \cup {None}]
    /\ after \in [Names -> Id \cup {None}]
    /\ checked \subseteq Names
    /\ verdict \in Verdicts
    /\ witness \in [Names -> Content \cup {None}]

\* Any directory; no two names stand for the same file.
Init ==
    /\ dir \in [Names -> Id \cup {None}]
    /\ \A m, n \in Present(dir) : dir[m] = dir[n] => m = n
    /\ data \in [Id -> Content]
    /\ had = [i \in Id |-> IF \E n \in Names : dir[n] = i THEN {data[i]} ELSE {}]
    /\ changes = 0
    /\ pc = "Begin"
    /\ cursor = 0 /\ pages = 0
    /\ before = Nothing /\ held = Nothing /\ bytes = Nothing /\ after = Nothing
    /\ checked = {}
    /\ verdict = "stop_inconclusive"
    /\ witness = Nothing

-----------------------------------------------------------------------------
(* The comparison *)

\* An ObservationFailure, or any other exception: the session is destroyed,
\* which closes its handles, and the verdict stays what it was initialised to.
\* Every native call can fail, so every step can end like this.
Stop ==
    /\ pc # "Done"
    /\ pc' = "Done"
    /\ held' = Nothing
    /\ verdict' = "stop_inconclusive"
    /\ UNCHANGED <<dirVars, listVars, before, bytes, after, checked, witness>>

\* The process and the broker read were reached, and the protected marker is the
\* one of the fixture.
Begin ==
    /\ pc = "Begin"
    /\ pc' = "Open"
    /\ UNCHANGED <<dirVars, listVars, before, held, bytes, after, checked, verdict, witness>>

\* The volume root, the ancestors and the state directory are opened one below
\* the other and are the expected ones.  The state directory is opened for
\* listing and shares no deletion, so it stays, and with it the path to it: what
\* has an open object below it is not renamed.
Open ==
    /\ pc = "Open"
    /\ pc' = "Before"
    /\ UNCHANGED <<dirVars, listVars, before, held, bytes, after, checked, verdict, witness>>

\* What the next call of next_page returns: the buffer has room for more names
\* than MaxEntries, so a page holds every name behind the cursor, or too many.
NextPage == {n \in Present(dir) : n > cursor}

\* inventory with its pages: "listing" grows by a page.
Listed(listing) == [n \in Names |-> IF n \in NextPage THEN dir[n] ELSE listing[n]]

\* Mutant of MorePages: the number of pages is not limited.
AnyPages == TRUE

\* The call is one of the max_pages the loop makes.
MorePages == pages < MaxPages

\* A call that returns a page.  The first page is never empty: it has "." and "..".
Page ==
    /\ NextPage # {} \/ pages = 0
    /\ MorePages
    /\ pages' = pages + 1
    /\ cursor' \in NextPage \cup {cursor}
    /\ \A n \in NextPage : n <= cursor'

\* The call that returns the explicit end; the next enumeration restarts.
PageEnd ==
    /\ NextPage = {}
    /\ MorePages
    /\ pages' = 0 /\ cursor' = 0

WithinLimit(listing) == Cardinality(Present(listing)) <= MaxEntries

\* check_entries: only names of the fixture are allowed.
CheckEntries(listing) == \A n \in Present(listing) : Latest[n] # None

InitialPage ==
    /\ pc = "Before"
    /\ Page
    /\ before' = Listed(before) /\ WithinLimit(before')
    /\ UNCHANGED <<dirVars, pc, held, bytes, after, checked, verdict, witness>>

InitialEnd ==
    /\ pc = "Before"
    /\ PageEnd
    /\ CheckEntries(before)
    /\ pc' = "Hold"
    /\ UNCHANGED <<dirVars, before, held, bytes, after, checked, verdict, witness>>

\* The file opened is the one the inventory listed.
SameFile(n, i) == i = before[n]

\* hold_child and held_identity: the file is opened by its name.
HoldChild(n) ==
    /\ pc = "Hold"
    /\ n \in Present(before) \ Present(held)
    /\ dir[n] # None
    /\ SameFile(n, dir[n])
    /\ held' = [held EXCEPT ![n] = dir[n]]
    /\ UNCHANGED <<dirVars, pc, listVars, before, bytes, after, checked, verdict, witness>>

AllHeld ==
    /\ pc = "Hold"
    /\ Present(held) = Present(before)
    /\ pc' = "Read"
    /\ UNCHANGED <<dirVars, listVars, before, held, bytes, after, checked, verdict, witness>>

\* read_child, through the handle.  The order of the names does not matter.
ReadChild(n) ==
    /\ pc = "Read"
    /\ n \in Present(held) \ Present(bytes)
    /\ bytes' = [bytes EXCEPT ![n] = data[held[n]]]
    /\ UNCHANGED <<dirVars, pc, listVars, before, held, after, checked, verdict, witness>>

AllRead ==
    /\ pc = "Read"
    /\ Present(bytes) = Present(held)
    /\ pc' = "After"
    /\ UNCHANGED <<dirVars, listVars, before, held, bytes, after, checked, verdict, witness>>

\* The first call of the final inventory is where the snapshot is taken.
Observe == witness' = IF pages = 0 THEN View ELSE witness

FinalPage ==
    /\ pc = "After"
    /\ Page
    /\ Observe
    /\ after' = Listed(after) /\ WithinLimit(after')
    /\ UNCHANGED <<dirVars, pc, before, held, bytes, checked, verdict>>

\* The two inventories list the same names.
SameInventory == Present(after) = Present(before)

FinalEnd ==
    /\ pc = "After"
    /\ PageEnd
    /\ Observe
    /\ CheckEntries(after)
    /\ SameInventory
    /\ pc' = "Recheck"
    /\ UNCHANGED <<dirVars, before, held, bytes, after, checked, verdict>>

\* Mutant of SameContent: the second reading is not compared.
AnyContent(n) == TRUE

\* Same file as listed now, same contents as read first.
SameContent(n) == after[n] = held[n] /\ data[held[n]] = bytes[n]

RecheckChild(n) ==
    /\ pc = "Recheck"
    /\ n \in Present(after) \ checked
    /\ SameContent(n)
    /\ checked' = checked \cup {n}
    /\ UNCHANGED <<dirVars, pc, listVars, before, held, bytes, after, verdict, witness>>

\* What a complete set of files amounts to.  A digest stands for its files.
VerdictOn(files) ==
    IF Present(files) = {} THEN "reject_deleted"
    ELSE IF files = Latest THEN "accept_current"
    ELSE IF files = Old    THEN "reject_restored_old"
    ELSE "reject_mismatch"

Judge ==
    /\ pc = "Recheck"
    /\ checked = Present(after)
    /\ verdict' = VerdictOn(bytes)
    /\ pc' = "Done"
    /\ held' = Nothing
    /\ UNCHANGED <<dirVars, listVars, before, bytes, after, checked, witness>>

-----------------------------------------------------------------------------
(* The writers *)

Change == changes < MaxChanges /\ changes' = changes + 1

\* The comparison's own variables.
compVars == <<pc, listVars, before, held, bytes, after, checked, verdict, witness>>

Create(n, i, c) ==
    /\ Change
    /\ dir[n] = None /\ had[i] = {}
    /\ dir' = [dir EXCEPT ![n] = i]
    /\ data' = [data EXCEPT ![i] = c]
    /\ had' = [had EXCEPT ![i] = {c}]
    /\ UNCHANGED compVars

\* Mutant of MayTouch: the handles share writing and deleting.
MayTouchAnything(n) == dir[n] # None

\* A file nobody holds without sharing can be opened for writing or deleting.
MayTouch(n) == dir[n] # None /\ held[n] = None

Remove(n) ==
    /\ Change
    /\ MayTouch(n)
    /\ dir' = [dir EXCEPT ![n] = None]
    /\ UNCHANGED <<data, had, compVars>>

\* A file is moved to another name, in place of the file that had it, if any.
Rename(n, m) ==
    /\ Change
    /\ n # m /\ MayTouch(n)
    /\ dir[m] = None \/ MayTouch(m)
    /\ dir' = [dir EXCEPT ![m] = dir[n], ![n] = None]
    /\ UNCHANGED <<data, had, compVars>>

Write(n, c) ==
    /\ Change
    /\ MayTouch(n)
    /\ data' = [data EXCEPT ![dir[n]] = c]
    /\ had' = [had EXCEPT ![dir[n]] = @ \cup {c}]
    /\ UNCHANGED <<dir, compVars>>

\* Through a mapping made earlier.
MappedWrite(n, c) ==
    /\ Change
    /\ dir[n] # None /\ c \notin had[dir[n]]
    /\ data' = [data EXCEPT ![dir[n]] = c]
    /\ had' = [had EXCEPT ![dir[n]] = @ \cup {c}]
    /\ UNCHANGED <<dir, compVars>>

-----------------------------------------------------------------------------

Step ==
    \/ Begin \/ Open \/ InitialPage \/ InitialEnd \/ AllHeld \/ AllRead
    \/ FinalPage \/ FinalEnd \/ Judge \/ Stop
    \/ \E n \in Names : HoldChild(n) \/ ReadChild(n) \/ RecheckChild(n)

Writers ==
    \E n \in Names :
        \/ Remove(n)
        \/ \E m \in Names : Rename(n, m)
        \/ \E c \in Content : Write(n, c) \/ MappedWrite(n, c) \/ \E i \in Id : Create(n, i, c)

Next == Step \/ Writers

Spec == Init /\ [][Next]_vars

-----------------------------------------------------------------------------
(* Properties *)

Complete == pc = "Done" /\ verdict # "stop_inconclusive"

\* A complete snapshot is a picture of ONE moment, although its files were listed,
\* opened and read one by one while others were being written: the bytes judged
\* are exactly what the directory held at the first page of the final inventory.
SnapshotIsAtomic == Complete => bytes = witness

\* ACCEPT_CURRENT is given only for a directory that held exactly the latest set,
\* REJECT_DELETED only for an empty one.
VerdictIsTrue ==
    /\ verdict = "accept_current" => witness = Latest
    /\ verdict = "reject_restored_old" => witness = Old
    /\ verdict = "reject_deleted" => witness = Nothing

Atomic == INSTANCE OneLook WITH
    GaveUp <- "stop_inconclusive",
    truth <- VerdictOn(View),
    kept <- VerdictOn(witness),
    phase <- IF pc = "Done" THEN "done"
             ELSE IF pc = "Recheck" \/ (pc = "After" /\ pages > 0) THEN "looked"
             ELSE "looking",
    answer <- verdict

\* The comparison is as good as one look at the directory: its verdict, a mismatch
\* included, is that of the files at one moment during the call, and is final.
AsOneLook == Atomic!Spec
=============================================================================

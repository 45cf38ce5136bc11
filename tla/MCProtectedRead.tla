-------------------------- MODULE MCProtectedRead --------------------------
(* TLC instance of ProtectedRead: root r, directory d with file f, and a    *)
(* second directory e with a second file g that can take their places.     *)
EXTENDS ProtectedRead

CONSTANTS r, d, e, f, g, fine, other, x, y

Ids   == <<d, f>>
Id(l) == IF l = 0 THEN r ELSE Ids[l]
Good  == [k \in Facet |-> fine]

IdSeal   == [l \in Level |-> Id(l)]
MetaSeal == [l \in Level |-> Good]
Content  == <<x, y>>

Sealed ==
    [child |-> [o \in Obj |-> CASE o = r -> d [] o = d -> f [] o = e -> g [] OTHER -> None],
     meta  |-> [o \in Obj |-> Good],
     data  |-> [o \in File |-> <<x, y>>]]

\* The sealed disk; the other directory in place of the sealed one; content still
\* to be completed, and too long; another descriptor.
WorldSet ==
    {Sealed, [Sealed EXCEPT !.child[r] = e], [Sealed EXCEPT !.data[f] = <<x, x>>],
     [Sealed EXCEPT !.data[f] = <<x, y, y>>], [Sealed EXCEPT !.meta[d]["acl"] = other]}
=============================================================================

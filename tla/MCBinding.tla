----------------------------- MODULE MCBinding -----------------------------
(* TLC instance of Binding: consistent inputs, and inputs in which one     *)
(* value is another one's.                                                 *)
EXTENDS Binding, TLC

CONSTANTS c, d,           \* SIDs: the controller's and another
          active, terminal, draft  \* cases: two frozen ones and one that is not

P10(s) == Sha256(RenderP10(s))
P11(k, s) == Sha256(RenderP11(k, P10(s)))

Good == [approved  |-> [sid |-> c, case |-> active, p10 |-> P10(c), p11 |-> P11(active, c)],
         canonical |-> RenderP10(c), selected |-> active, token |-> c,
         seal      |-> [case |-> active, p10 |-> P10(c), p11 |-> P11(active, c)]]

\* Everything for the case that is not frozen.
Draft == [Good EXCEPT !.approved.case = draft, !.approved.p11 = P11(draft, c), !.selected = draft,
                      !.seal.case = draft, !.seal.p11 = P11(draft, c)]

OneOff ==
    {[Good EXCEPT !.approved.sid = d], [Good EXCEPT !.approved.case = draft],
     [Good EXCEPT !.approved.p10 = P10(d)], [Good EXCEPT !.approved.p11 = P11(active, d)],
     [Good EXCEPT !.canonical = RenderP10(d)], [Good EXCEPT !.selected = draft],
     [Good EXCEPT !.token = d], [Good EXCEPT !.seal.case = draft],
     [Good EXCEPT !.seal.p10 = P10(d)], [Good EXCEPT !.seal.p11 = P11(draft, c)],
     [Good EXCEPT !.seal = [case |-> active, p10 |-> P10(d), p11 |-> P11(active, d)]],
     [Good EXCEPT !.seal = [case |-> terminal, p10 |-> P10(c), p11 |-> P11(terminal, c)]]}

InputSet == {Good, Draft} \cup OneOff
Symmetry == Permutations(Nonce)
=============================================================================

------------------------------- MODULE MCView -------------------------------
(***************************************************************************)
(* Lists and programs for model checking the view.                         *)
(***************************************************************************)
EXTENDS ViewProperties, TLC

CONSTANTS ka, kb, kc, d0, d1, w0, w1, w2, w3, w4, w5

Item(k, d) == [key |-> k, data |-> d]

(* Growing, shrinking, reversing, rotating, a change of data under a key   *)
(* that moves, and a key given twice.                                      *)
FewLists == {<<>>, <<Item(ka, d0)>>,
             <<Item(ka, d0), Item(kb, d0)>>,
             <<Item(kb, d0), Item(ka, d1)>>,
             <<Item(kc, d0), Item(ka, d0), Item(kb, d0)>>,
             <<Item(kb, d0), Item(kb, d1), Item(kc, d0)>>}

Watcher(b, f, i) == [builder |-> b, flush |-> f, immediate |-> i]

(* Every builder, every flush mode, lazy and immediate.                    *)
SomePrograms == {Watcher("dyn_if", "pre", FALSE), Watcher("dyn_if_else", "sync", FALSE),
                 Watcher("dyn_switch", "post", FALSE), Watcher("dyn_element", "post", TRUE),
                 Watcher("dyn_if", "sync", TRUE), Watcher("dyn_switch", "pre", TRUE)}
JustPost == {Watcher("dyn_switch", "post", FALSE)}
=============================================================================

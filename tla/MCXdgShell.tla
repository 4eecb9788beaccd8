---------------------------- MODULE MCXdgShell -----------------------------
(* XdgShell for TLC: two windows, focused and transient for one another; one *)
(* that is maximized and sized before and after it commits; a window with a  *)
(* menu; a chain of menus.                                                   *)
EXTENDS XdgShell, TLC, FiniteSetsExt

Symmetry == Permutations(Surfaces) \cup Permutations(Toplevels) \cup Permutations(Popups)

\* Sessions of s surfaces, t windows and p popups.
Sessions(s, t, p, managed, sizes, arbitrated, uses) ==
    UNION {UNION {{[surfaces |-> S, toplevels |-> T, popups |-> P, managed |-> managed,
                    sizes |-> sizes, arbitrated |-> arbitrated, uses |-> uses] :
        P \in kSubset(p, Popups)} : T \in kSubset(t, Toplevels)} : S \in kSubset(s, Surfaces)}

AllSessions ==
    Sessions(2, 2, 0, {}, {}, {}, {"focus", "transient", "teardown"})
    \cup Sessions(2, 1, 0, {"maximized"}, {0, 1}, {}, {"bounds", "focus", "teardown"})
    \cup Sessions(1, 1, 0, {"minimized", "fullscreen"}, {0, 1}, {"fullscreen"},
                  {"focus", "teardown"})
    \cup Sessions(2, 1, 1, {}, {}, {}, {"grab", "teardown"})
    \cup Sessions(3, 0, 2, {}, {}, {}, {})

=============================================================================

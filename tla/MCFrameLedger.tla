--------------------------- MODULE MCFrameLedger ---------------------------
(* FrameLedger for TLC: one output with two windows stacked, with and without *)
(* scanout and composed groups; two outputs that share a window.             *)
EXTENDS FrameLedger, TLC, FiniteSetsExt

Symmetry ==
    Permutations(Outputs) \cup Permutations(Windows) \cup Permutations(Cells)
        \cup Permutations(Pictures)

\* The compositors with n outputs and m windows in the given areas, g of the
\* windows composed as a group.
Running(n, m, areas, g, uses) ==
    UNION {UNION {{[uses |-> uses, outputs |-> O, windows |-> W, areas |-> areas,
                    grouped |-> G] :
        G \in kSubset(g, W)} : W \in kSubset(m, Windows)} : O \in kSubset(n, Outputs)}

Whole == {Cells}
Anywhere == (SUBSET Cells) \ {{}}

\* A window that moves about, two that are stacked.
CalmSettings ==
    Running(1, 1, Anywhere, 0, {"scanout"})
    \cup Running(1, 2, Whole, 0, {"scanout"})
    \cup Running(1, 2, Whole, 1, {"scanout", "reset"})
    \cup Running(1, 1, Anywhere, 1, {})
    \cup Running(1, 1, Whole, 1, {"fail", "reset", "rebuild"})

\* One window on two outputs: UnchangedIsRight fails.
SharedSettings == Running(2, 1, Whole, 0, {})

=============================================================================

------------------------------ MODULE MCSurface ------------------------------
(* Surface for TLC.  Neither the wl_surfaces nor the wl_buffers of a client   *)
(* differ in anything but their name.                                        *)
EXTENDS Surface, TLC, FiniteSetsExt

Symmetry == Permutations(Surfaces) \cup Permutations(Buffers)

\* The clients with n surfaces and m buffers for each.
Making(n, m, uses, commits, time) ==
    {[uses |-> uses, surfaces |-> S, buffers |-> B, commits |-> commits, time |-> time] :
        S \in kSubset(n, Surfaces), B \in kSubset(m, Buffers)}

\* One surface paced by fifo and commit timing, without buffers and with them, or
\* whose buffers go round; a subsurface with a buffer; a tree of three.
SafeClients ==
    Making(1, 0, {"fifo", "timing"}, 3, 1)
    \cup Making(1, 2, {"hold", "destroy"}, 4, 0)
    \cup Making(1, 1, {"fifo", "hold"}, 4, 0)
    \cup Making(1, 2, {"hold", "reattach"}, 4, 0)
    \cup Making(2, 1, {"subsurface", "destroy"}, 2, 0)
    \cup Making(3, 0, {"subsurface", "nested"}, 1, 0)

\* A nested tree, for CommitOrderOfAnyClient.
NestedClients == Making(3, 0, {"subsurface", "nested"}, 2, 0)

\* The parent dies first: CachedHasParentAlways fails.
OrphanClients == Making(2, 0, {"subsurface", "destroy", "orphan"}, 2, 0)

=============================================================================

--------------------------- MODULE MCCommitPacing ---------------------------
(* CommitPacing for TLC: clients with one surface and with two that use      *)
(* timestamps alone, one that destroys its timer, and one that combines      *)
(* timestamps and barriers.                                                  *)
EXTENDS CommitPacing, MCSurface

PacedClients ==
    Making(1, 0, {"timing", "destroy"}, 2, 2)
    \cup Making(2, 0, {"timing"}, 1, 1)
    \cup Making(1, 0, {"timing", "untimed"}, 1, 2)
    \cup Making(1, 0, {"fifo", "timing"}, 2, 1)

\* Barriers and stamps on one surface: WakeupArmedAlways fails.
MixedClients == Making(1, 0, {"fifo", "timing"}, 3, 2)

=============================================================================

------------------------------ MODULE MCPlugin ------------------------------
(* Plugin on a small instance: the constants' values are in the .cfg.      *)
EXTENDS Plugin, TLC, FiniteSets

\* Instances differ in nothing but their names: sound for the safety runs.
NameSymmetry == Permutations(Names)

\* Bound of the safety run: when the loop has ended nothing is tracked any more,
\* and at most MaxOnTheWay changes and events are on their way at a time: as
\* many as fill the inbox, which Flaky and the sweep then find full.
MaxOnTheWay == 2
Bound ==
    /\ loop # "exited"
    /\ Cardinality(dirty) + Len(inbox) <= MaxOnTheWay
=============================================================================

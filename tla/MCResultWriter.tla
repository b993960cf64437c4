---------------------------- MODULE MCResultWriter ----------------------------
(***************************************************************************)
(* ResultWriter on two writers and three rows: r1 with samples and events, *)
(* r2 with events only (a poll that found no value), r3 silent.            *)
(***************************************************************************)
EXTENDS ResultWriter, TLC

CONSTANTS r1, r2, r3, w1, w2

MCWriters == {w1, w2}
MCRows == {r1, r2, r3}
MCTwoRows == {r1, r2}
MCSampleRows == {r1}
MCSilentRows == {r3}
MCNone == {}
MCReady == {"ready"}

\* A run may die anywhere.
MCAllPoints == Points
=============================================================================

---------------------------- MODULE MCTranscript ----------------------------
(***************************************************************************)
(* Transcript, and with it RunContract, for TLC: two runs of at most       *)
(* MaxLog events, and a transcript of few blocks.                          *)
(***************************************************************************)
EXTENDS Transcript

CONSTANTS MaxLog, MaxRuns, MaxPushed

Bounded == Len(log) <= MaxLog /\ runs <= MaxRuns /\ pushed <= MaxPushed
=============================================================================

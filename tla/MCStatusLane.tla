---------------------------- MODULE MCStatusLane ----------------------------
(* Two enabled providers and one disabled provider. *)
EXTENDS StatusLane

CONSTANTS claude, codex, grok

MCProvider == {claude, codex, grok}
MCEnabled  == {claude, codex}
=============================================================================

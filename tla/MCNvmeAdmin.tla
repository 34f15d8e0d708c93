----------------------------- MODULE MCNvmeAdmin ----------------------------
(* Instance of NvmeAdmin for TLC: a ring of three, so that laps end often,   *)
(* and more tags than two laps have entries, so that a stale entry shows.    *)
EXTENDS NvmeAdmin
=============================================================================

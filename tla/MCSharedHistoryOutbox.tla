----------------------- MODULE MCSharedHistoryOutbox -----------------------
(* Model of SharedHistoryOutbox for TLC. *)
EXTENDS SharedHistoryOutbox
=============================================================================

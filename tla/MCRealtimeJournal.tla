------------------------- MODULE MCRealtimeJournal -------------------------
(* Small instances of RealtimeJournal.                                     *)
EXTENDS RealtimeJournal
=============================================================================

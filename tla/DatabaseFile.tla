---------------------------- MODULE DatabaseFile ----------------------------
(* The live database file, as backups copy it and processes upgrade it: all *)
(* they see of each other and of writers is that it has changed.            *)
VARIABLE source   \* version of the file: one more with every commit
=============================================================================

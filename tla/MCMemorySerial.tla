---------------------------- MODULE MCMemorySerial ----------------------------
(* The instance of MCMemoryStore, with one request at a time. *)
EXTENDS MCMemoryStore, MemorySerial
=============================================================================

------------------------------- MODULE Documents -------------------------------
(***************************************************************************)
(* Collections of documents: functions from ids to documents.  Ids are     *)
(* fresh UUIDs, so that of a deleted document is not used again.           *)
(***************************************************************************)

CONSTANTS Unborn, Gone  \* a document that is not stored yet, or not any more

ASSUME DocumentsAssumption == Unborn # Gone

Stored(collection) == {id \in DOMAIN collection : collection[id] \notin {Unborn, Gone}}
Free(collection)   == {id \in DOMAIN collection : collection[id] = Unborn}
===============================================================================

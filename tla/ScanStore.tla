----------------------------- MODULE ScanStore -----------------------------
(***************************************************************************)
(* What ns::Db promises of the scans in SQL Server (db.hpp): a scan is     *)
(* there as a whole or not at all, it is its host's latest from the moment *)
(* it is there, and a host never goes back to an older one.                *)
(***************************************************************************)
EXTENDS Integers

CONSTANTS
    Hosts,      \* host names
    Ids         \* scan numbers

VARIABLES
    whole,      \* numbers of the scans in the store, each with all its rows
    latest      \* the latest scan of each host, 0 for none

storeVars == <<whole, latest>>

StoreInit == whole = {} /\ latest = [h \in Hosts |-> 0]

(* A scan appears, with everything that belongs to it. *)
Record(h, id) ==
    /\ id \notin whole /\ id > latest[h]
    /\ whole' = whole \cup {id}
    /\ latest' = [latest EXCEPT ![h] = id]

StoreNext == \E h \in Hosts : \E id \in Ids : Record(h, id)

StoreSpec == StoreInit /\ [][StoreNext]_storeVars
=============================================================================

----------------------------- MODULE RootStores -----------------------------
(***************************************************************************)
(* The root store of a process, get_root_store: ROOT_STORE_BACKEND chooses    *)
(* the JSON file or the SQLite database.  Both are to keep the promises that   *)
(* RootStore states; the tables of SQLite are its `entries`, `seen` and        *)
(* `latest`, its file is never behind the table of authorities, and what it    *)
(* accepts is counted over the life of the database.                          *)
(***************************************************************************)
EXTENDS RootStore

CONSTANTS Backends, Procs

VARIABLES backend, doing, step, read

sqlite == <<doing, step, read>>
allVars == <<vars, backend, sqlite>>

Sqlite == INSTANCE RootStoreSqlite
            WITH authorities <- entries, nonces <- seen, versions <- latest

StoresInit ==
    /\ backend \in Backends
    /\ Init /\ Sqlite!Init

JsonNext ==
    /\ backend = "json"
    /\ Next
    /\ UNCHANGED <<backend, sqlite>>

SqliteNext ==
    /\ backend = "sqlite"
    /\ Sqlite!Next
    /\ disk' = entries'
    /\ UNCHANGED <<backend, torn, saving, pc, failed>>

StoresNext == JsonNext \/ SqliteNext

StoresSpec == StoresInit /\ [][StoresNext]_allVars

-----------------------------------------------------------------------------
(* Properties, besides those of RootStore *)

\* The types of both backends.
StoresTypeOK == TypeOK /\ Sqlite!TypeOK
=============================================================================

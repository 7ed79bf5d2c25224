----------------------------- MODULE StoreService -----------------------------
(***************************************************************************)
(* The `micro store` service (src/service/store/store.go, Run).  Run      *)
(* names the service, sets the default store's table (--store_table, else *)
(* "store"), installs the New initialiser and serves the store handler.   *)
(* New(database, table) records the pair in the internal table            *)
(* micro/internal with two separate writes, databases/<db> and then       *)
(* tables/<db>/<table>, and returns the default store only when both      *)
(* succeeded.  Handlers run one goroutine per request, so New calls of    *)
(* several clients interleave write by write, and each write of the       *)
(* backend store may fail.  Before Run, the global Before hook             *)
(* (src/cmd/cmd.go) gives the default store the database "micro" unless   *)
(* --store_database is set.  Clients write through the handler, and the  *)
(* store CLI (src/service/store/cli/databases.go) lists what the handler  *)
(* reads back from the internal table.                                    *)
(***************************************************************************)
EXTENDS Naturals, FiniteSets, Sequences

CONSTANTS
  Clients,      \* concurrent callers of the store handler
  DatabaseNames, \* database names passed to New
  TableNames,    \* table names passed to New
  UserKeys,     \* keys clients write through the handler
  FlagSets,     \* the command lines the process may get
  None

ASSUME None \notin DatabaseNames \cup TableNames

VARIABLES
  flags,         \* the command line
  pc,            \* Run: "init", "running", "exited"
  Name,          \* package variable Name
  Address,       \* package variable Address
  defaultDb,     \* the database the default store was initialised with
  defaultTable,  \* the table the default store was initialised with
  records,       \* records of the backend store: [db, table, key]
  call,          \* per client: the New call in progress
  result,        \* per client: what its last New call returned
  named,         \* history: the database and table pairs passed to New
  printed        \* what the store CLI printed: <<"db", d>> or <<"table", d, t>>

vars == <<flags, pc, Name, Address, defaultDb, defaultTable, records, call,
          result, named, printed>>

AppName  == "micro"

\* ctx.Args().First() in the Before hook: the sub-command's name, "store"
FirstArg == "store"

\* the Before hook's table when --store_table is unset: the first argument,
\* else the app name
BeforeTable == IF FirstArg # "" THEN FirstArg ELSE AppName
Internal == [db |-> AppName, table |-> "internal"]

DatabaseKey(d)  == <<"databases", d>>
TableKey(d, t)  == <<"tables", d, t>>

\* a record written with store.WriteTo(db, table)
Rec(to, key) == [db |-> to.db, table |-> to.table, key |-> key]

IdleCall == [st |-> "idle", db |-> None, table |-> None]

InternalKeys == {r.key : r \in {x \in records : x.db = Internal.db /\ x.table = Internal.table}}

\* the store handler's listings: prefix reads of the internal table
ListedDatabases == {k[2] : k \in {k \in InternalKeys : Len(k) = 2 /\ k[1] = "databases"}}
ListedTables(d) ==
  {k[3] : k \in {k \in InternalKeys : Len(k) = 3 /\ k[1] = "tables" /\ k[2] = d}}

-----------------------------------------------------------------------------
\* variant: the database default applied even when the flag is set
BeforeDatabaseAlways ==
  /\ pc = "before"
  /\ defaultDb' = AppName
  /\ defaultTable' = IF flags.store_table = "" THEN BeforeTable ELSE flags.store_table
  /\ pc' = "init"
  /\ UNCHANGED <<flags, Name, Address, records, call, result, named, printed>>

(* The Before hook's store defaults: the database is the app name unless *)
(* --store_database set one (go-micro applied it already), the table the *)
(* first argument (else the app name) unless --store_table set one.     *)
Before ==
  /\ pc = "before"
  /\ defaultDb' = IF flags.store_database = "" THEN AppName
                                               ELSE flags.store_database
  /\ defaultTable' = IF flags.store_table = "" THEN BeforeTable ELSE flags.store_table
  /\ pc' = "init"
  /\ UNCHANGED <<flags, Name, Address, records, call, result, named, printed>>

\* variant: the table flag taken even when empty
RunNoDefaultTable ==
  /\ pc = "init"
  /\ Name' = IF flags.server_name # "" THEN flags.server_name ELSE Name
  /\ Address' = IF flags.address # "" THEN flags.address ELSE Address
  /\ defaultTable' = flags.store_table
  /\ pc' = "running"
  /\ UNCHANGED <<flags, defaultDb, records, call, result,
                 named, printed>>

(* Run up to service.Run: the name and address flags override the        *)
(* package variables, the default store gets its table, the handler with *)
(* the New initialiser is registered and the service starts serving.     *)
Run ==
  /\ pc = "init"
  /\ Name' = IF flags.server_name # "" THEN flags.server_name ELSE Name
  /\ Address' = IF flags.address # "" THEN flags.address ELSE Address
  /\ defaultTable' = IF flags.store_table # "" THEN flags.store_table
                                              ELSE "store"
  /\ pc' = "running"
  /\ UNCHANGED <<flags, defaultDb, records, call, result,
                 named, printed>>

\* service.Run returns: with an error log.Fatal exits, else Run returns
ServiceReturn ==
  /\ pc = "running"
  /\ pc' = "exited"
  /\ UNCHANGED <<flags, Name, Address, defaultDb, defaultTable, records, call, result,
                 named, printed>>

\* a request makes the handler call New(database, table)
CallNew(c) ==
  /\ pc = "running"
  /\ call[c].st = "idle"
  /\ \E d \in DatabaseNames, t \in TableNames :
       /\ call' = [call EXCEPT ![c] = [st |-> "database", db |-> d, table |-> t]]
       /\ named' = named \cup {[db |-> d, table |-> t]}
  /\ UNCHANGED <<flags, pc, Name, Address, defaultDb, defaultTable, records,
                 result, printed>>

\* a failed write returns its error from New
WriteFails(c) ==
  /\ pc = "running"
  /\ call[c].st \in {"database", "table"}
  /\ call' = [call EXCEPT ![c] = IdleCall]
  /\ result' = [result EXCEPT ![c] = [ret |-> "error", db |-> call[c].db,
                                                    table |-> call[c].table]]
  /\ UNCHANGED <<flags, pc, Name, Address, defaultDb, defaultTable, records,
                 named, printed>>

\* variant: the first write records the table key
WriteDatabaseTableFirst(c) ==
  /\ pc = "running"
  /\ call[c].st = "database"
  /\ records' = records \cup
                  {Rec(Internal, TableKey(call[c].db, call[c].table))}
  /\ call' = [call EXCEPT ![c].st = "table"]
  /\ UNCHANGED <<flags, pc, Name, Address, defaultDb, defaultTable, result, named, printed>>

\* first write: databases/<db> into micro/internal
WriteDatabase(c) ==
  /\ pc = "running"
  /\ call[c].st = "database"
  /\ records' = records \cup {Rec(Internal, DatabaseKey(call[c].db))}
  /\ call' = [call EXCEPT ![c].st = "table"]
  /\ UNCHANGED <<flags, pc, Name, Address, defaultDb, defaultTable, result, named, printed>>

\* variant: the second write without store.WriteTo goes to the default table
WriteTableDefault(c) ==
  /\ pc = "running"
  /\ call[c].st = "table"
  /\ records' = records \cup
       {Rec([db |-> "micro", table |-> defaultTable],
            TableKey(call[c].db, call[c].table))}
  /\ call' = [call EXCEPT ![c] = IdleCall]
  /\ result' = [result EXCEPT ![c] = [ret |-> "store", db |-> call[c].db,
                                                    table |-> call[c].table]]
  /\ UNCHANGED <<flags, pc, Name, Address, defaultDb, defaultTable, named, printed>>

\* second write: tables/<db>/<table>, then New returns the default store
WriteTable(c) ==
  /\ pc = "running"
  /\ call[c].st = "table"
  /\ records' = records \cup
                  {Rec(Internal, TableKey(call[c].db, call[c].table))}
  /\ call' = [call EXCEPT ![c] = IdleCall]
  /\ result' = [result EXCEPT ![c] = [ret |-> "store", db |-> call[c].db,
                                                    table |-> call[c].table]]
  /\ UNCHANGED <<flags, pc, Name, Address, defaultDb, defaultTable, named, printed>>

(* A handler Write with no database or table in its options goes to the  *)
(* default store, i.e. its database and table.                          *)
Write(c) ==
  /\ pc = "running"
  /\ \E k \in UserKeys :
       records' = records \cup {Rec([db |-> defaultDb, table |-> defaultTable], k)}
  /\ UNCHANGED <<flags, pc, Name, Address, defaultDb, defaultTable, call, result,
                 named, printed>>

(* micro store databases: call Store.Databases; an error is returned (the *)
(* call fails when no store service runs), otherwise each is printed.    *)
Databases ==
  /\ \/ pc = "running"
        /\ printed' = printed \cup {<<"db", d>> : d \in ListedDatabases}
     \/ UNCHANGED printed
  /\ UNCHANGED <<flags, pc, Name, Address, defaultDb, defaultTable, records,
                 call, result, named>>

(* micro store tables --database d: an empty flag is an error before any *)
(* call; otherwise Store.Tables, an error returned or each printed.     *)
Tables(d) ==
  /\ \/ d # "" /\ pc = "running"
        /\ printed' = printed \cup {<<"table", d, t>> : t \in ListedTables(d)}
     \/ UNCHANGED printed
  /\ UNCHANGED <<flags, pc, Name, Address, defaultDb, defaultTable, records,
                 call, result, named>>

Init ==
  /\ flags \in FlagSets
  /\ pc = "before"
  /\ defaultDb = None
  /\ Name = "go.micro.store"
  /\ Address = ":8002"
  /\ defaultTable = None
  /\ records = {}
  /\ call = [c \in Clients |-> IdleCall]
  /\ result = [c \in Clients |-> [ret |-> None, db |-> None, table |-> None]]
  /\ named = {}
  /\ printed = {}

Next ==
  \/ Before \/ Run \/ ServiceReturn
  \/ \E c \in Clients :
       CallNew(c) \/ WriteFails(c) \/ WriteDatabase(c) \/ WriteTable(c) \/ Write(c)
  \/ Databases \/ \E d \in DatabaseNames \cup {""} : Tables(d)

\* the service serves until it is stopped, which may never happen
Spec == Init /\ [][Next]_vars

-----------------------------------------------------------------------------
TypeOK ==
  /\ pc \in {"before", "init", "running", "exited"}
  /\ defaultTable \in IF pc = "before" THEN {None}
                      ELSE {"store"} \cup ({f.store_table : f \in FlagSets} \ {""})
  /\ \A c \in Clients :
       /\ call[c].st \in {"idle", "database", "table"}
       /\ result[c].ret \in {None, "store", "error"}

(* New's comment: it records the new database and table in the internal *)
(* table.  Whatever writes fail and however concurrent calls interleave, *)
(* a table recorded there always has its database recorded there too, so *)
(* a listing of databases never misses one that has tables.              *)
TableImpliesDatabase ==
  \A d \in DatabaseNames, t \in TableNames :
    TableKey(d, t) \in InternalKeys => DatabaseKey(d) \in InternalKeys

(* A client that got a store from New has both its database and its      *)
(* table recorded in the internal table, never in the table configured   *)
(* for the default store by --store_table.                               *)
StoreImpliesRecorded ==
  \A c \in Clients :
    result[c].ret = "store" =>
      /\ DatabaseKey(result[c].db) \in InternalKeys
      /\ TableKey(result[c].db, result[c].table) \in InternalKeys

(* `micro store databases` and `micro store tables` show what New        *)
(* recorded: every database and table they printed was passed to New,    *)
(* whatever clients wrote through the handler and whatever the store     *)
(* flags of the Before hook and of Run made the default store.           *)
ListingShowsOnlyCreated ==
  \A p \in printed :
    IF p[1] = "db" THEN \E n \in named : n.db = p[2]
    ELSE [db |-> p[2], table |-> p[3]] \in named
=============================================================================

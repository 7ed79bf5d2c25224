--------------------------- MODULE MCStoreService ---------------------------
EXTENDS StoreService, TLC, CliFlags

\* clients are interchangeable, as are database names
Symmetry == Permutations(Clients) \cup Permutations(DatabaseNames)

\* a client's key that reads as a database record, and a plain one
MCUserKeys == {<<"databases", "x">>, <<"k">>}

\* the address the store command's context resolves: --address, else
\* MICRO_SERVER_ADDRESS, each given or not
NoArgs == [n \in {} |-> ""]
MCAddresses ==
  {ResolveFlags(StoreFlags, a, e).address :
     a \in {NoArgs, [n \in {"address"} |-> ":9002"]},
     e \in {NoArgs, [n \in {"MICRO_SERVER_ADDRESS"} |-> ":7000"]}}

(* --server_name and the address both unset or both set, --store_database *)
(* and --store_table each unset or set; --store_table=internal is taken   *)
(* only with a database of its own: the collision with micro/internal is  *)
(* the store_internal run.                                                *)
MCFlags == {f \in [server_name : {"", "my.store"}, address : MCAddresses,
                   store_database : {"", "db"},
                   store_table : {"", "internal", "users"}] :
              /\ (f.server_name = "") = (f.address = "")
              /\ ~(f.store_database = "" /\ f.store_table = "internal")}

\* the default store left on the internal table
MCInternalFlags == [server_name : {""}, address : {""}, store_database : {""},
                    store_table : {"internal"}]
=============================================================================

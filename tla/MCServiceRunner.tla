--------------------------- MODULE MCServiceRunner ---------------------------
EXTENDS ServiceRunner

\* localhost:9090
MCDefaultEndpoint == <<"localhost", ":9090">>

(* --endpoint values: unset, each scheme, https, a plain address, and    *)
(* host names that merely start with a scheme word (grpcbin:4).          *)
MCEndpoints ==
  { << >>,
    <<"grpc", "://", "host", ":1">>,
    <<"http", "://", "host", ":2">>,
    <<"http", "s", "://", "host">>,
    <<"file", "://", "dir">>,
    <<"exec", "://", "cmd">>,
    <<"host", ":3">>,
    <<"grpc", "bin", ":4">>,
    <<"file", "store", ":5">> }

(* --metadata entries: plain, a value containing "=", no "=", an empty   *)
(* key, an empty value, and a second value for the key "k".              *)
MCEntries ==
  { <<"k", "=", "v">>, <<"k", "=", "v", "=", "w">>, <<"k">>,
    <<"=", "v">>, <<"k", "=">>, <<"o", "=", "k">> }

MCMetadata == {<< >>} \cup {<<e>> : e \in MCEntries}
                      \cup {<<e, f>> : e, f \in MCEntries}

MCFlags == [endpoint : MCEndpoints, metadata : MCMetadata, args : BOOLEAN]
=============================================================================

------------------------------- MODULE MCProxy -------------------------------
(* Instantiates Proxy for TLC: endpoints with each scheme, a bare host, a  *)
(* host whose name starts with "grpc", an https URL; every protocol flag, *)
(* local and service routers, TLS off/ok/bad, and the listen address     *)
(* from --address, --proxy_address or MICRO_PROXY_ADDRESS, each or none. *)
EXTENDS Proxy, CliFlags

MCEndpoints ==
  { << >>,
    <<"grpc", "://", "host", ":1">>,
    <<"http", "://", "host", ":2">>,
    <<"host", ":3">>,
    <<"grpc", "bin", ":4">>,
    <<"http", "s", "://", "host">> }

\* where the listen address may come from: --address on the proxy command
\* line, --proxy_address on the global one, MICRO_PROXY_ADDRESS
NoArgs == [n \in {} |-> ""]
ArgOf(name, v) == IF v = "" THEN NoArgs ELSE [n \in {name} |-> v]
MCEnvs == {NoArgs, [n \in {"MICRO_PROXY_ADDRESS"} |-> ":9000"]}

MCAddressSources ==
  {[addressArg    |-> a,
    address       |-> FlagValue("address", ProxyFlags.address, ArgOf("address", a), e),
    proxy_address |-> FlagValue("proxy_address", GlobalFlags.proxy_address,
                                ArgOf("proxy_address", g), e),
    envAddress    |-> IF e = NoArgs THEN "" ELSE e["MICRO_PROXY_ADDRESS"]] :
     a \in {"", ":7000"}, g \in {"", ":8000"}, e \in MCEnvs}

MCFlags ==
  {[endpoint |-> ep, protocol |-> pr, router |-> r, router_address |-> ra,
    tls |-> t, env |-> s.envAddress # "", addressArg |-> s.addressArg,
    address |-> s.address, proxy_address |-> s.proxy_address,
    envAddress |-> s.envAddress] :
     ep \in MCEndpoints, pr \in {"", "grpc", "http", "mucp", "bogus"},
     r \in {"", "go.micro.router"}, ra \in {"", ":8084"},
     t \in {"off", "ok", "bad"}, s \in MCAddressSources}
=============================================================================

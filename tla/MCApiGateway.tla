---------------------------- MODULE MCApiGateway ----------------------------
(* Instantiates ApiGateway for TLC: a few command lines that exercise the  *)
(* handler switch, the /rpc and /stats routes, and the namespace flags.   *)
EXTENDS ApiGateway

\* "go.micro.api" and "com.ex.api": namespaces that already carry the type
GoMicroApi == <<"go", ".", "micro", ".", "api">>
ComExApi   == <<"com", ".", "ex", ".", "api">>

\* command lines of the main run: every handler kind, the two toggled routes,
\* --namespace with and without the type suffix
MCFlags ==
  [api_handler: {"", "proxy"}, api_namespace: {<< >>},
   handler: {"", "api", "http", "bogus"}, namespace: {<< >>, GoMicroApi},
   type: {<< >>}, enable_rpc: BOOLEAN, enable_stats: BOOLEAN,
   enable_cors: BOOLEAN, tls: {"off", "ok", "bad"}]

\* flags of the namespace run: the global --api_namespace flag
MCNamespaceFlags ==
  [api_handler: {""}, api_namespace: {<< >>, ComExApi},
   handler: {""}, namespace: {<< >>, GoMicroApi},
   type: {<< >>, <<"web">>}, enable_rpc: {FALSE}, enable_stats: {FALSE},
   enable_cors: {TRUE}, tls: {"off"}]

\* flags of the OPTIONS run: CORS left to the gateway itself
MCOptionsFlags ==
  [api_handler: {""}, api_namespace: {<< >>},
   handler: {"", "api"}, namespace: {<< >>},
   type: {<< >>}, enable_rpc: {FALSE}, enable_stats: {FALSE},
   enable_cors: {FALSE}, tls: {"off"}]

\* flags of the web host run: the web dashboard host given
MCWebFlags ==
  [api_handler: {""}, api_namespace: {<< >>},
   handler: {""}, namespace: {<< >>},
   type: {<< >>}, enable_rpc: {FALSE}, enable_stats: {FALSE},
   enable_cors: {TRUE}, tls: {"off"}, web_url: {"web.ex.com"}]

\* the token sequences of the namespace and type values the environment holds
Tokens == [s \in {"", "com.ex.api", "go.micro", "web"} |->
             CASE s = "com.ex.api" -> ComExApi
               [] s = "go.micro"   -> <<"go", ".", "micro">>
               [] s = "web"        -> <<"web">>
               [] OTHER            -> << >>]

\* the environments of the environment run: each variable unset or set
MCEnvs ==
  {[v \in {x \in DOMAIN e : e[x] # "unset"} |-> e[v]] :
     e \in [MICRO_API_NAMESPACE : {"unset", "", "com.ex.api", "go.micro"},
            MICRO_API_TYPE : {"unset", "web"},
            MICRO_API_HANDLER : {"unset", "http"},
            MICRO_ENABLE_STATS : {"unset"}]}

(* The flags `micro api` sees with no flag on its command line: the       *)
(* global flags and the api command's, resolved from the environment.    *)
EnvFlags(env) ==
  LET g == ResolveFlags(GlobalFlags, << >>, env)
      a == ResolveFlags(ApiFlags, << >>, env)
  IN [api_handler |-> g.api_handler, api_namespace |-> Tokens[g.api_namespace],
      handler |-> a.handler, namespace |-> Tokens[a.namespace],
      type |-> Tokens[a.type], enable_rpc |-> a.enable_rpc,
      enable_stats |-> g.enable_stats, enable_cors |-> a.enable_cors,
      tls |-> IF g.enable_tls THEN "ok" ELSE "off"]

MCEnvFlags == {EnvFlags(env) : env \in MCEnvs}

\* flags of the main run: the command lines above and the environments
MCGatewayFlags == MCFlags \cup MCEnvFlags

\* "/", "/favicon.ico", "/rpc", "/stats", "/greeter/Say", "/.well-known"
MCPaths ==
  {<< >>, <<"favicon.ico">>, <<"rpc">>, <<"stats">>,
   <<"greeter", "Say">>, <<".well-known">>}

MCServicePart ==
  [s \in {"favicon.ico", "rpc", "stats", "greeter", ".well-known"} |->
     CASE s = "favicon.ico" -> "favicon"
       [] s = ".well-known" -> ""
       [] OTHER -> s]
=============================================================================

------------------------------- MODULE CliFlags -------------------------------
(***************************************************************************)
(* How the micro command line gives its flags their values (urfave/cli,    *)
(* as used by src/cmd/cmd.go and the commands' Commands functions).  A     *)
(* flag is declared with EnvVars and a Value.  Its value in a context is   *)
(* the command line's when the flag was given there, else the value of the *)
(* first of its EnvVars that is set in the environment (set to "" counts), *)
(* else its Value.  ctx.String of a name no flag declares is "".           *)
(*                                                                         *)
(* The command line is a function from the names given to their values,   *)
(* the environment a function from the variables that are set to theirs.  *)
(***************************************************************************)
EXTENDS Sequences, SequencesExt

\* a flag declaration: its EnvVars, in order, and its Value
Flag(envVars, value) == [envVars |-> envVars, value |-> value]

\* the value of flag name, declared as decl, for a command line and an environment
FlagValue(name, decl, args, env) ==
  LET set == SelectSeq(decl.envVars, LAMBDA v : v \in DOMAIN env)
  IN IF name \in DOMAIN args THEN args[name]
     ELSE IF set # << >> THEN env[Head(set)]
     ELSE decl.value

\* the flags of a declaration list, resolved
ResolveFlags(decls, args, env) ==
  [name \in DOMAIN decls |-> FlagValue(name, decls[name], args, env)]

\* ctx.String(name): "" when no flag of that name is declared
CtxString(flags, name) == IF name \in DOMAIN flags THEN flags[name] ELSE ""

(* The global flags of setup (cmd.go), those the modelled code reads.     *)
(* web_url's variable is MICRO_WEB_HOST; no flag is named web_host.       *)
GlobalFlags ==
  [enable_tls     |-> Flag(<<"MICRO_ENABLE_TLS">>, FALSE),
   api_address    |-> Flag(<<"MICRO_API_ADDRESS">>, ""),
   namespace      |-> Flag(<<"MICRO_NAMESPACE">>, "micro"),
   proxy_address  |-> Flag(<<"MICRO_PROXY_ADDRESS">>, ""),
   web_address    |-> Flag(<<"MICRO_WEB_ADDRESS">>, ""),
   router_address |-> Flag(<<"MICRO_ROUTER_ADDRESS">>, ""),
   api_handler    |-> Flag(<<"MICRO_API_HANDLER">>, ""),
   api_namespace  |-> Flag(<<"MICRO_API_NAMESPACE">>, ""),
   web_namespace  |-> Flag(<<"MICRO_WEB_NAMESPACE">>, ""),
   web_url        |-> Flag(<<"MICRO_WEB_HOST">>, ""),
   enable_stats   |-> Flag(<<"MICRO_ENABLE_STATS">>, FALSE)]

\* variant: the api command's namespace read from the global namespace variable
ApiFlagsOwnNamespaceVar ==
  [address     |-> Flag(<<"MICRO_API_ADDRESS">>, ""),
   handler     |-> Flag(<<"MICRO_API_HANDLER">>, ""),
   namespace   |-> Flag(<<"MICRO_NAMESPACE">>, ""),
   type        |-> Flag(<<"MICRO_API_TYPE">>, ""),
   resolver    |-> Flag(<<"MICRO_API_RESOLVER">>, ""),
   enable_rpc  |-> Flag(<<"MICRO_API_ENABLE_RPC">>, FALSE),
   enable_cors |-> Flag(<<"MICRO_API_ENABLE_CORS">>, TRUE)]

\* the flags of `micro api` (api.go Commands)
ApiFlags ==
  [address     |-> Flag(<<"MICRO_API_ADDRESS">>, ""),
   handler     |-> Flag(<<"MICRO_API_HANDLER">>, ""),
   namespace   |-> Flag(<<"MICRO_API_NAMESPACE">>, ""),
   type        |-> Flag(<<"MICRO_API_TYPE">>, ""),
   resolver    |-> Flag(<<"MICRO_API_RESOLVER">>, ""),
   enable_rpc  |-> Flag(<<"MICRO_API_ENABLE_RPC">>, FALSE),
   enable_cors |-> Flag(<<"MICRO_API_ENABLE_CORS">>, TRUE)]

\* the flags of `micro proxy` (proxy.go Commands)
ProxyFlags ==
  [router         |-> Flag(<<"MICRO_ROUTER">>, ""),
   router_address |-> Flag(<<"MICRO_ROUTER_ADDRESS">>, ""),
   address        |-> Flag(<<"MICRO_PROXY_ADDRESS">>, ""),
   protocol       |-> Flag(<<"MICRO_PROXY_PROTOCOL">>, ""),
   endpoint       |-> Flag(<<"MICRO_PROXY_ENDPOINT">>, "")]
\* the flags of `micro runtime` (runtime.go Commands); retries is an IntFlag
RuntimeFlags ==
  [address |-> Flag(<<"MICRO_SERVER_ADDRESS">>, ""),
   profile |-> Flag(<<"MICRO_RUNTIME_PROFILE">>, ""),
   source  |-> Flag(<<"MICRO_RUNTIME_SOURCE">>, ""),
   retries |-> Flag(<<"MICRO_RUNTIME_RETRIES">>, 0)]

\* the flags of `micro broker` (broker.go Commands)
BrokerFlags == [address |-> Flag(<<"MICRO_SERVER_ADDRESS">>, "")]

\* the flags of `micro debug` (debug.go Commands); window is an IntFlag
DebugFlags ==
  [address |-> Flag(<<"MICRO_SERVER_ADDRESS">>, ""),
   window  |-> Flag(<<"MICRO_DEBUG_WINDOW">>, 60)]

\* the flags of `micro store` (store.go Commands)
StoreFlags == [address |-> Flag(<<"MICRO_SERVER_ADDRESS">>, "")]

\* the flags of `micro health` (health.go Commands)
HealthFlags ==
  [address       |-> Flag(<<"MICRO_HEALTH_ADDRESS">>, ""),
   check_service |-> Flag(<<"MICRO_HEALTH_CHECK_SERVICE">>, ""),
   check_address |-> Flag(<<"MICRO_HEALTH_CHECK_ADDRESS">>, "")]
=============================================================================

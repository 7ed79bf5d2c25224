----------------------------- MODULE ApiGateway -----------------------------
(***************************************************************************)
(* The API gateway command, `micro api` (src/client/api/api.go, Run), with *)
(* the part of the global Before hook that writes its package variables    *)
(* (src/cmd/cmd.go).  The process goes through                             *)
(*                                                                         *)
(*   Before -> ApplyFlags -> ConfigureServer -> RegisterRoutes ->          *)
(*   StartApi -> (service.Run) -> StopApi                                  *)
(*                                                                         *)
(* while clients send requests to the listener.  A request passes the     *)
(* auth wrapper, then the gorilla/mux router, whose routes are tried in    *)
(* registration order, and finally a fixed handler or the protocol handler *)
(* selected by the Handler variable, which may call a backend.             *)
(*                                                                         *)
(* Strings are sequences of tokens: a namespace "go.micro" is              *)
(* <<"go", ".", "micro">>, so strings.TrimSuffix is a suffix test on       *)
(* sequences.  A path is the sequence of its segments; "/" is << >>.       *)
(***************************************************************************)
EXTENDS Naturals, Sequences, SequencesExt, FiniteSets, CliFlags

CONSTANTS
  FlagSets,     \* the command lines (global and `api` flags) the process may get
  Paths,        \* request paths, as sequences of segments
  ServicePart,  \* segment -> its leading [a-zA-Z0-9]+ run ("" if none)
  Clients       \* concurrent HTTP clients of the gateway

VARIABLES
  flags,          \* the command line, fixed for the life of the process
  nsRequiresAuth, \* the auth policy of the API namespace (external rules)
  pc,             \* where the main goroutine is in Run
  Handler,        \* package variables of client/api
  Namespace,
  Type,
  EnableRPC,
  apiNamespace,   \* local apiNamespace of Run
  routes,         \* the mux routes, in registration order
  listening,      \* the http api server accepts connections
  reqs,           \* the request each client has in flight
  others          \* package variables of proxy, web and router set by Before

vars == <<flags, nsRequiresAuth, pc, Handler, Namespace, Type, EnableRPC,
          apiNamespace, routes, listening, reqs, others>>

Dot == "."
None == "none"

\* the flag Before copies into each package variable of proxy, web and router
BeforeReads ==
  [proxy_Address |-> "proxy_address", web_Address |-> "web_address",
   router_Address |-> "router_address", web_Namespace |-> "web_namespace",
   web_Host |-> "web_host"]

\* strings.TrimSuffix on token sequences
TrimSuffix(s, suffix) ==
  IF IsSuffix(suffix, s) THEN SubSeq(s, 1, Len(s) - Len(suffix)) ELSE s

\* fixed paths of Run
RootPath    == << >>
FaviconPath == <<"favicon.ico">>
RPCPath     == <<"rpc">>
StatsPath   == <<"stats">>
APIPath     == << >>

Methods     == {"GET", "OPTIONS"}
Credentials == {"none", "valid", "invalid"}
ProtocolKinds == {"rpc", "api", "event", "http", "web", "meta"}
FixedTargets  == {"stats", "root", "favicon", "rawrpc"}

(* The requests that reach the repository's handler chain.  With CORS     *)
(* enabled the go-micro http server answers OPTIONS itself, so those      *)
(* never get here.                                                        *)
Requests ==
  [method: IF flags.enable_cors THEN {"GET"} ELSE Methods,
   path: Paths, cred: Credentials]

IdleReq == [st |-> "idle", req |-> None, reached |-> None,
            called |-> FALSE, code |-> 0]

-----------------------------------------------------------------------------
(* Start-up of the process                                                 *)

(* cmd.go Before: each global flag that is non-empty overrides a package *)
(* variable; --api_namespace is copied as given.  The web host is read    *)
(* as ctx.String("web_host").                                             *)
Before ==
  /\ pc = "before"
  /\ Handler' = IF flags.api_handler # "" THEN flags.api_handler ELSE Handler
  /\ Namespace' = IF flags.api_namespace # << >>
                    THEN flags.api_namespace ELSE Namespace
  /\ others' = [v \in DOMAIN others |->
                  IF CtxString(flags, BeforeReads[v]) # ""
                  THEN CtxString(flags, BeforeReads[v]) ELSE others[v]]
  /\ pc' = "run"
  /\ UNCHANGED <<flags, nsRequiresAuth, Type, EnableRPC, apiNamespace,
                 routes, listening, reqs>>

\* cmd.go Before: the previous Before hook or granting the JWT system
\* rules fails; the action never runs.
BeforeFails ==
  /\ pc = "before"
  /\ pc' = "exited"
  /\ UNCHANGED <<others, flags, nsRequiresAuth, Handler, Namespace, Type, EnableRPC,
                 apiNamespace, routes, listening, reqs>>

(* api.go Run: the command's own flags.  The type is read before the     *)
(* namespace, whose ".<type>" suffix is trimmed once.  enable_rpc is a   *)
(* bool flag whose string form is never empty, so it is always copied.   *)
ApplyFlags ==
  /\ pc = "run"
  /\ LET t  == IF flags.type # << >> THEN flags.type ELSE Type
         ns == IF flags.namespace # << >>
                 THEN TrimSuffix(flags.namespace, <<Dot>> \o t)
                 ELSE Namespace
     IN /\ Handler' = IF flags.handler # "" THEN flags.handler ELSE Handler
        /\ Type' = t
        /\ Namespace' = ns
        /\ EnableRPC' = flags.enable_rpc
        /\ apiNamespace' = ns \o <<Dot>> \o t
  /\ pc' = "tls"
  /\ UNCHANGED <<others, flags, nsRequiresAuth, routes, listening, reqs>>

\* api.go Run: loading the TLS material fails; Run prints and returns.
TLSConfigError ==
  /\ pc = "tls"
  /\ flags.tls = "bad"
  /\ pc' = "exited"
  /\ UNCHANGED <<others, flags, nsRequiresAuth, Handler, Namespace, Type, EnableRPC,
                 apiNamespace, routes, listening, reqs>>

\* api.go Run: TLS and CORS server options are collected.
ConfigureServer ==
  /\ pc = "tls"
  /\ flags.tls # "bad"
  /\ pc' = "routes"
  /\ UNCHANGED <<others, flags, nsRequiresAuth, Handler, Namespace, Type, EnableRPC,
                 apiNamespace, routes, listening, reqs>>

ExactRoute(p, t) == [match |-> "exact", path |-> p, target |-> t]

\* the handler switch of Run: http and proxy share the templated path,
\* every unknown name falls to the default (meta) handler.
HandlerRoute(h) ==
  IF h \in {"http", "proxy"}
    THEN [match |-> "service", path |-> << >>, target |-> "http"]
    ELSE [match |-> "prefix", path |-> APIPath,
          target |-> IF h \in {"rpc", "api", "event", "web"} THEN h ELSE "meta"]

\* variant: the handler prefix registered before the fixed paths
RegisterRoutesPrefixFirst ==
  /\ pc = "routes"
  /\ routes' = <<HandlerRoute(Handler)>>
               \o (IF flags.enable_stats THEN <<ExactRoute(StatsPath, "stats")>>
                                         ELSE << >>)
               \o <<ExactRoute(RootPath, "root"),
                    ExactRoute(FaviconPath, "favicon")>>
               \o (IF EnableRPC THEN <<ExactRoute(RPCPath, "rawrpc")>> ELSE << >>)
  /\ pc' = "start"
  /\ UNCHANGED <<others, flags, nsRequiresAuth, Handler, Namespace, Type, EnableRPC,
                 apiNamespace, listening, reqs>>

(* api.go Run: the routes of the mux, in the order they are registered.  *)
RegisterRoutes ==
  /\ pc = "routes"
  /\ routes' = (IF flags.enable_stats THEN <<ExactRoute(StatsPath, "stats")>>
                                      ELSE << >>)
               \o <<ExactRoute(RootPath, "root"),
                    ExactRoute(FaviconPath, "favicon")>>
               \o (IF EnableRPC THEN <<ExactRoute(RPCPath, "rawrpc")>> ELSE << >>)
               \o <<HandlerRoute(Handler)>>
  /\ pc' = "start"
  /\ UNCHANGED <<others, flags, nsRequiresAuth, Handler, Namespace, Type, EnableRPC,
                 apiNamespace, listening, reqs>>

\* api.go Run: api.Start opens the listener, or fails and log.Fatal exits.
StartApi ==
  /\ pc = "start"
  /\ \/ /\ listening' = TRUE
        /\ pc' = "serving"
     \/ /\ pc' = "exited"
        /\ UNCHANGED listening
  /\ UNCHANGED <<others, flags, nsRequiresAuth, Handler, Namespace, Type, EnableRPC,
                 apiNamespace, routes, reqs>>

\* api.go Run: service.Run returns after a signal ...
ServiceStopped ==
  /\ pc = "serving"
  /\ pc' = "stopping"
  /\ UNCHANGED <<others, flags, nsRequiresAuth, Handler, Namespace, Type, EnableRPC,
                 apiNamespace, routes, listening, reqs>>

\* ... or with an error, and log.Fatal ends the process.
ServiceFails ==
  /\ pc = "serving"
  /\ pc' = "exited"
  /\ listening' = FALSE
  /\ UNCHANGED <<others, flags, nsRequiresAuth, Handler, Namespace, Type, EnableRPC,
                 apiNamespace, routes, reqs>>

\* api.go Run: api.Stop closes the listener; Run returns and the process ends.
StopApi ==
  /\ pc = "stopping"
  /\ listening' = FALSE
  /\ pc' = "exited"
  /\ UNCHANGED <<others, flags, nsRequiresAuth, Handler, Namespace, Type, EnableRPC,
                 apiNamespace, routes, reqs>>

-----------------------------------------------------------------------------
(* Requests, one goroutine each                                            *)

Accept(c) ==
  /\ listening
  /\ reqs[c].st = "idle"
  /\ \E r \in Requests :
       reqs' = [reqs EXCEPT ![c] = [IdleReq EXCEPT !.st = "accepted", !.req = r]]
  /\ UNCHANGED <<others, flags, nsRequiresAuth, pc, Handler, Namespace, Type,
                 EnableRPC, apiNamespace, routes, listening>>

(* The auth wrapper around the whole router (client/api/auth, spec 4.4):  *)
(* a bearer token is validated, a missing one passes as anonymous unless  *)
(* the namespace requires authentication.                                 *)
Authenticated(r) ==
  r.cred = "valid" \/ (r.cred = "none" /\ ~nsRequiresAuth)

Authorize(c) ==
  /\ pc # "exited"
  /\ reqs[c].st = "accepted"
  /\ reqs' = [reqs EXCEPT ![c] =
               IF Authenticated(@.req) THEN [@ EXCEPT !.st = "authorized"]
                                       ELSE [@ EXCEPT !.st = "done", !.code = 401]]
  /\ UNCHANGED <<others, flags, nsRequiresAuth, pc, Handler, Namespace, Type,
                 EnableRPC, apiNamespace, routes, listening>>

\* gorilla/mux: Path is an exact match, PathPrefix a prefix match, and the
\* templated "/{service:[a-zA-Z0-9]+}" prefix needs an alphanumeric run.
Matches(route, path) ==
  CASE route.match = "exact"   -> path = route.path
    [] route.match = "prefix"  -> IsPrefix(route.path, path)
    [] route.match = "service" -> Len(path) > 0 /\ ServicePart[path[1]] # ""

\* the first registered route that matches, 0 if none
FirstMatch(path) == SelectInSeq(routes, LAMBDA rt : Matches(rt, path))

\* the target of the first matching route, "notfound" if none matches
DispatchTarget(path) ==
  LET i == FirstMatch(path) IN IF i = 0 THEN "notfound" ELSE routes[i].target

(* The mux dispatches: the fixed handlers answer at once (the root one   *)
(* writes the version unless the method is OPTIONS), no match is a 404,  *)
(* the raw RPC and protocol handlers go on to resolve the service.       *)
Dispatched(r, t) ==
  IF t \in FixedTargets \ {"rawrpc"} \/ t = "notfound"
    THEN [r EXCEPT !.st = "done", !.reached = t,
                   !.code = IF t = "notfound" THEN 404 ELSE 200]
    ELSE [r EXCEPT !.st = "resolving", !.reached = t]

Dispatch(c) ==
  /\ pc # "exited"
  /\ reqs[c].st = "authorized"
  /\ reqs' = [reqs EXCEPT ![c] = Dispatched(@, DispatchTarget(@.req.path))]
  /\ UNCHANGED <<others, flags, nsRequiresAuth, pc, Handler, Namespace, Type,
                 EnableRPC, apiNamespace, routes, listening>>

\* variant: a service that is not found reported as a backend error
ResolveNotFoundAs502(c) ==
  /\ pc # "exited"
  /\ reqs[c].st = "resolving"
  /\ \/ reqs' = [reqs EXCEPT ![c].st = "done", ![c].code = 502]
     \/ reqs' = [reqs EXCEPT ![c].st = "calling", ![c].called = TRUE]
  /\ UNCHANGED <<others, flags, nsRequiresAuth, pc, Handler, Namespace, Type,
                 EnableRPC, apiNamespace, routes, listening>>

\* the handler resolves the service in the registry: not found is a 404,
\* otherwise the backend is called
Resolve(c) ==
  /\ pc # "exited"
  /\ reqs[c].st = "resolving"
  /\ \/ reqs' = [reqs EXCEPT ![c].st = "done", ![c].code = 404]
     \/ reqs' = [reqs EXCEPT ![c].st = "calling", ![c].called = TRUE]
  /\ UNCHANGED <<others, flags, nsRequiresAuth, pc, Handler, Namespace, Type,
                 EnableRPC, apiNamespace, routes, listening>>

\* variant: a failed backend call reported as 500
RespondInternalError(c) ==
  /\ pc # "exited"
  /\ reqs[c].st = "calling"
  /\ \E code \in {200, 500} :
       reqs' = [reqs EXCEPT ![c].st = "done", ![c].code = code]
  /\ UNCHANGED <<others, flags, nsRequiresAuth, pc, Handler, Namespace, Type,
                 EnableRPC, apiNamespace, routes, listening>>

\* the backend answers, or fails or times out (502); no retry
Respond(c) ==
  /\ pc # "exited"
  /\ reqs[c].st = "calling"
  /\ \E code \in {200, 502} :
       reqs' = [reqs EXCEPT ![c].st = "done", ![c].code = code]
  /\ UNCHANGED <<others, flags, nsRequiresAuth, pc, Handler, Namespace, Type,
                 EnableRPC, apiNamespace, routes, listening>>

\* the client reads the answer and may send another request
Reset(c) ==
  /\ reqs[c].st = "done"
  /\ reqs' = [reqs EXCEPT ![c] = IdleReq]
  /\ UNCHANGED <<others, flags, nsRequiresAuth, pc, Handler, Namespace, Type,
                 EnableRPC, apiNamespace, routes, listening>>

-----------------------------------------------------------------------------
Init ==
  /\ flags \in FlagSets
  /\ nsRequiresAuth \in BOOLEAN
  /\ pc = "before"
  /\ Handler = "meta"
  /\ Namespace = <<"go", Dot, "micro">>
  /\ Type = <<"api">>
  /\ EnableRPC = FALSE
  /\ apiNamespace = << >>
  /\ routes = << >>
  /\ listening = FALSE
  /\ reqs = [c \in Clients |-> IdleReq]
  /\ others = [v \in DOMAIN BeforeReads |-> None]

Lifecycle ==
  \/ Before \/ BeforeFails \/ ApplyFlags \/ TLSConfigError \/ ConfigureServer
  \/ RegisterRoutes \/ StartApi \/ ServiceStopped \/ ServiceFails \/ StopApi

RequestStep(c) ==
  Authorize(c) \/ Dispatch(c) \/ Resolve(c) \/ Respond(c)

Next ==
  \/ Lifecycle
  \/ \E c \in Clients : Accept(c) \/ RequestStep(c) \/ Reset(c)

\* the gateway serves until a signal or a failure, which may never come
Spec == Init /\ [][Next]_vars

-----------------------------------------------------------------------------
TypeOK ==
  /\ pc \in {"before", "run", "tls", "routes", "start", "serving",
             "stopping", "exited"}
  /\ Handler \in STRING
  /\ EnableRPC \in BOOLEAN
  /\ listening \in BOOLEAN
  /\ nsRequiresAuth \in BOOLEAN
  /\ \A c \in Clients :
       /\ reqs[c].st \in {"idle", "accepted", "authorized", "resolving",
                          "calling", "done"}
       /\ reqs[c].st # "idle" => reqs[c].req \in Requests
       /\ reqs[c].reached \in ProtocolKinds \cup FixedTargets \cup {"notfound", None}
       /\ reqs[c].code \in {0, 200, 401, 404, 502}

(* The gateway implements the spec's contract (ApiContract): the mux's    *)
(* first-match table over the registered routes is the spec's path table *)
(* for the configuration Before and Run built (the handler switch maps    *)
(* "proxy" to the http route and every unknown name to the meta handler), *)
(* and each request is answered once with a code the contract allows for  *)
(* its path and credentials: 401 for rejected credentials before any      *)
(* route, 404 for no route or no resolved service, 200 from a fixed path, *)
(* and a backend reply or 502 only after one backend call, never retried. *)
HandlerKind(h) ==
  CASE h \in {"http", "proxy"} -> "http"
    [] h \in {"rpc", "api", "event", "web"} -> h
    [] OTHER -> "meta"

\* an idle client, as the contract records it
IdleRequest == [st |-> "idle", req |-> None, called |-> FALSE, code |-> 0]

Contract == INSTANCE ApiContract WITH
  Requests <- [method : Methods, path : Paths, cred : Credentials],
  config <- [kind |-> HandlerKind(Handler), rpc |-> EnableRPC,
             stats |-> flags.enable_stats, auth |-> nsRequiresAuth],
  table <- IF routes = << >> THEN [p \in {} |-> "notfound"]
           ELSE [p \in Paths |-> DispatchTarget(p)],
  pending <- [c \in Clients |->
               IF reqs[c].st = "idle" THEN IdleRequest
               ELSE [st |-> IF reqs[c].st = "done" THEN "answered" ELSE "open",
                     req |-> reqs[c].req, called |-> reqs[c].called,
                     code |-> reqs[c].code]]

ContractRefined == Contract!Spec

(* Spec 3: "the type suffix, if already present at the tail of a          *)
(* configured namespace, is stripped before re-appending, preventing      *)
(* duplication": once the flags are applied, the API namespace is the     *)
(* configured namespace (from --namespace or --api_namespace) with one    *)
(* ".<type>" suffix removed, followed by ".<type>".                       *)
ConfiguredNamespace ==
  IF flags.namespace # << >> THEN flags.namespace
  ELSE IF flags.api_namespace # << >> THEN flags.api_namespace
  ELSE <<"go", Dot, "micro">>

ApiNamespaceTrimmed ==
  apiNamespace # << >> =>
    apiNamespace = TrimSuffix(ConfiguredNamespace, <<Dot>> \o Type) \o <<Dot>> \o Type

(* The web dashboard host flag (--web_url, MICRO_WEB_HOST, "Set the host *)
(* used for the web dashboard") reaches web.Host once Before has run.    *)
WebHostFollowsFlag ==
  pc \notin {"before", "exited"} /\ CtxString(flags, "web_url") # "" =>
    others.web_Host = CtxString(flags, "web_url")

(* Spec 8: "OPTIONS requests to any registered path return success with  *)
(* an empty body and never invoke a Protocol Handler."                    *)
OptionsNeverReachHandler ==
  \A c \in Clients :
    reqs[c].st # "idle" /\ reqs[c].req.method = "OPTIONS" =>
      reqs[c].reached \notin ProtocolKinds
=============================================================================

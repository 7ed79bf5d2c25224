-------------------------------- MODULE Proxy --------------------------------
(***************************************************************************)
(* The service proxy command, `micro proxy` (src/client/proxy/proxy.go,   *)
(* Run).  The main goroutine reads its flags (unsetting                   *)
(* MICRO_PROXY_ADDRESS first), builds and starts the router, applies the  *)
(* endpoint, checks TLS, picks proxy, client and server from the          *)
(* protocol, starts the proxy server, runs the internal service (which    *)
(* serves the debug muxer around the same proxy) until a signal, and      *)
(* stops the proxy server.  Meanwhile requests arriving at either server  *)
(* are forwarded; a forwarded call and the service router's start go      *)
(* through the go-micro client, which routes every call to                *)
(* MICRO_PROXY_ADDRESS when that variable is set.                          *)
(***************************************************************************)
EXTENDS Sequences, SequencesExt

CONSTANTS
  FlagSets,   \* the command lines the process may get
  None

VARIABLES
  flags,        \* the command line (and whether MICRO_PROXY_ADDRESS is set)
  pc,           \* where the main goroutine is in Run
  Address,      \* package variables of client/proxy
  Endpoint,
  Protocol,
  envSet,       \* MICRO_PROXY_ADDRESS is set in the process environment
  routerKind,   \* "local" or "service" router
  routerState,  \* "none", "created", "started"
  pinned,       \* the endpoint given to the proxy options, or None
  proxyKind,    \* "mucp" or "http" proxy, None before it is built
  proxyClient,  \* client of the mucp proxy: "default" or "mucp"
  serverKind,   \* "mucp" or "grpc" server, None before it is built
  srvState,     \* proxy server: "none", "listening", "stopped"
  svcState,     \* internal service: "none", "running", "stopped"
  forwarded,    \* some request has been forwarded
  exitStatus    \* "running", "ok" (Run returned) or "fatal"

vars == <<flags, pc, Address, Endpoint, Protocol, envSet, routerKind, routerState,
          pinned, proxyKind, proxyClient, serverKind, srvState, svcState,
          forwarded, exitStatus>>

GrpcScheme == <<"grpc", "://">>
HttpScheme == <<"http", "://">>

\* strings.TrimPrefix on token sequences
TrimPrefix(s, prefix) ==
  IF IsPrefix(prefix, s) THEN SubSeq(s, Len(prefix) + 1, Len(s)) ELSE s

\* the process ends through log.Fatal or os.Exit(1)
Fatal ==
  /\ pc' = "exited"
  /\ exitStatus' = "fatal"
  /\ srvState' = IF srvState = "listening" THEN "stopped" ELSE srvState
  /\ svcState' = IF svcState = "running" THEN "stopped" ELSE svcState

-----------------------------------------------------------------------------
\* variant: --address read from the environment after the unset
ReadFlagsAddressAfterUnset ==
  /\ pc = "flags"
  /\ envSet' = FALSE
  /\ Address' = IF flags.addressArg # "" THEN flags.addressArg ELSE Address
  /\ Endpoint' = flags.endpoint
  /\ Protocol' = IF flags.protocol # "" THEN flags.protocol ELSE Protocol
  /\ pc' = "router"
  /\ UNCHANGED <<flags, routerKind, routerState, pinned, proxyKind,
                 proxyClient, serverKind, srvState, svcState, exitStatus, forwarded>>

(* Run, first lines: unset MICRO_PROXY_ADDRESS, then copy the non-empty   *)
(* flags over the package variables.                                      *)
ReadFlags ==
  /\ pc = "flags"
  /\ envSet' = FALSE
  /\ Address' = IF flags.address # "" THEN flags.address ELSE Address
  /\ Endpoint' = flags.endpoint
  /\ Protocol' = IF flags.protocol # "" THEN flags.protocol ELSE Protocol
  /\ pc' = "router"
  /\ UNCHANGED <<flags, routerKind, routerState, pinned, proxyKind,
                 proxyClient, serverKind, srvState, svcState, exitStatus, forwarded>>

\* the router service is used when named or given an address
NewRouter ==
  /\ pc = "router"
  /\ routerKind' = IF \/ flags.router \in {"go.micro.router", "service"}
                      \/ flags.router_address # ""
                     THEN "service" ELSE "local"
  /\ routerState' = "created"
  /\ pc' = "startRouter"
  /\ UNCHANGED <<flags, Address, Endpoint, Protocol, envSet, pinned, proxyKind,
                 proxyClient, serverKind, srvState, svcState, exitStatus, forwarded>>

(* r.Start: the service router connects to the remote router through the *)
(* client.  Success leads on to the endpoint ...                          *)
StartRouter ==
  /\ pc = "startRouter"
  /\ routerState' = "started"
  /\ pc' = "endpoint"
  /\ UNCHANGED <<flags, Address, Endpoint, Protocol, envSet, routerKind, pinned,
                 proxyKind, proxyClient, serverKind, srvState, svcState, exitStatus, forwarded>>

\* variant: the start error is logged and Run carries on
StartRouterFailContinues ==
  /\ pc = "startRouter"
  /\ pc' = "endpoint"
  /\ UNCHANGED <<flags, Address, Endpoint, Protocol, envSet, routerKind, routerState,
                 pinned, proxyKind, proxyClient, serverKind, srvState, svcState,
                 exitStatus, forwarded>>

\* ... failure exits with status 1 before any listener exists.
StartRouterFails ==
  /\ pc = "startRouter"
  /\ Fatal
  /\ UNCHANGED <<flags, Address, Endpoint, Protocol, envSet, routerKind, routerState,
                 pinned, proxyKind, proxyClient, serverKind, forwarded>>

\* variant: any endpoint starting with "grpc" taken for the grpc scheme
SelectEndpointBarePrefix ==
  /\ pc = "endpoint"
  /\ IF Endpoint = << >>
       THEN UNCHANGED <<pinned, Protocol>>
     ELSE IF IsPrefix(<<"grpc">>, Endpoint)
       THEN /\ pinned' = TrimPrefix(Endpoint, GrpcScheme)
            /\ Protocol' = "grpc"
     ELSE IF IsPrefix(HttpScheme, Endpoint)
       THEN /\ pinned' = Endpoint
            /\ Protocol' = "http"
     ELSE /\ pinned' = Endpoint
          /\ Protocol' = "mucp"
  /\ pc' = "tls"
  /\ UNCHANGED <<flags, Address, Endpoint, envSet, routerKind, routerState, proxyKind,
                 proxyClient, serverKind, srvState, svcState, exitStatus, forwarded>>

(* A non-empty endpoint is pinned and overrides the protocol: grpc://     *)
(* is stripped, http:// and scheme-less endpoints are kept as given.      *)
SelectEndpoint ==
  /\ pc = "endpoint"
  /\ IF Endpoint = << >>
       THEN UNCHANGED <<pinned, Protocol>>
     ELSE IF IsPrefix(GrpcScheme, Endpoint)
       THEN /\ pinned' = TrimPrefix(Endpoint, GrpcScheme)
            /\ Protocol' = "grpc"
     ELSE IF IsPrefix(HttpScheme, Endpoint)
       THEN /\ pinned' = Endpoint
            /\ Protocol' = "http"
     ELSE /\ pinned' = Endpoint
          /\ Protocol' = "mucp"
  /\ pc' = "tls"
  /\ UNCHANGED <<flags, Address, Endpoint, envSet, routerKind, routerState, proxyKind,
                 proxyClient, serverKind, srvState, svcState, exitStatus, forwarded>>

\* loading the TLS material fails: log.Fatal, with the router running
TLSConfigError ==
  /\ pc = "tls"
  /\ flags.tls = "bad"
  /\ Fatal
  /\ UNCHANGED <<flags, Address, Endpoint, Protocol, envSet, routerKind, routerState,
                 pinned, proxyKind, proxyClient, serverKind, forwarded>>

\* variant: the protocol name used as the proxy kind, no default branch
BuildProxyNoDefault ==
  /\ pc = "tls"
  /\ flags.tls # "bad"
  /\ proxyKind' = IF Protocol = "http" THEN "http" ELSE Protocol
  /\ proxyClient' = IF Protocol = "mucp" THEN "mucp" ELSE "default"
  /\ serverKind' = IF Protocol \in {"http", "mucp"} THEN "mucp" ELSE "grpc"
  /\ pc' = "startServer"
  /\ UNCHANGED <<flags, Address, Endpoint, Protocol, envSet, routerKind, routerState,
                 pinned, srvState, svcState, exitStatus, forwarded>>

(* Server options (TLS, auth wrapper) and the protocol switch: http gets *)
(* the http proxy on the default server, mucp the mucp proxy with a mucp *)
(* client on the default server, anything else the mucp proxy on a grpc  *)
(* server.                                                                *)
BuildProxy ==
  /\ pc = "tls"
  /\ flags.tls # "bad"
  /\ proxyKind' = IF Protocol = "http" THEN "http" ELSE "mucp"
  /\ proxyClient' = IF Protocol = "mucp" THEN "mucp" ELSE "default"
  /\ serverKind' = IF Protocol \in {"http", "mucp"} THEN "mucp" ELSE "grpc"
  /\ pc' = "startServer"
  /\ UNCHANGED <<flags, Address, Endpoint, Protocol, envSet, routerKind, routerState,
                 pinned, srvState, svcState, exitStatus, forwarded>>

\* the muxer is set on the internal service and srv.Start opens the proxy
\* listener, or fails and log.Fatal exits
StartServer ==
  /\ pc = "startServer"
  /\ \/ /\ srvState' = "listening"
        /\ pc' = "serve"
        /\ UNCHANGED exitStatus
     \/ /\ pc' = "exited"
        /\ exitStatus' = "fatal"
        /\ UNCHANGED srvState
  /\ UNCHANGED <<flags, Address, Endpoint, Protocol, envSet, routerKind, routerState,
                 pinned, proxyKind, proxyClient, serverKind, svcState, forwarded>>

\* service.Run starts the internal service ...
ServiceStart ==
  /\ pc = "serve"
  /\ \/ /\ svcState' = "running"
        /\ pc' = "running"
        /\ UNCHANGED <<srvState, exitStatus>>
     \/ Fatal
  /\ UNCHANGED <<flags, Address, Endpoint, Protocol, envSet, routerKind, routerState,
                 pinned, proxyKind, proxyClient, serverKind, forwarded>>

\* ... and on a signal stops it and returns (an error is fatal)
ServiceStop ==
  /\ pc = "running"
  /\ \/ /\ svcState' = "stopped"
        /\ pc' = "stopServer"
        /\ UNCHANGED <<srvState, exitStatus>>
     \/ Fatal
  /\ UNCHANGED <<flags, Address, Endpoint, Protocol, envSet, routerKind, routerState,
                 pinned, proxyKind, proxyClient, serverKind, forwarded>>

\* srv.Stop closes the proxy listener and Run returns; the router is left
\* as it is.
StopServer ==
  /\ pc = "stopServer"
  /\ srvState' = "stopped"
  /\ pc' = "exited"
  /\ exitStatus' \in {"ok", "fatal"}
  /\ UNCHANGED <<flags, Address, Endpoint, Protocol, envSet, routerKind, routerState,
                 pinned, proxyKind, proxyClient, serverKind, svcState, forwarded>>

(* A request reaches the proxy server or the internal service's muxer and *)
(* is forwarded.  The mucp proxy calls through the go-micro client, the   *)
(* http proxy uses net/http.                                              *)
Forward ==
  /\ srvState = "listening" \/ svcState = "running"
  /\ forwarded' = TRUE
  /\ UNCHANGED <<flags, Address, pc, Endpoint, Protocol, envSet, routerKind,
                 routerState, pinned, proxyKind, proxyClient, serverKind,
                 srvState, svcState, exitStatus>>

-----------------------------------------------------------------------------
\* Address as Run finds it: the setup Before hook copied --proxy_address
BeforeAddress(f) == IF f.proxy_address # "" THEN f.proxy_address ELSE ":8081"

Init ==
  /\ flags \in FlagSets
  /\ pc = "flags"
  /\ Address = BeforeAddress(flags)
  /\ Endpoint = << >>
  /\ Protocol = "grpc"
  /\ envSet = flags.env
  /\ routerKind = None
  /\ routerState = "none"
  /\ pinned = None
  /\ proxyKind = None
  /\ proxyClient = None
  /\ serverKind = None
  /\ srvState = "none"
  /\ svcState = "none"
  /\ forwarded = FALSE
  /\ exitStatus = "running"

Next ==
  \/ ReadFlags \/ NewRouter \/ StartRouter \/ StartRouterFails
  \/ SelectEndpoint \/ TLSConfigError \/ BuildProxy \/ StartServer
  \/ ServiceStart \/ ServiceStop \/ StopServer \/ Forward

Spec == Init /\ [][Next]_vars

-----------------------------------------------------------------------------
TypeOK ==
  /\ pc \in {"flags", "router", "startRouter", "endpoint", "tls",
             "startServer", "serve", "running", "stopServer", "exited"}
  /\ Address # ""
  /\ routerKind \in {None, "local", "service"}
  /\ routerState \in {"none", "created", "started"}
  /\ proxyKind \in {None, "mucp", "http"}
  /\ proxyClient \in {None, "default", "mucp"}
  /\ serverKind \in {None, "mucp", "grpc"}
  /\ srvState \in {"none", "listening", "stopped"}
  /\ svcState \in {"none", "running", "stopped"}
  /\ forwarded \in BOOLEAN
  /\ exitStatus \in {"running", "ok", "fatal"}

(* Spec 5 and 8: a router that failed to start keeps every listener       *)
(* closed; while the proxy server or the internal service accepts         *)
(* requests, the router has been started.                                 *)
ListenersNeedRouter ==
  (srvState = "listening" \/ svcState = "running") => routerState = "started"

(* The proxy implements the spec's selector (ProxySelector): once the     *)
(* server is built, its proxy and server kinds give the protocol and the  *)
(* proxy options the pinned endpoint that spec 4.5 prescribes for the     *)
(* given endpoint and protocol flag.                                      *)
BuiltProtocol ==
  CASE serverKind = None  -> None
    [] proxyKind = "http" -> "http"
    [] serverKind = "grpc" -> "grpc"
    [] OTHER -> "mucp"

\* the endpoints and protocol flags the command lines give
FlagEndpoints == {f.endpoint : f \in FlagSets}
FlagProtocols == {f.protocol : f \in FlagSets}

Selector == INSTANCE ProxySelector WITH
              endpoint <- flags.endpoint,
              protocolFlag <- flags.protocol,
              protocol <- BuiltProtocol,
              pinned <- IF serverKind = None THEN None ELSE pinned,
              Endpoints <- FlagEndpoints,
              ProtocolFlags <- FlagProtocols,
              DefaultProtocol <- "grpc"

SelectorRefined == Selector!Spec

(* Run unsets MICRO_PROXY_ADDRESS so that the proxy's own client does not *)
(* call itself, but the other clients of the environment still send their *)
(* calls there.  So when the variable is set and no --address is on the   *)
(* command line, the proxy server listens at exactly that address,        *)
(* whatever --proxy_address says: the flags were resolved from the        *)
(* environment before the unset, and --address overrides the copy the     *)
(* Before hook made of --proxy_address.                                   *)
ProxyListensWhereClientsRoute ==
  srvState = "listening" /\ flags.envAddress # "" /\ flags.addressArg = ""
    => Address = flags.envAddress

(* Spec 5: "on exit, stop the listener, then stop the router/discovery   *)
(* client - reversing acquisition order": when Run returns normally the  *)
(* router it started has been stopped.                                   *)
RouterStoppedOnExit ==
  exitStatus = "ok" => routerState \notin {"created", "started"}
=============================================================================

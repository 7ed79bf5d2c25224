# TLA+ models of cz-micro

This directory holds TLA+ models of the `micro` command line of cz-micro, and
the TLC configurations that check them. The models are written from the Go
sources under `src/`. `PROJECT.json` maps every modelled definition to the
source lines it translates. It also lists the runs, the mutants that show each
property can fail, the findings and the hazards.

## 1. The system

`micro` is a single binary. `src/cmd/cmd.go` builds the command table, sorts
it, and installs a `Before` hook. Each sub-command then runs one long-lived
process built on go-micro.

| Part | Source | State and operations |
|---|---|---|
| Global setup | `cmd/cmd.go` | Declares the global flags, each with its environment variables. The `Before` hook copies some of them into package variables of the API gateway, proxy, web and router packages, sets the default store's database and table, and grants the JWT system rules. The command table is sorted by `commandOrder`. |
| API gateway (`micro api`) | `client/api/api.go` | Package variables `Handler`, `Namespace`, `Type`, `EnableRPC`, `APIPath`, `ProxyPath`. `Run` reads flags, builds the API namespace, configures TLS and CORS, and registers routes on a gorilla/mux router (stats, `/`, `/favicon.ico`, `/rpc`, then the handler route). It wraps the mux in the auth wrapper, then starts the server, runs the service and stops the server. Requests are served concurrently. |
| Proxy (`micro proxy`) | `client/proxy/proxy.go` | Unsets `MICRO_PROXY_ADDRESS` and reads flags. It picks and starts a router, then pins the endpoint and chooses the protocol (endpoint scheme first, then `--protocol`). It builds the proxy and its server, starts the server, runs the internal service, and stops the server. |
| Service runner (`micro service`) | `service/service.go` | Parses `--metadata` key=value entries and chooses a proxy from the prefix of `--endpoint`. With arguments, it starts a local runtime and creates the wrapped command. It serves until a signal, then runs the deferred `Delete`/`Stop`. |
| Store service (`micro store`) | `service/store/store.go`, `cli/databases.go` | Sets `Name`, `Address` and the default store's table. Installs `New(database, table)`, which writes `databases/<db>` and then `tables/<db>/<table>` into `micro/internal`. The CLI `databases` and `tables` commands each make one call and print the list. |
| Runtime, broker, debug, auth API | `service/*/…go` | Flag handling, then a manager or broker is started, a handler is served, and the manager is stopped after `service.Run`. |
| Health sidecar | `service/health/health.go` | `/health` calls `Debug.Health` on the checked service and answers `OK` or `NOT_HEALTHY`. |
| CLI client wrapper | `internal/client/client.go` | Adds the bearer token to outgoing calls. |

How the parts interact:

- `cmd.go`'s `Before` hook writes the gateway's and the proxy's package
  variables, and the default store's database, before the command's `Run`
  reads them. So the gateway, proxy and store modules each model the part of
  the hook that feeds them.
- A command's flags and the global flags may read the same environment
  variable: `MICRO_API_NAMESPACE`, `MICRO_API_HANDLER`, `MICRO_PROXY_ADDRESS`
  and `MICRO_ROUTER_ADDRESS` are each behind two flags. `CliFlags` resolves
  both from one environment. `MICRO_SERVER_ADDRESS` is the `--address`
  variable of runtime, broker, debug and store alike.
- The proxy and the service runner use go-micro's router, client and servers.
- The store service's `New` is called by the store handler, one goroutine per
  request. Clients' writes go through the same handler into the default
  store, and the CLI's listings read back what `New` wrote.

The hard behaviours are:

- the order in which routes are registered, since the first match wins;
- the flags written twice on the way to the gateway's namespace;
- an environment variable that must be unset before the first client call,
  while the proxy still listens where it points;
- a flag read by a name no flag is declared with;
- start-up failures between acquiring resources;
- shutdown that has to release what start-up acquired;
- ignored errors (`r.Create`, `Broker.Connect`);
- two writes per `New` under failures and concurrency, sharing a table with
  the default store;
- string conversions (namespace trimming, endpoint schemes, metadata
  splitting).

## 2. Modules

Strings whose structure matters are sequences of tokens. For example,
`"grpc://host:1"` is `<<"grpc", "://", "host", ":1">>`, and `"k=v=w"` is
`<<"k","=","v","=","w">>`. `strings.HasPrefix`, `TrimPrefix`, `TrimSuffix`,
`Split` and `Join` become operators over sequences, built from `IsPrefix`,
`IsSuffix` and `SelectInSeq` (SequencesExt). Go-micro library code (protocol
handlers, resolvers, servers, proxies, stores) appears only through the
outcomes it can produce, chosen nondeterministically.

**CliFlags.** This module has no state. It states how urfave/cli gives a flag
its value: the command line's value if the flag was given, else the first of
its environment variables that is set (set to `""` counts), else its default.
`ctx.String` of a name that no flag declares is `""` (`CtxString`). It also
holds the declarations the models read: `GlobalFlags` (`cmd.go`), `ApiFlags`
(`api.go` `Commands`), `ProxyFlags` (`proxy.go` `Commands`), and the
`Commands` flags of runtime, broker, debug, store and health (`RuntimeFlags`,
`BrokerFlags`, `DebugFlags`, `StoreFlags`, `HealthFlags`). The MC modules
build their command lines by resolving these declarations over small sets of
command lines and environments. A command line only gives names the
sub-command declares, because the parser refuses any other name. A name the
sub-command does not declare (debug's `profile`) reads as `""`.

**ApiGateway / MCApiGateway.** This module covers `cmd.go` `Before` and
`api.go` `Run`.

- Lifecycle actions:
  - `Before` and `BeforeFails` (the hook's writes and its failure exits).
    `Before` also copies `proxy_address`, `web_address`, `router_address`,
    `web_namespace` and `web_host` into `others`, by the names the hook
    reads (`BeforeReads`);
  - `ApplyFlags` (namespace trimming and `apiNamespace`);
  - `TLSConfigError` and `ConfigureServer` (CORS);
  - `RegisterRoutes` (the whole registration sequence, as a `routes`
    sequence);
  - `StartApi`, `ServiceStopped`, `ServiceFails` and `StopApi`.
- Request actions, per client:
  - `Accept`;
  - `Authorize` (the auth wrapper, modelled from spec 4.4 because its code is
    not under `src/`);
  - `Dispatch` (the first matching route, as gorilla/mux does);
  - `Resolve` (the resolver's 404 or a backend call);
  - `Respond` (200 or 502).
  The code of `Resolve` and `Respond` in `api.go` only builds the resolver and
  the handler. Which outcomes they have (not found, reply, backend error) is
  go-micro's behaviour, taken from spec 4.2 and 7.
  - `Reset`.
- `Contract == INSTANCE ApiContract WITH …` maps the gateway onto the
  abstract contract:
  - the configuration is the handler kind of `Handler` (`HandlerKind`),
    `EnableRPC`, `--enable_stats` and the namespace's auth policy;
  - the path table is the mux's first match over `routes`, once the routes
    are registered;
  - each client's request is open until its `reqs` entry is `done`.
  `ContractRefined` checks `Contract!Spec` as a property.

**ApiContract.** This is the abstract gateway of spec 4.2, 6, 7 and 8. It is
configured, fixes its path table once, and then answers each request exactly
once:
- 401 when the credentials are rejected;
- 404 when no path matches, or when the service is not found;
- 200 from a fixed path;
- on a handler path, the backend's reply or a 502, after exactly one
  backend call.

**ProxySelector.** This is the abstract selector of spec 4.5. From an endpoint
and a protocol flag, it picks the protocol and the pinned endpoint once.

**Proxy / MCProxy.** This module covers `proxy.go` `Run`. `Init` has
`Address` as the `Before` hook left it (`--proxy_address`, else `:8081`).
The actions are:

- `ReadFlags` (unsets the env variable, then copies `--address`, `--endpoint`
  and `--protocol`);
- `NewRouter`, `StartRouter` and `StartRouterFails`;
- `SelectEndpoint`;
- `TLSConfigError`;
- `BuildProxy` (the protocol switch);
- `StartServer`;
- `ServiceStart` and `ServiceStop`;
- `StopServer`;
- `Forward` (a call served while a listener is up).

`Selector == INSTANCE ProxySelector WITH …` maps the flags, the built protocol
and the pinned endpoint onto the abstract selector. `SelectorRefined` checks
`Selector!Spec` as a property.

**ServiceRunner / MCServiceRunner.** This module covers `service.go` `Run`.

- `Split` and `Join` are RECURSIVE operators. `ParseMetadata` is a `FoldLeft`
  of the loop body `AddEntry`.
- `ProxyFor` is the endpoint switch.
- The actions are `Configure`, `SelectProxy`, `StartWrapped` (runtime start,
  and a create that may fail with its error ignored), `ServiceRun`,
  `ServiceReturn` and `Cleanup` (the deferred `Delete`/`Stop`). Both errors
  are ignored, so `Cleanup` lets each call fail: the service may stay created
  and the runtime may stay started.

**StoreService / MCStoreService.** This module covers `store.go` `Run` and the
`New` closure, composed with what feeds and reads them.

- `Before` is the `Before` hook's store defaults: the database is
  `--store_database`, else `micro`. The table is `--store_table`, else the
  first argument (`BeforeTable`; for `micro store` that is `store`), else the
  app name (`cmd.go`).
- `Run` and `ServiceReturn` cover the lifecycle. `Run` sets the default table
  from `--store_table`, else `store`.
- Per client:
  - `CallNew` starts a call;
  - `WriteDatabase` and `WriteTable` are the two writes;
  - `WriteFails` is either write returning an error.
- `Write` is a client's write through the store handler into the default
  store. `Databases` and `Tables` are the CLI commands of `databases.go`,
  including the error when `tables` gets no `--database`. The handler's
  `Write`, `Databases` and `Tables` are outside `src/`. They are modelled from
  the store's design: a write goes to the default database and table, and the
  listings are prefix reads of `micro/internal` (`ListedDatabases`,
  `ListedTables`).
- Records are `[db, table, key]`, so writes to the wrong table are visible.
- `named` records what `New` was called for, and `printed` what the CLI
  printed.

**Services.** This module covers `Run` of the runtime, broker,
debug and auth API services. One process runs one of them, chosen by
`flags.cmd`.

- `Configure`: the `Name`/`Address` overrides and the runtime's `--profile`
  switch. For debug, it also makes the `done` channel and defers its close.
- Acquiring resources:
  - `StartManager` (runtime; exit 1 on failure);
  - `Connect` (broker; error ignored);
  - `NewHandlers` (debug stats and trace; fatal on failure);
  - `NoResources` (auth API).
- `ServiceRun` and `ServiceReturn`. On return, the runtime logs a
  `service.Run` error and goes on to stop the manager. The debug service
  exits on an error, which skips its deferred close.
- `StopManager` (exit 1 on failure).

**Health.** This module covers `health.go` `Run`.

- `Query` (with arguments: print and return).
- `Configure`, which includes the three fatal empty-value checks.
- `ListenFails`.
- Per client: `Accept`, `Abandon` (the client gives up, and the call is not
  cancelled because of `context.TODO`), `Reply` (error, `ok` or another
  status), `Respond` and `Reset`.

**CmdSetup / MCCmdSetup.** This module covers `cmd.go` `Setup` and the
`Before` hook.

- `Setup` picks any outcome of the unstable `sort.Sort` under `Less` (`Rank`
  is the `commandOrder` index, with `math.MaxInt32` when absent).
- `PreviousBefore` (exit 1), `StoreDefaults`, and `Grant` (one system rule per
  step, returning at the first error).
- `Action`: a registered command, a program found in PATH, or exit 1.

**ClientWrapper.** This module covers `client.go`.

- `New` reads the environment's token.
- `Begin` and `Call` model goroutines calling through the shared wrapper.
  `Call` sets the bearer token over the caller's metadata. The namespace branch
  is a no-op.

**MCMicroProcess.** One `micro` process runs one command for its whole life.
This module instantiates `Services`, `Health` and `ClientWrapper` side by
side, with `INSTANCE ... WITH` renaming the variables they share names for. A
variable `which` picks the kind of command in `Init`. The other two
components' variables stay `None`. The three state spaces are disjoint, so
they add up rather than multiply. `ReleasedInOrder` is the services'
property, restricted to the processes that run a service. `Health` and
`ClientWrapper` are checked for their type invariant and for reaching every
action. No guarantee about them is stated in the spec or the code (see
hazards H4 and H19), so no deeper property is claimed.

Each MC module gives the constants their values: small sets of flag values,
paths, endpoints and metadata entries. They include the edge cases the code
treats specially:

- empty values;
- a value that contains `=`;
- a host name that starts with a scheme word;
- a namespace that already ends in its type;
- every handler kind, including an unknown one.

## 3. Runs

| Run | Expect | Checks | What it shows |
|---|---|---|---|
| `api_gateway` (ApiGateway.cfg) | pass | `TypeOK`, `ApiNamespaceTrimmed`, `ContractRefined` | For every flag combination, the gateway implements the spec's contract. The registration-ordered mux's table is spec 4.2's path table, for every path. Every answer carries a code the spec's error taxonomy allows for that path and those credentials, and a backend is called at most once per request. With no flags on the command line and any of 16 environments (`MICRO_API_NAMESPACE`, `MICRO_API_TYPE`, `MICRO_API_HANDLER` unset or set), the API namespace carries its type suffix exactly once. The global `--api_namespace` and `micro api --namespace` read the same variable, and `Run` trims the command's value last. |
| `api_namespace` (ApiNamespace.cfg) | violation | `ApiNamespaceTrimmed` | `--api_namespace=com.ex.api` on the command line gives `com.ex.api.api`, because `Before` copies it untrimmed. |
| `api_options` (ApiOptions.cfg) | violation | `OptionsNeverReachHandler` | With CORS off, an OPTIONS request to a service path reaches the protocol handler, against spec 8. |
| `web_host` (WebHost.cfg) | violation | `WebHostFollowsFlag` | `Before` reads `ctx.String("web_host")`, but the flag is declared as `web_url` (env `MICRO_WEB_HOST`). The dashboard host given by flag or environment never reaches `web.Host`. |
| `proxy` (Proxy.cfg) | pass | `TypeOK`, `ListenersNeedRouter`, `ProxyListensWhereClientsRoute`, `SelectorRefined` | No listener is open without a started router. When that variable is set and `--address` is not given, the proxy listens at it, whatever `--proxy_address` says. The built proxy implements the spec 4.5 selector. |
| `proxy_shutdown` (ProxyShutdown.cfg) | violation | `RouterStoppedOnExit` | `Run` returns with the router still running, against spec 5's reverse-order shutdown. |
| `service_runner` (ServiceRunner.cfg) | pass | `TypeOK`, `MetadataParsed` | The metadata equals a reference key=value parse (first `=` splits, last entry wins, entries without `=` skipped). Every start, run and cleanup outcome is reached. |
| `service_endpoint` (ServiceEndpoint.cfg) | violation | `ProxyMatchesScheme` | `--endpoint=grpcbin:4` builds the grpc proxy: the switch tests bare prefixes, not `<scheme>://`. |
| `store_service` (StoreService.cfg) | pass | `TypeOK`, `TableImpliesDatabase`, `StoreImpliesRecorded`, `ListingShowsOnlyCreated` | Two concurrent callers, with any write failing, plus client writes to the default store and the CLI listings. A table is never recorded in `micro/internal` without its database. A caller that got a store has both records there. The CLI lists only databases and tables that `New` was called for. This holds for every store flag except the internal-table collision. |
| `store_internal` (StoreInternal.cfg) | violation | `ListingShowsOnlyCreated` | With `--store_table=internal` and no `--store_database`, the default store is `micro/internal`. A client's key `databases/x` then makes `micro store databases` list `x`, which `New` never created. |
| `micro_process` (MicroProcess.cfg) | pass | `TypeOK`, `ReleasedInOrder` | Services: for the runtime, broker, debug and auth API, and every start, run and stop failure, the runtime handler is served only while its manager runs. A normal return has stopped the manager and closed debug's `done`. Health and the CLI client reach every step, with two clients and two goroutines. |
| `cmd_setup` (CmdSetup.cfg) | pass | `TypeOK`, `RulesBeforeAction`, `HelpOrder` | No command runs under JWT auth before every system rule is granted, whatever grant fails. Help lists `commandOrder`'s commands first and in order, for every outcome of the unstable sort, checked against a filtering reference. |

The violation runs are findings (`PROJECT.json` "findings"):

- `api_namespace`, `api_options` and `proxy_shutdown`: the code departs from
  spec 3, 8 and 5.
- `service_endpoint`: the code contradicts the `--endpoint` usage text.
- `store_internal`: nothing reserves the internal table.
- `web_host`: a flag is read by the wrong name.

For each property of a passing run, `PROJECT.json` lists a mutant: a
plausible bug in the mapped code, which makes TLC report that property
violated. The mutants are:

- the prefix route registered first;
- a service that is not found answered as a backend error (502);
- the api command's namespace read from `MICRO_NAMESPACE`;
- `--address` read from the environment after the unset;
- a router failure that does not exit;
- a bare-prefix endpoint match;
- the second metadata piece only;
- the first write recording the wrong key;
- a write without `WriteTo`;
- the store database defaulted to `micro` even when given;
- a `service.Run` error that skips the manager stop;
- a failed grant skipped;
- a rank of 0 for unlisted commands;
- the system-rule loop running one index past the end.

**Bounds.**

- The gateway uses one client and six paths. Together these cover every route
  kind, a shadowed service name and an unmatched path, across every handler,
  namespace, and rpc/stats/cors/tls value. The request path is per client, and
  clients share only read-only configuration, so one client shows every
  dispatch outcome. The environment part adds 16 environments. With two
  values per variable and one value that already ends in the type, they cover
  every route by which the namespace and type reach `Run`.
- The proxy uses six endpoints (each scheme, a plain address, and scheme-like
  host names) and five protocol flags. The listen address comes from
  `--address` given or not, `--proxy_address` given or not, and
  `MICRO_PROXY_ADDRESS` set or not, each with its own value, so every
  precedence between the three shows.
- The service runner uses up to two metadata entries from six edge-case
  entries. Two entries are enough for an override and a skip.
- The store uses two clients and two databases, with symmetry over both. That
  is enough for two interleaved calls on the same database or on different
  ones. There are two client keys: one that reads as an internal
  `databases/` record, and a plain one. Every store flag is set or unset.
  The internal-table collision is left to `store_internal`, which needs one
  client.
- The micro process enumerates all four service sub-commands. Each runs with
  `--server_name`, `--address` and `--profile` given or not, wherever the
  sub-command declares them, and with `MICRO_SERVER_ADDRESS` set or unset.
  Every failure branch is included. The health sidecar's three flags are
  each given or not, and `MICRO_HEALTH_ADDRESS` is set or unset. The store's
  address likewise comes from `--address` or `MICRO_SERVER_ADDRESS`. Health uses two clients, which is
  enough for a reply to one request to interleave with another client giving
  up. The CLI client uses two goroutines and three environments, each with or
  without a stored token.
- CmdSetup uses six commands (two listed in `commandOrder`, four not), which
  gives 24 sort outcomes, three system rules, and a first argument that is
  empty, a command, a program in PATH, or unknown.

**Fairness.** No run checks a liveness property, so none is assumed. The
gateway and the health sidecar would answer every request only if every
backend call returned. The code sets no deadline of its own: it relies on the
go-micro client's request timeout, which is outside `src/` (hazards H4 and
H19). Every process may legitimately stop when it exits or when its service
stops, so the cfgs set `CHECK_DEADLOCK FALSE`.

**Assumptions.**

- CORS handling is go-micro's, so with `enable_cors` on, OPTIONS requests are
  answered before the mux. The model leaves them out in that case.
- The default proxy protocol is grpc (spec 6).
- urfave/cli resolves every flag from the command line and environment when
  it parses them, before any action runs (`CliFlags`). That is why the
  proxy's `--address` still holds `MICRO_PROXY_ADDRESS` after `Run` unsets it.
- The store handler (outside `src/`) writes a key with no database or table to
  the default store, and lists databases and tables by prefix reads of
  `micro/internal`.

## 4. Not modelled, and the plan

Not modelled:

- the plugin registration, a single map assignment;
- the generated `log.pb.go`;
- `buildVersion` and `cmd.Init`: version string formatting, and the call that
  hands the app to go-micro's `cmd`;
- the `Before` hook's copy into the router package, whose reader is outside
  `src/`;
- the debug `trace` command and the handlers of the runtime, debug, store and
  auth services, whose code is outside `src/`;
- go-micro internals (servers, routers, stores, proxies, brokers);
- addresses shared between processes. The health sidecar's default `:8088`
  is the runtime's default, and `MICRO_SERVER_ADDRESS` is the address
  variable of runtime, broker, debug and store alike. Each module models one
  process, and nothing models a host's sockets. Both are listed as hazards.

The broker's ignored `Connect` error, and its ignored `service.Run` error, are
modelled (`Connect` keeps both outcomes). Nothing states that the broker must
be connected before serving, so no property checks it.

Next steps:

1. Widen the gateway to two concurrent clients. The contract refinement
   already takes 70 s with one client.
2. Model a host's socket table, and compose two processes on it, for the
   address clashes above.
3. Model the go-micro client's request timeout as an action of its own. Then
   "every request is answered" for the gateway and `/health` could be checked
   under weak fairness of that timeout.

----------------------------- MODULE ApiContract -----------------------------
(***************************************************************************)
(* What the API gateway promises a client (spec 4.2, 6, 7 and 8), without *)
(* the mux, the handler chain or the start-up steps.  The gateway is      *)
(* configured (handler kind, optional /rpc and /stats, whether the API    *)
(* namespace requires authentication), then fixes its path table once;   *)
(* after that each request is answered exactly once:                     *)
(*   - 401 when its credentials are rejected, and nothing else happens;  *)
(*   - 404 when no path of the table is its own;                         *)
(*   - 200 from a fixed path ("/", "/favicon.ico", "/stats");            *)
(*   - on a handler path (or /rpc) the service is resolved: not found is *)
(*     a 404; otherwise the backend is called at most once, with no      *)
(*     retry, and the answer is its reply (200) or a 502.                *)
(* Paths are sequences of segments; "/" is << >>.                        *)
(***************************************************************************)
EXTENDS Sequences

CONSTANTS
  Paths,        \* request paths
  ServicePart,  \* segment -> its leading [a-zA-Z0-9]+ run ("" if none)
  Clients,      \* HTTP clients
  Requests,     \* [method, path, cred] of the requests clients may send
  None

VARIABLES
  config,   \* the configuration: handler kind, rpc, stats, auth
  table,    \* the path table once fixed: path -> target; NoTable before
  pending   \* per client: idle, open or answered; its request, whether a
            \* backend was called, and the answer

vars == <<config, table, pending>>

Kinds        == {"rpc", "api", "event", "http", "web", "meta"}
FixedTargets == {"root", "favicon", "stats"}
Configs      == [kind : Kinds, rpc : BOOLEAN, stats : BOOLEAN, auth : BOOLEAN]

NoTable == [p \in {} |-> "notfound"]
Idle    == [st |-> "idle", req |-> None, called |-> FALSE, code |-> 0]

\* the path table of spec 4.2 and 6: the fixed paths, /rpc and /stats when
\* enabled, every other path to the handler; http needs a service segment
Target(cfg, path) ==
  CASE path = << >>                          -> "root"
    [] path = <<"favicon.ico">>              -> "favicon"
    [] path = <<"rpc">> /\ cfg.rpc           -> "rawrpc"
    [] path = <<"stats">> /\ cfg.stats       -> "stats"
    [] cfg.kind = "http" /\ (path = << >> \/ ServicePart[path[1]] = "")
                                             -> "notfound"
    [] OTHER                                 -> cfg.kind

\* spec 8: a valid token, or none where the namespace admits anonymous calls
Admitted(cfg, r) == r.cred = "valid" \/ (r.cred = "none" /\ ~cfg.auth)

\* the codes an answer may carry, given the request and whether it was forwarded
Allowed(cfg, tbl, p) ==
  LET t == tbl[p.req.path] IN
  CASE ~Admitted(cfg, p.req)  -> {401}
    [] t = "notfound"         -> {404}
    [] t \in FixedTargets     -> {200}
    [] p.called               -> {200, 502}
    [] OTHER                  -> {404}

Init ==
  /\ config \in Configs
  /\ table = NoTable
  /\ pending = [c \in Clients |-> Idle]

\* start-up: the configuration changes until the table is fixed; the auth
\* policy of the namespace is not the gateway's to change
Reconfigure ==
  /\ table = NoTable
  /\ \E cfg \in Configs : cfg.auth = config.auth /\ config' = cfg
  /\ UNCHANGED <<table, pending>>

FixTable ==
  /\ table = NoTable
  /\ table' = [p \in Paths |-> Target(config, p)]
  /\ UNCHANGED <<config, pending>>

Receive(c) ==
  /\ table # NoTable
  /\ pending[c].st = "idle"
  /\ \E r \in Requests :
       pending' = [pending EXCEPT ![c] = [Idle EXCEPT !.st = "open", !.req = r]]
  /\ UNCHANGED <<config, table>>

\* one backend call for an admitted request on a handler path
Forward(c) ==
  /\ pending[c].st = "open" /\ ~pending[c].called
  /\ Admitted(config, pending[c].req)
  /\ table[pending[c].req.path] \notin FixedTargets \cup {"notfound"}
  /\ pending' = [pending EXCEPT ![c].called = TRUE]
  /\ UNCHANGED <<config, table>>

Answer(c) ==
  /\ pending[c].st = "open"
  /\ \E code \in Allowed(config, table, pending[c]) :
       pending' = [pending EXCEPT ![c].st = "answered", ![c].code = code]
  /\ UNCHANGED <<config, table>>

\* the client has read the answer
Done(c) ==
  /\ pending[c].st = "answered"
  /\ pending' = [pending EXCEPT ![c] = Idle]
  /\ UNCHANGED <<config, table>>

Next ==
  \/ Reconfigure \/ FixTable
  \/ \E c \in Clients : Receive(c) \/ Forward(c) \/ Answer(c) \/ Done(c)

Spec == Init /\ [][Next]_vars
=============================================================================

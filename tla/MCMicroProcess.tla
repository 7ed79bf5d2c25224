---------------------------- MODULE MCMicroProcess ----------------------------
(***************************************************************************)
(* One micro process runs one command (src/cmd/cmd.go dispatches to the   *)
(* command's Action): one of the services of Services (runtime, broker,   *)
(* debug, auth API), the health sidecar of Health, or a CLI command that  *)
(* calls services through the internal client of ClientWrapper.  The      *)
(* process is one of the three for its whole life; the variables of the   *)
(* other two are None and never change.  The three state spaces are       *)
(* checked in one run, side by side.                                      *)
(***************************************************************************)
EXTENDS TLC, CliFlags

CONSTANTS
  Clients,   \* HTTP clients of the sidecar's /health
  Callers,   \* goroutines calling through the CLI's client
  Envs,      \* environment names of the CLI config
  Tokens,    \* tokens stored per environment
  None

VARIABLES
  which,                                              \* the kind of command
  flags, pc, conf, manager, connected, done, serving, exitCode,   \* Services
  hflags, hpc, hconf, reqs,                           \* Health
  config, wrapper, calls, sent                        \* ClientWrapper

svars == <<flags, pc, conf, manager, connected, done, serving, exitCode>>
hvars == <<hflags, hpc, hconf, reqs>>
wvars == <<config, wrapper, calls, sent>>
vars == <<which, svars, hvars, wvars>>

\* the flags each service sub-command declares (auth's Commands are not
\* under src: the auth API reads no flag of its own)
ServiceCommandFlags ==
  [runtime |-> RuntimeFlags, broker |-> BrokerFlags, debug |-> DebugFlags,
   auth |-> [n \in {} |-> Flag(<< >>, "")]]

\* command lines: --address and --profile given or not; a name the
\* sub-command does not declare is refused by the parser, so only declared
\* names are given.  Environments: MICRO_SERVER_ADDRESS set or not.
NoArgs == [n \in {} |-> ""]
ArgsOf(a, p) == [n \in {x \in {"address", "profile"} :
                        (x = "address" /\ a # "") \/ (x = "profile" /\ p # "")} |->
                  IF n = "address" THEN a ELSE p]
MCServiceArgs == {ArgsOf(a, p) : a \in {"", ":9000"}, p \in {"", "local", "bogus"}}
MCServiceEnvs == {NoArgs, [n \in {"MICRO_SERVER_ADDRESS"} |-> ":7000"]}

\* the service sub-command with its --server_name (a go-micro global flag)
\* and the address and profile its context resolves
ServiceFlags ==
  UNION {{LET ctx == ResolveFlags(ServiceCommandFlags[c], a, e)
          IN [cmd |-> c, server_name |-> n, address |-> CtxString(ctx, "address"),
              profile |-> CtxString(ctx, "profile")] :
            n \in {"", "my.svc"}, e \in MCServiceEnvs,
            a \in {x \in MCServiceArgs : DOMAIN x \subseteq DOMAIN ServiceCommandFlags[c]}} :
           c \in {"runtime", "broker", "debug", "auth"}}

\* health: arguments or not; --address or MICRO_HEALTH_ADDRESS, each or
\* none; --check_service and --check_address given or not
MCHealthEnvs == {NoArgs, [n \in {"MICRO_HEALTH_ADDRESS"} |-> ":9188"]}
MCHealthArgs ==
  {[n \in {x \in {"address", "check_service", "check_address"} :
            (x = "address" /\ a) \/ (x = "check_service" /\ s)
            \/ (x = "check_address" /\ d)} |->
      CASE n = "address" -> ":9088" [] n = "check_service" -> "greeter"
        [] OTHER -> ":9090"] : a, s, d \in BOOLEAN}
MCHealthFlags ==
  {LET ctx == ResolveFlags(HealthFlags, h, e)
   IN [args |-> g, address |-> ctx.address, check_service |-> ctx.check_service,
       check_address |-> ctx.check_address] :
     g \in BOOLEAN, h \in MCHealthArgs, e \in MCHealthEnvs}

S == INSTANCE Services WITH FlagSets <- ServiceFlags
H == INSTANCE Health WITH flags <- hflags, pc <- hpc, conf <- hconf,
                          FlagSets <- MCHealthFlags
W == INSTANCE ClientWrapper

\* the variables of a component the process does not run
NoService == /\ flags = None /\ pc = None /\ conf = None /\ manager = None
             /\ connected = None /\ done = None /\ serving = None
             /\ exitCode = None
NoHealth == hflags = None /\ hpc = None /\ hconf = None /\ reqs = None
NoClient == config = None /\ wrapper = None /\ calls = None /\ sent = None

Init ==
  \/ which = "service" /\ S!Init /\ NoHealth /\ NoClient
  \/ which = "health" /\ H!Init /\ NoService /\ NoClient
  \/ which = "client" /\ W!Init /\ NoService /\ NoHealth

Next ==
  \/ which = "service" /\ S!Next /\ UNCHANGED <<which, hvars, wvars>>
  \/ which = "health" /\ H!Next /\ UNCHANGED <<which, svars, wvars>>
  \/ which = "client" /\ W!Next /\ UNCHANGED <<which, svars, hvars>>

\* each command runs until it exits or is stopped
Spec == Init /\ [][Next]_vars

-----------------------------------------------------------------------------
TypeOK ==
  /\ which \in {"service", "health", "client"}
  /\ which = "service" => S!TypeOK
  /\ which = "health" => H!TypeOK
  /\ which = "client" => W!TypeOK

(* Services: the runtime handler is served only while its manager runs,  *)
(* a normal return comes after manager.Stop, and the debug service       *)
(* returns only with done closed (Services!ReleasedInOrder).             *)
ReleasedInOrder == which = "service" => S!ReleasedInOrder

=============================================================================

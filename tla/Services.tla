------------------------------- MODULE Services -------------------------------
(***************************************************************************)
(* The `micro runtime`, `micro broker`, `micro debug` and auth API         *)
(* services (src/service/{runtime,broker,debug,auth/api}).  One process    *)
(* runs one of them: Run overrides the package variables Name and Address  *)
(* from the flags, acquires what the service needs (the runtime manager,   *)
(* the broker connection, the debug stats and trace handlers with their    *)
(* done channel), serves with service.Run until it stops, and then         *)
(* releases what it acquired.  log.Fatal and os.Exit end the process       *)
(* without running deferred functions.                                     *)
(***************************************************************************)
EXTENDS Naturals

CONSTANTS
  FlagSets,  \* the command lines the process may get
  None

VARIABLES
  flags,       \* the command line; flags.cmd is the sub-command
  pc,          \* where Run is
  conf,        \* Name, Address and the runtime's profile after the flags
  manager,     \* runtime manager: "none", "started", "stopped", "failed"
  connected,   \* broker: did Connect succeed (its error is ignored)
  done,        \* debug: the done channel: "none", "open", "closed"
  serving,     \* service.Run is serving the registered handler
  exitCode     \* None while running, 0 when Run returned, 1 on exit

vars == <<flags, pc, conf, manager, connected, done, serving, exitCode>>

\* the package variables' initial values
Defaults == [runtime |-> [name |-> "go.micro.runtime", address |-> ":8088"],
             broker  |-> [name |-> "go.micro.broker",  address |-> ":8001"],
             debug   |-> [name |-> "go.micro.debug",   address |-> ":8089"],
             auth    |-> [name |-> "go.micro.api.auth", address |-> ":8011"]]

\* Name and Address before Run, with no profile chosen
InitialConf(c) == [name |-> Defaults[c].name, address |-> Defaults[c].address,
                   profile |-> None]

Profiles == {"local", "server", "kubernetes", "platform"}

\* variant: the flag used as the profile name without the switch
ProfileUnchecked(p) == p

\* the switch on --profile: an unknown profile leaves prof nil
Profile(p) == IF p \in Profiles THEN p ELSE None

\* a flag overrides a package variable only when it is non-empty
Override(flag, var) == IF flag # "" THEN flag ELSE var

\* log.Fatal / os.Exit(1): the process ends, deferred functions do not run
Exit == /\ pc' = "exited" /\ exitCode' = 1 /\ serving' = FALSE

\* the deferred functions have run and Run returned
Return == /\ pc' = "returned" /\ exitCode' = 0 /\ serving' = FALSE

-----------------------------------------------------------------------------
(* Run up to the acquisition: flag overrides (the auth API reads none),  *)
(* the runtime's profile and source, and the debug service's done channel *)
(* made and its close deferred.                                          *)
Configure ==
  /\ pc = "start"
  /\ LET d == Defaults[flags.cmd]
     IN conf' = IF flags.cmd = "auth" THEN InitialConf("auth")
                ELSE [name |-> Override(flags.server_name, d.name),
                      address |-> Override(flags.address, d.address),
                      profile |-> IF flags.cmd = "runtime"
                                  THEN Profile(flags.profile) ELSE None]
  /\ done' = IF flags.cmd = "debug" THEN "open" ELSE "none"
  /\ pc' = "acquire"
  /\ UNCHANGED <<flags, manager, connected, serving, exitCode>>

\* runtime: manager.Start; a failure logs and exits with status 1
StartManager ==
  /\ pc = "acquire" /\ flags.cmd = "runtime"
  /\ \/ manager' = "started" /\ pc' = "serve" /\ UNCHANGED <<serving, exitCode>>
     \/ manager' = "failed" /\ Exit
  /\ UNCHANGED <<flags, conf, connected, done>>

\* broker: Connect, whose error is ignored
Connect ==
  /\ pc = "acquire" /\ flags.cmd = "broker"
  /\ connected' \in BOOLEAN
  /\ pc' = "serve"
  /\ UNCHANGED <<flags, conf, manager, done, serving, exitCode>>

\* debug: the stats and then the trace handler; either failing is fatal
NewHandlers ==
  /\ pc = "acquire" /\ flags.cmd = "debug"
  /\ \/ pc' = "serve" /\ UNCHANGED <<serving, exitCode>>
     \/ Exit
  /\ UNCHANGED <<flags, conf, manager, connected, done>>

\* the auth API acquires nothing
NoResources ==
  /\ pc = "acquire" /\ flags.cmd = "auth"
  /\ pc' = "serve"
  /\ UNCHANGED <<flags, conf, manager, connected, done, serving, exitCode>>

\* register the handler and call service.Run
ServiceRun ==
  /\ pc = "serve"
  /\ serving' = TRUE
  /\ pc' = "running"
  /\ UNCHANGED <<flags, conf, manager, connected, done, exitCode>>

\* variant: a failed service.Run returns before stopping the manager
ServiceReturnSkipsStop ==
  /\ pc = "running"
  /\ \E failed \in BOOLEAN :
       CASE flags.cmd = "runtime" /\ ~failed ->
              /\ pc' = "release" /\ serving' = FALSE
              /\ UNCHANGED <<done, exitCode>>
         [] flags.cmd = "debug" /\ failed -> Exit /\ UNCHANGED done
         [] flags.cmd = "debug" -> Return /\ done' = "closed"
         [] OTHER -> Return /\ UNCHANGED done
  /\ UNCHANGED <<flags, conf, manager, connected>>

(* service.Run returns, with or without an error.  The runtime logs the   *)
(* error and goes on to stop the manager; the debug service exits on an   *)
(* error and otherwise returns, closing done; broker and auth API return. *)
ServiceReturn ==
  /\ pc = "running"
  /\ \E failed \in BOOLEAN :
       CASE flags.cmd = "runtime" ->
              /\ pc' = "release" /\ serving' = FALSE
              /\ UNCHANGED <<done, exitCode>>
         [] flags.cmd = "debug" /\ failed -> Exit /\ UNCHANGED done
         [] flags.cmd = "debug" -> Return /\ done' = "closed"
         [] OTHER -> Return /\ UNCHANGED done
  /\ UNCHANGED <<flags, conf, manager, connected>>

\* runtime: manager.Stop; a failure logs and exits with status 1
StopManager ==
  /\ pc = "release"
  /\ \/ manager' = "stopped" /\ Return
     \/ manager' = "failed" /\ Exit
  /\ UNCHANGED <<flags, conf, connected, done>>

Init ==
  /\ flags \in FlagSets
  /\ pc = "start"
  /\ conf = InitialConf(flags.cmd)
  /\ manager = "none"
  /\ connected = FALSE
  /\ done = "none"
  /\ serving = FALSE
  /\ exitCode = None

Next ==
  \/ Configure \/ StartManager \/ Connect \/ NewHandlers \/ NoResources
  \/ ServiceRun \/ ServiceReturn \/ StopManager

\* a service serves until it is stopped, which may never happen
Spec == Init /\ [][Next]_vars

-----------------------------------------------------------------------------
TypeOK ==
  /\ pc \in {"start", "acquire", "serve", "running", "release", "returned",
             "exited"}
  /\ conf.profile \in Profiles \cup {None}
  /\ manager \in {"none", "started", "stopped", "failed"}
  /\ done \in {"none", "open", "closed"}
  /\ exitCode \in {None, 0, 1}

(* The runtime handler drives the manager: it is registered and served  *)
(* only while the manager is started, and Run returns normally (status   *)
(* 0) only after the manager was stopped, whether or not service.Run     *)
(* failed.  The debug service returns only with its done channel closed, *)
(* so its cache, stats and trace loops are told to stop.                 *)
ReleasedInOrder ==
  /\ flags.cmd = "runtime" /\ serving => manager = "started"
  /\ exitCode = 0 /\ flags.cmd = "runtime" => manager = "stopped"
  /\ exitCode = 0 /\ flags.cmd = "debug" => done = "closed"

=============================================================================

-------------------------------- MODULE Health --------------------------------
(***************************************************************************)
(* The health sidecar (src/service/health/health.go).  With arguments,    *)
(* Run prints a health query and returns.  Otherwise it reads the checked *)
(* service's name and address and its own listen address, exits when one *)
(* is empty, registers /health and serves until ListenAndServe fails.     *)
(* Each /health request runs in its own goroutine: it calls Debug.Health  *)
(* on the checked service with context.TODO, so a client that gives up    *)
(* does not cancel the call, and answers 200 OK only for a reply without  *)
(* error whose status is "ok"; anything else is 500 NOT_HEALTHY.          *)
(***************************************************************************)
EXTENDS Naturals

CONSTANTS
  Clients,   \* concurrent HTTP clients of /health
  FlagSets,  \* the command lines the process may get
  None

VARIABLES
  flags,      \* the command line
  pc,         \* where Run is
  conf,       \* healthAddress, serverName, serverAddress
  reqs        \* per client: its /health request

vars == <<flags, pc, conf, reqs>>

\* the replies of Debug.Health: a call error, or a status
Replies == {"error", "ok", "not_ok"}

IdleReq == [st |-> "idle", reply |-> None, code |-> None, body |-> None,
            gone |-> FALSE]

-----------------------------------------------------------------------------
\* with arguments: print the query for the named service and return
Query ==
  /\ pc = "start" /\ flags.args
  /\ pc' = "returned"
  /\ UNCHANGED <<flags, conf, reqs>>

(* Read the flags into the package variables; an empty health address,  *)
(* service name or service address is fatal, otherwise /health is        *)
(* registered and ListenAndServe starts.                                 *)
Configure ==
  /\ pc = "start" /\ ~flags.args
  /\ conf' = [healthAddress |-> IF flags.address # "" THEN flags.address
                                                      ELSE ":8088",
              serverName |-> flags.check_service,
              serverAddress |-> flags.check_address]
  /\ pc' = IF \E f \in {"healthAddress", "serverName", "serverAddress"} :
                conf'[f] = ""
           THEN "exited" ELSE "serving"
  /\ UNCHANGED <<flags, reqs>>

\* ListenAndServe returns an error (address in use): log.Fatal
ListenFails ==
  /\ pc = "serving"
  /\ pc' = "exited"
  /\ UNCHANGED <<flags, conf, reqs>>

\* a client sends GET /health
Accept(c) ==
  /\ pc = "serving"
  /\ reqs[c].st = "idle"
  /\ reqs' = [reqs EXCEPT ![c] = [IdleReq EXCEPT !.st = "calling"]]
  /\ UNCHANGED <<flags, pc, conf>>

\* the client gives up; the handler's call goes on (context.TODO)
Abandon(c) ==
  /\ reqs[c].st \in {"calling", "replied"}
  /\ ~reqs[c].gone
  /\ reqs' = [reqs EXCEPT ![c].gone = TRUE]
  /\ UNCHANGED <<flags, pc, conf>>

(* client.Call returns: an error, or a reply with its status.  A call    *)
(* that never returns is a request that never takes this step.           *)
Reply(c) ==
  /\ pc = "serving"
  /\ reqs[c].st = "calling"
  /\ \E r \in Replies : reqs' = [reqs EXCEPT ![c].st = "replied",
                                             ![c].reply = r]
  /\ UNCHANGED <<flags, pc, conf>>

\* err != nil || rsp.Status != "ok": 500 NOT_HEALTHY, else 200 OK
Respond(c) ==
  /\ pc = "serving"
  /\ reqs[c].st = "replied"
  /\ reqs' = [reqs EXCEPT ![c].st = "answered",
                ![c].code = IF reqs[c].reply = "ok" THEN 200 ELSE 500,
                ![c].body = IF reqs[c].reply = "ok" THEN "OK" ELSE "NOT_HEALTHY"]
  /\ UNCHANGED <<flags, pc, conf>>

\* the client reads the answer (if it is still there) and may ask again
Reset(c) ==
  /\ reqs[c].st = "answered"
  /\ reqs' = [reqs EXCEPT ![c] = IdleReq]
  /\ UNCHANGED <<flags, pc, conf>>

Init ==
  /\ flags \in FlagSets
  /\ pc = "start"
  /\ conf = [healthAddress |-> ":8088", serverName |-> "", serverAddress |-> ""]
  /\ reqs = [c \in Clients |-> IdleReq]

\* the handler goroutine of one request
RequestStep(c) == Reply(c) \/ Respond(c)

Next ==
  \/ Query \/ Configure \/ ListenFails
  \/ \E c \in Clients : Accept(c) \/ Abandon(c) \/ RequestStep(c) \/ Reset(c)

\* the sidecar serves until it fails or is stopped
Spec == Init /\ [][Next]_vars

-----------------------------------------------------------------------------
TypeOK ==
  /\ pc \in {"start", "serving", "returned", "exited"}
  /\ \A c \in Clients :
       /\ reqs[c].st \in {"idle", "calling", "replied", "answered"}
       /\ reqs[c].code \in {None, 200, 500}

=============================================================================

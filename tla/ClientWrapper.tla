---------------------------- MODULE ClientWrapper ----------------------------
(***************************************************************************)
(* The CLI's client (src/internal/client/client.go).  New reads the auth  *)
(* token stored in the config for the current environment (a missing     *)
(* token is the empty string) and wraps the grpc client; every Call      *)
(* then sets the Authorization metadata to "Bearer " + token when the    *)
(* token is non-empty.  Propagating the environment as Micro-Namespace   *)
(* is deliberately disabled, so the environment never reaches the call.  *)
(* Calls from several goroutines share the one wrapper.                  *)
(***************************************************************************)
EXTENDS Naturals, FiniteSets

CONSTANTS
  Callers,   \* goroutines calling through the wrapper
  Envs,      \* environment names; "" is no environment
  Tokens,    \* tokens stored in the config per environment; "" is none
  None

VARIABLES
  config,    \* the stored token of each environment
  wrapper,   \* the wrapper New built: its token and env, or None
  calls,     \* per caller: the metadata of its call in progress
  sent       \* metadata of the requests the grpc client sent

vars == <<config, wrapper, calls, sent>>

BearerScheme == "Bearer "

\* the caller's context metadata before the wrapper: maybe its own token
CallerMetadata == {[auth |-> a, namespace |-> None] : a \in {None, "caller"}}

-----------------------------------------------------------------------------
\* New: the token of the environment from the config, errors ignored
New ==
  /\ wrapper = None
  /\ \E env \in Envs : wrapper' = [token |-> config[env], env |-> env]
  /\ UNCHANGED <<config, calls, sent>>

\* a goroutine calls with its context
Begin(c) ==
  /\ wrapper # None
  /\ calls[c] = None
  /\ \E md \in CallerMetadata : calls' = [calls EXCEPT ![c] = md]
  /\ UNCHANGED <<config, wrapper, sent>>

(* Call: metadata.Set replaces Authorization with the bearer token when  *)
(* there is one; the env branch sets nothing; the inner client sends.    *)
Call(c) ==
  /\ calls[c] # None
  /\ LET md == calls[c]
     IN sent' = sent \cup {IF wrapper.token # ""
                           THEN [md EXCEPT !.auth = <<BearerScheme, wrapper.token>>]
                           ELSE md}
  /\ calls' = [calls EXCEPT ![c] = None]
  /\ UNCHANGED <<config, wrapper>>

Init ==
  /\ config \in [Envs -> Tokens]
  /\ wrapper = None
  /\ calls = [c \in Callers |-> None]
  /\ sent = {}

Next == New \/ \E c \in Callers : Begin(c) \/ Call(c)

Spec == Init /\ [][Next]_vars

-----------------------------------------------------------------------------
TypeOK ==
  /\ wrapper \in {None} \cup [token : Tokens, env : Envs]
  /\ \A c \in Callers : calls[c] \in {None} \cup CallerMetadata

=============================================================================

---------------------------- MODULE ServiceRunner ----------------------------
(***************************************************************************)
(* The `micro service` command (src/service/service.go, Run): it parses   *)
(* the --metadata key=value entries, picks a proxy from the prefix of the *)
(* --endpoint, optionally starts a local runtime running the wrapped      *)
(* command, serves the proxy as a micro service until a signal, and on    *)
(* return deletes the wrapped service and stops the runtime (deferred).   *)
(*                                                                         *)
(* Strings are token sequences: "k=v=w" is <<"k", "=", "v", "=", "w">>,   *)
(* "grpc://host:1" is <<"grpc", "://", "host", ":1">>, and a host name    *)
(* starting with "http" is <<"http", "bin", ":80">>.                      *)
(***************************************************************************)
EXTENDS Naturals, Sequences, SequencesExt

CONSTANTS
  FlagSets,         \* the command lines the process may get
  DefaultEndpoint,  \* proxy.DefaultEndpoint of go-micro
  None

VARIABLES
  flags,         \* the command line
  pc,            \* where Run is
  metadata,      \* the parsed metadata map
  endpoint,      \* local endpoint variable of Run
  proxyKind,     \* the proxy built from the endpoint
  runtimeState,  \* local runtime: "none", "started", "stopped"
  wrapped,       \* the wrapped command: "none", "created", "failed", "deleted"
  svcState       \* the micro service: "none", "running", "stopped"

vars == <<flags, pc, metadata, endpoint, proxyKind, runtimeState, wrapped,
          svcState>>

Eq == "="

(* strings.Split(s, "="): the pieces between the separators; an empty     *)
(* string gives one empty piece.                                          *)
RECURSIVE Split(_)
Split(s) ==
  LET i == SelectInSeq(s, LAMBDA t : t = Eq)
  IN IF i = 0 THEN <<s>>
     ELSE <<SubSeq(s, 1, i - 1)>> \o Split(SubSeq(s, i + 1, Len(s)))

\* strings.Join(parts, "=") for a non-empty list of parts
RECURSIVE Join(_)
Join(parts) ==
  IF Len(parts) = 1 THEN parts[1]
  ELSE parts[1] \o <<Eq>> \o Join(Tail(parts))

\* variant: the value taken from the second piece only
AddEntrySecondPiece(m, md) ==
  LET parts == Split(md)
  IN IF Len(parts) < 2 THEN m ELSE (parts[1] :> parts[2]) @@ m

(* One iteration of the metadata loop: entries without "=" are skipped, *)
(* the key is the first piece, the value the rest joined back with "=",  *)
(* and a later entry for the same key overwrites an earlier one.         *)
AddEntry(m, md) ==
  LET parts == Split(md)
  IN IF Len(parts) < 2 THEN m ELSE (parts[1] :> Join(Tail(parts))) @@ m

ParseMetadata(entries) == FoldLeft(AddEntry, <<>>, entries)

\* strings.TrimPrefix on token sequences
TrimPrefix(s, prefix) ==
  IF IsPrefix(prefix, s) THEN SubSeq(s, Len(prefix) + 1, Len(s)) ELSE s

\* variant: the switch without its default case leaves the proxy nil
ProxyForNoDefault(ep) ==
  CASE IsPrefix(<<"grpc">>, ep) ->
         [kind |-> "grpc", endpoint |-> TrimPrefix(ep, <<"grpc", "://">>)]
    [] IsPrefix(<<"http">>, ep) ->
         [kind |-> "http", endpoint |-> ep]
    [] OTHER ->
         [kind |-> None, endpoint |-> ep]

(* The endpoint switch: the cases test the bare prefixes "grpc", "http",  *)
(* "file" and "exec", and strip "<scheme>://" where they strip anything. *)
ProxyFor(ep) ==
  CASE IsPrefix(<<"grpc">>, ep) ->
         [kind |-> "grpc", endpoint |-> TrimPrefix(ep, <<"grpc", "://">>)]
    [] IsPrefix(<<"http">>, ep) ->
         [kind |-> "http", endpoint |-> ep]
    [] IsPrefix(<<"file">>, ep) ->
         [kind |-> "file", endpoint |-> TrimPrefix(ep, <<"file", "://">>)]
    [] IsPrefix(<<"exec">>, ep) ->
         [kind |-> "exec", endpoint |-> TrimPrefix(ep, <<"exec", "://">>)]
    [] OTHER ->
         [kind |-> "mucp", endpoint |-> ep]

-----------------------------------------------------------------------------
\* Run: the metadata loop and the name/address options
Configure ==
  /\ pc = "start"
  /\ metadata' = ParseMetadata(flags.metadata)
  /\ pc' = "endpoint"
  /\ UNCHANGED <<flags, endpoint, proxyKind, runtimeState, wrapped, svcState>>

\* an empty endpoint falls back to the default, then the proxy is chosen
SelectProxy ==
  /\ pc = "endpoint"
  /\ LET ep == IF flags.endpoint = << >> THEN DefaultEndpoint ELSE flags.endpoint
     IN /\ proxyKind' = ProxyFor(ep).kind
        /\ endpoint' = ProxyFor(ep).endpoint
  /\ pc' = IF flags.args THEN "runtime" ELSE "serve"
  /\ UNCHANGED <<flags, metadata, runtimeState, wrapped, svcState>>

(* With arguments: start a local runtime and create the wrapped service; *)
(* both errors are ignored, so a failed create still goes on to serve.   *)
StartWrapped ==
  /\ pc = "runtime"
  /\ runtimeState' = "started"
  /\ wrapped' \in {"created", "failed"}
  /\ pc' = "serve"
  /\ UNCHANGED <<flags, metadata, endpoint, proxyKind, svcState>>

\* service.Run: serve the proxy until a signal; its error is ignored
ServiceRun ==
  /\ pc = "serve"
  /\ svcState' = "running"
  /\ pc' = "running"
  /\ UNCHANGED <<flags, metadata, endpoint, proxyKind, runtimeState, wrapped>>

\* service.Run returns once the service stops; the deferred cleanup follows
ServiceReturn ==
  /\ pc = "running"
  /\ svcState' = "stopped"
  /\ pc' = IF runtimeState = "started" THEN "deferred" ELSE "exited"
  /\ UNCHANGED <<flags, metadata, endpoint, proxyKind, runtimeState, wrapped>>

(* The deferred cleanup: delete the wrapped service, stop the runtime.    *)
(* Either call may fail, and both errors are ignored: a failed Delete     *)
(* leaves the service created, a failed Stop leaves the runtime started.  *)
Cleanup ==
  /\ pc = "deferred"
  /\ wrapped' \in IF wrapped = "created" THEN {"deleted", "created"} ELSE {wrapped}
  /\ runtimeState' \in {"stopped", "started"}
  /\ pc' = "exited"
  /\ UNCHANGED <<flags, metadata, endpoint, proxyKind, svcState>>

Init ==
  /\ flags \in FlagSets
  /\ pc = "start"
  /\ metadata = <<>>
  /\ endpoint = << >>
  /\ proxyKind = None
  /\ runtimeState = "none"
  /\ wrapped = "none"
  /\ svcState = "none"

Next ==
  \/ Configure \/ SelectProxy \/ StartWrapped \/ ServiceRun
  \/ ServiceReturn \/ Cleanup

\* the service runs until the process gets a signal, which may never come
Spec == Init /\ [][Next]_vars

-----------------------------------------------------------------------------
TypeOK ==
  /\ pc \in {"start", "endpoint", "runtime", "serve", "running", "deferred",
             "exited"}
  /\ proxyKind \in IF pc \in {"start", "endpoint"} THEN {None}
                   ELSE {"grpc", "http", "file", "exec", "mucp"}
  /\ runtimeState \in {"none", "started", "stopped"}
  /\ wrapped \in {"none", "created", "failed", "deleted"}
  /\ svcState \in {"none", "running", "stopped"}

(* The metadata flag's usage: each entry is key=value.  Reference: the    *)
(* key is everything before the first "=", the value everything after it *)
(* (so values may contain "="), entries without "=" are ignored, and the *)
(* last entry for a key wins.                                             *)
FirstEq(md) == SelectInSeq(md, LAMBDA t : t = Eq)

RefMetadata(entries) ==
  LET withEq == {i \in 1..Len(entries) : FirstEq(entries[i]) > 0}
      KeyOf(md) == SubSeq(md, 1, FirstEq(md) - 1)
      keys == {KeyOf(entries[i]) : i \in withEq}
      LastFor(k) == CHOOSE i \in withEq :
                      /\ KeyOf(entries[i]) = k
                      /\ \A j \in withEq : KeyOf(entries[j]) = k => j <= i
  IN [k \in keys |-> LET md == entries[LastFor(k)]
                     IN SubSeq(md, FirstEq(md) + 1, Len(md))]

MetadataParsed ==
  pc # "start" => metadata = RefMetadata(flags.metadata)

(* The endpoint flag's usage: "{http, grpc, file, exec}://path-or-address"; *)
(* an endpoint without one of these schemes (https counts as http) is a   *)
(* plain address served by the default mucp proxy.                        *)
Schemes == [grpc |-> <<"grpc">>, http |-> <<"http">>, file |-> <<"file">>,
            exec |-> <<"exec">>]

RefKind(ep) ==
  IF \E k \in DOMAIN Schemes :
       \/ IsPrefix(Schemes[k] \o <<"://">>, ep)
       \/ k = "http" /\ IsPrefix(<<"http", "s", "://">>, ep)
    THEN CHOOSE k \in DOMAIN Schemes :
           \/ IsPrefix(Schemes[k] \o <<"://">>, ep)
           \/ k = "http" /\ IsPrefix(<<"http", "s", "://">>, ep)
    ELSE "mucp"

ProxyMatchesScheme ==
  proxyKind # None =>
    proxyKind = RefKind(IF flags.endpoint = << >> THEN DefaultEndpoint
                                                  ELSE flags.endpoint)
=============================================================================

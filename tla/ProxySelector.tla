---------------------------- MODULE ProxySelector ----------------------------
(***************************************************************************)
(* What the proxy command promises about its backend protocol (spec 4.5): *)
(* from the configured endpoint and protocol flag it picks, once, the     *)
(* protocol and the pinned endpoint:                                      *)
(*   1. an endpoint "grpc://x" pins x and forces grpc,                    *)
(*   2. an endpoint "http://x" pins it unmodified and forces http,        *)
(*   3. any other non-empty endpoint is pinned unmodified, mucp,          *)
(*   4. no endpoint: the protocol flag, the default when the flag is      *)
(*      empty or names no protocol, and discovery instead of a pin.       *)
(* Endpoints are token sequences, e.g. <<"grpc", "://", "host", ":1">>.   *)
(***************************************************************************)
EXTENDS Sequences, SequencesExt

CONSTANTS
  Endpoints,        \* configured endpoints, << >> is "not set"
  ProtocolFlags,    \* values of --protocol, "" is "not set"
  DefaultProtocol,  \* the protocol used when none is given
  None              \* nothing selected / nothing pinned

VARIABLES endpoint, protocolFlag, protocol, pinned

vars == <<endpoint, protocolFlag, protocol, pinned>>

Protocols  == {"grpc", "http", "mucp"}
GrpcScheme == <<"grpc", "://">>
HttpScheme == <<"http", "://">>

Selection(ep, flag) ==
  CASE ep # << >> /\ IsPrefix(GrpcScheme, ep) ->
         [protocol |-> "grpc", pinned |-> SubSeq(ep, Len(GrpcScheme) + 1, Len(ep))]
    [] ep # << >> /\ IsPrefix(HttpScheme, ep) ->
         [protocol |-> "http", pinned |-> ep]
    [] ep # << >> ->
         [protocol |-> "mucp", pinned |-> ep]
    [] OTHER ->
         [protocol |-> IF flag \in Protocols THEN flag ELSE DefaultProtocol,
          pinned |-> None]

Init ==
  /\ endpoint \in Endpoints
  /\ protocolFlag \in ProtocolFlags
  /\ protocol = None
  /\ pinned = None

Select ==
  /\ protocol = None
  /\ protocol' = Selection(endpoint, protocolFlag).protocol
  /\ pinned' = Selection(endpoint, protocolFlag).pinned
  /\ UNCHANGED <<endpoint, protocolFlag>>

Spec == Init /\ [][Select]_vars
=============================================================================

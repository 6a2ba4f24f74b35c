---------------------------- MODULE MCBridgeAgent ----------------------------
(***************************************************************************)
(* Small inventories.  Addresses 1 and 2 belong to containers, 3 and 4 to  *)
(* the pods' range; a MAC is named after the address it was given.         *)
(***************************************************************************)
EXTENDS BridgeAgent

CONSTANTS a, b, c            \* identities

MCBoundRange == {3, 4}
MCGateway == 9

Container(id, addr, ident, allow, accept) ==
    [id |-> id, source |-> "Docker", attached |-> TRUE, address |-> addr, mac |-> 10 + id,
     identity |-> ident, allow |-> allow, accept |-> accept,
     target |-> TRUE, port |-> 80, usage |-> id, networks |-> (1 :> 1 @@ 2 :> 0)]
Pod(id, addr, ident, allow, accept) ==
    [Container(id, addr, ident, allow, accept) EXCEPT !.source = "Kubernetes", !.port = 81]

\* A pod and its replacement at the same address, and the two containers they
\* may talk to; one container, and the old pod, are further users of the other
\* container's target port.
Replacement == {Container(1, 1, a, {b}, {b}), Container(2, 2, c, {}, {}),
                [Pod(3, 3, b, {a, c}, {}) EXCEPT !.port = 80], Pod(4, 3, b, {a}, {a})}
\* Pods that clash with a container in address, MAC or usage id
Clashing == {Container(1, 1, a, {}, {b, c}), 
             [Container(2, 2, c, {a}, {}) EXCEPT !.port = 82, !.usage = 2],
             [Pod(3, 3, b, {a, c}, {Malformed}) EXCEPT !.port = 80],
             [Pod(4, 4, b, {Malformed, a}, {}) EXCEPT !.usage = 2]}
\* Labels an operator got wrong, a client whose default route is elsewhere,
\* and more targets than leases
Mislabelled == {[Container(1, 1, a, {b}, {}) EXCEPT !.networks = (1 :> 0 @@ 2 :> 1)],
                [Container(2, 2, Missing, {}, {}) EXCEPT !.port = Unset],
                [Pod(3, 3, b, {a}, {}) EXCEPT !.usage = 4],
                [Pod(4, 4, c, {b}, {}) EXCEPT !.mac = 11, !.port = 83]}
\* The gateway itself, and pods at its address or with its MAC
WithGateway == {[Container(1, 9, a, {}, {}) EXCEPT !.target = FALSE],
                Container(2, 2, c, {b}, {b}),
                [Pod(3, 3, b, {c}, {c}) EXCEPT !.port = 82],
                [Pod(4, 4, a, {c}, {}) EXCEPT !.port = 82]}
\* A pod without an identity at the address of another, and one that claims the
\* identity of a container
Unnamed == {Container(1, 1, a, {b}, {b}), Pod(2, 4, a, {b}, {}),
            Pod(3, 3, b, {a}, {}), Pod(4, 3, Missing, {a}, {})}
MCPools == <<Replacement, Clashing, Mislabelled, WithGateway, Unnamed>>
==============================================================================

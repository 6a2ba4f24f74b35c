--------------------------- MODULE MCExternalProbe ---------------------------
(***************************************************************************)
(* Two leases, and the answers a service may give: reachable, not          *)
(* reachable, and another source address than claimed.                     *)
(***************************************************************************)
EXTENDS ExternalProbe

Answer(reason, matches, reachable) ==
    [reason |-> reason, public |-> TRUE, matches |-> matches, reachable |-> reachable]
MCResponses == {Good, Answer("port_unreachable", TRUE, FALSE),
                Answer("claimed_ip_mismatch", FALSE, None)}
==============================================================================

------------------------------ MODULE VpnServer ------------------------------
(***************************************************************************)
(* The VPN-server monitor: monitor_vpn_server in src/src/runtime.rs with   *)
(* the latency window and the probe of src/src/vpn_server.rs.  The active  *)
(* profile's peer and the interface's runtime endpoint are read, one after *)
(* the other, before a ping that takes a while; both may have changed by   *)
(* the time its result is published, as a snapshot and then as a check.    *)
(*                                                                         *)
(* A sample is whether the ping was measured; round-trip times, the        *)
(* handshake age, the metrics and the history row are abstracted (the      *)
(* round-trip alert is rtt_sample of Notifications).                       *)
(***************************************************************************)
EXTENDS Naturals, FiniteSets, Sequences

CONSTANTS Peer, Endpoint,
          SampleCapacity,        \* RECENT_SAMPLE_CAPACITY
          LatencyProbeEnabled,   \* config.vpn_server.latency_probe_enabled
          NoPeer, NoEndpoint

ASSUME VpnServerAssumption ==
    /\ SampleCapacity \in Nat \ {0} /\ LatencyProbeEnabled \in BOOLEAN
    /\ NoPeer \notin Peer /\ NoEndpoint \notin Endpoint

ProbeResult == {"Measured", "Timeout", "Unsupported", "ResolutionFailed", "Unavailable"}

VARIABLES peer, endpoint,           \* the active profile's peer, wg's endpoint
          v_pc, v_peer, v_endpoint, \* the monitor, and what it has read
          previous_endpoint,
          samples,                  \* the latency window, oldest first
          shown,                    \* snapshot.vpn_server
          v_check,                  \* the status of check vpn_server.latency
          emitted,                  \* history: endpoint_changed since the last publication
          probed,                   \* history: the endpoint of the latest probe
          streak                    \* history: latest samples that are all alike

locals == <<v_pc, v_peer, v_endpoint, previous_endpoint, samples>>
vpn_vars == <<peer, endpoint, locals, shown, v_check, emitted, probed, streak>>

VpnServerInit ==
    /\ peer \in Peer \cup {NoPeer} /\ endpoint \in Endpoint \cup {NoEndpoint}
    /\ v_pc = "tick" /\ v_peer = NoPeer /\ v_endpoint = NoEndpoint
    /\ previous_endpoint = NoEndpoint /\ samples = <<>>
    /\ shown = [host |-> NoPeer, endpoint |-> NoEndpoint, status |-> "Pending",
                lost |-> 0, of |-> 0]
    /\ v_check = "none" /\ emitted = FALSE /\ probed = NoEndpoint /\ streak = 0
------------------------------------------------------------------------------

\* LatencyWindow::record
record(w, measured) ==
    Append(IF Len(w) = SampleCapacity THEN Tail(w) ELSE w, measured)

\* LatencyWindow::state: the loss is this share of the samples.
Lost(w) == Cardinality({i \in DOMAIN w : ~w[i]})

Streak(w, measured) ==
    IF w # <<>> /\ w[Len(w)] = measured
    THEN IF streak < SampleCapacity THEN streak + 1 ELSE streak
    ELSE 1

Sample(measured) ==
    samples' = record(samples, measured) /\ streak' = Streak(samples, measured)

\* A tick with a configured peer; without one the monitor waits for the next.
ReadPeer ==
    /\ v_pc = "tick" /\ peer # NoPeer
    /\ v_peer' = peer /\ v_pc' = "endpoint"
    /\ UNCHANGED <<peer, endpoint, v_endpoint, previous_endpoint, samples, shown, v_check,
                   emitted, probed, streak>>

\* runtime_endpoint: exactly one endpoint, else an error.  A change is emitted.
ReadEndpoint ==
    /\ v_pc = "endpoint" /\ endpoint # NoEndpoint
    /\ v_endpoint' = endpoint /\ previous_endpoint' = endpoint /\ v_pc' = "probe"
    /\ emitted' = (previous_endpoint \notin {NoEndpoint, endpoint})
    /\ UNCHANGED <<peer, endpoint, v_peer, samples, shown, v_check, probed, streak>>

\* The endpoint cannot be read: a lost sample; the endpoint shown stays.
EndpointUnavailable ==
    /\ v_pc = "endpoint" /\ Sample(FALSE)
    /\ shown' = [shown EXCEPT !.status = "Unavailable", !.lost = Lost(samples'),
                              !.of = Len(samples')]
    /\ v_pc' = "observe" /\ v_peer' = NoPeer
    /\ UNCHANGED <<peer, endpoint, v_endpoint, previous_endpoint, v_check, emitted, probed>>

\* Planted fault: the snapshot shows the endpoint of the moment.
FaultyProbe(result) ==
    /\ v_pc = "probe"
    /\ LatencyProbeEnabled \/ result = "Unsupported"
    /\ Sample(result = "Measured") /\ probed' = v_endpoint
    /\ shown' = [host |-> v_peer, endpoint |-> endpoint, status |-> result,
                 lost |-> Lost(samples'), of |-> Len(samples')]
    /\ v_pc' = "observe" /\ v_peer' = NoPeer /\ v_endpoint' = NoEndpoint /\ emitted' = FALSE
    /\ UNCHANGED <<peer, endpoint, previous_endpoint, v_check>>

\* probe_endpoint, and the snapshot with its result.
Probe(result) ==
    /\ v_pc = "probe"
    /\ LatencyProbeEnabled \/ result = "Unsupported"
    /\ Sample(result = "Measured") /\ probed' = v_endpoint
    /\ shown' = [host |-> v_peer, endpoint |-> v_endpoint, status |-> result,
                 lost |-> Lost(samples'), of |-> Len(samples')]
    /\ v_pc' = "observe" /\ v_peer' = NoPeer /\ v_endpoint' = NoEndpoint /\ emitted' = FALSE
    /\ UNCHANGED <<peer, endpoint, previous_endpoint, v_check>>

ObserveLatency ==
    /\ v_pc = "observe" /\ v_pc' = "tick"
    /\ v_check' = IF shown.status = "Measured" THEN "Healthy" ELSE "Unknown"
    /\ UNCHANGED <<peer, endpoint, v_peer, v_endpoint, previous_endpoint, samples, shown,
                   emitted, probed, streak>>

\* A profile is applied or cleared; the peer roams, or the tunnel goes.
ProfileChanges(p) ==
    /\ peer' = p
    /\ UNCHANGED <<endpoint, locals, shown, v_check, emitted, probed, streak>>

EndpointChanges(e) ==
    /\ endpoint' = e
    /\ UNCHANGED <<peer, locals, shown, v_check, emitted, probed, streak>>

VpnServerNext ==
    \/ ReadPeer \/ ReadEndpoint \/ EndpointUnavailable \/ ObserveLatency
    \/ \E r \in ProbeResult : Probe(r)
    \/ \E p \in Peer \cup {NoPeer} : ProfileChanges(p)
    \/ \E e \in Endpoint \cup {NoEndpoint} : EndpointChanges(e)

VpnServerSpec == VpnServerInit /\ [][VpnServerNext]_vpn_vars
------------------------------------------------------------------------------

\* A latency shown as measured was measured at the endpoint shown beside it,
\* although that endpoint may have been replaced while the ping was under way;
\* the window that is shown with it includes the measurement.
MeasuredAtShown ==
    shown.status = "Measured" => shown.endpoint = probed /\ shown.lost < shown.of
==============================================================================

--------------------------- MODULE HostPolicyAgent ---------------------------
(***************************************************************************)
(* The host-policy half of egressy-isolation-agent: every interval it      *)
(* resolves the desired policy (the gateway's, else the cached one), reads *)
(* the host's rules, routes and nftables table, and reissues the commands  *)
(* whose effect it misses, one command at a time, the first failure ending *)
(* the pass.  Anything on the host may undo any part between two steps.    *)
(*                                                                         *)
(* A policy is its IPv4 subnet, bridge, gateway address and IPv6 half (its *)
(* subnet, or NoIpv6).  The table "inet egressy_host" is the set of rule   *)
(* blocks rendered into it, empty when the table does not exist.  Route    *)
(* table number and rule priority are the same in every policy.            *)
(***************************************************************************)
EXTENDS Naturals

CONSTANTS HostPolicies,       \* policies a gateway on this host is configured with
          Earlier,        \* policies of earlier releases that left their table behind
          Subnet, Bridge, GatewayIp,
          Ipv6Subnet,
          EscalateAfter,  \* HOST_POLICY_ESCALATE_AFTER
          EventuallyCalm, \* the environment may stop interfering for good
          NoIpv6, NoHostPolicy, NoRoute

VARIABLES desired,        \* the policy the gateway publishes
          reachable,      \* the gateway answers
          cache,          \* the policy in the cache file
          bridges,        \* bridge devices that exist
          rule4, rule6,   \* subnets with a source rule to the policy table
          table4, table6, \* the policy table of each family
          nft,            \* rule blocks in table inet egressy_host
          at, host_policy, from_cache, todo, host_policy_failures,
          settled,        \* policy the last pass left installed, until disturbed
          undisturbed,    \* nothing touched the host since this pass began
          calm            \* the environment has stopped interfering

host == <<bridges, rule4, rule6, table4, table6, nft>>
agent_pass == <<at, host_policy, from_cache, todo, host_policy_failures>>
host_vars == <<desired, reachable, cache, host, agent_pass, settled, undisturbed, calm>>

ASSUME PoliciesAssumption ==
    HostPolicies \cup Earlier \subseteq
        [subnet : Subnet, bridge : Bridge, gateway_ip : GatewayIp,
         ipv6 : Ipv6Subnet \cup {NoIpv6}]

ASSUME HostNullAssumption ==
    NoIpv6 \notin Ipv6Subnet /\ NoHostPolicy \notin HostPolicies
    /\ NoRoute \notin Bridge \X GatewayIp /\ NoRoute \notin Bridge

ASSUME EscalateAssumption == EscalateAfter \in Nat \ {0}

Command == {"nft_add", "nft_replace", "rule4", "unreachable4", "link4", "default4",
            "unreachable6", "link6", "default6", "rule6"}

\* Planted fault: the kill switch is installed last.
FaultyOrder == [c \in Command |->
            CASE c \in {"nft_add", "nft_replace"} -> 10
              [] c = "rule4" -> 2 [] c = "unreachable4" -> 3
              [] c = "link4" -> 4 [] c = "default4" -> 5
              [] c = "unreachable6" -> 6 [] c = "link6" -> 7
              [] c = "default6" -> 8 [] c = "rule6" -> 9]

\* The order in which apply_host_policy issues the commands.
Order == [c \in Command |->
            CASE c \in {"nft_add", "nft_replace"} -> 1
              [] c = "rule4" -> 2 [] c = "unreachable4" -> 3
              [] c = "link4" -> 4 [] c = "default4" -> 5
              [] c = "unreachable6" -> 6 [] c = "link6" -> 7
              [] c = "default6" -> 8 [] c = "rule6" -> 9]

\* What render_nft puts in the table, and the marker in its comment.
Render(p) == [subnet |-> p.subnet, bridge |-> p.bridge, ipv6 |-> p.ipv6]

ipv6_kill_switch_marker(block) == block.ipv6

EmptyTable(S) == [unreachable |-> FALSE, link |-> [s \in S |-> NoRoute],
                  default |-> NoRoute]

HostInit ==
    /\ desired \in HostPolicies
    /\ reachable = FALSE
    /\ cache = NoHostPolicy
    /\ bridges = {}
    /\ rule4 = {} /\ rule6 = {}
    /\ nft \in {{}} \cup {{Render(p)} : p \in Earlier}
    /\ table4 = EmptyTable(Subnet) /\ table6 = EmptyTable(Ipv6Subnet)
    /\ at = "idle" /\ host_policy = NoHostPolicy /\ from_cache = FALSE /\ todo = {}
    /\ host_policy_failures = 0
    /\ settled = NoHostPolicy /\ undisturbed = FALSE /\ calm = FALSE
-----------------------------------------------------------------------------
(* Drift: what the agent compares. *)

rule_present(p) == p.subnet \in rule4

routes_present(p) ==
    <<table4.link[p.subnet] = p.bridge,
      table4.default = <<p.bridge, p.gateway_ip>> /\ table4.unreachable>>

nft_table_is_current(p) ==
    \E block \in nft : ipv6_kill_switch_marker(block) = ipv6_kill_switch_marker(Render(p))

ipv6_rule_present(p) == p.ipv6 \in rule6

ipv6_routes_present(p) ==
    /\ table6.link[p.ipv6] = p.bridge
    /\ table6.default = <<p.bridge, p.gateway_ip>>
    /\ table6.unreachable

\* detect_drift and nft_table_stale, as the commands the drift calls for.  A
\* route or table listing that fails reads as absent.
detect_drift(p, routes_read, table_read) ==
    (IF nft = {} \/ ~table_read THEN {"nft_add"}
     ELSE IF nft_table_is_current(p) THEN {} ELSE {"nft_replace"})
    \cup (IF rule_present(p) THEN {} ELSE {"rule4"})
    \cup (IF routes_read /\ routes_present(p) = <<TRUE, TRUE>> THEN {}
          ELSE {"unreachable4", "link4", "default4"})

\* Planted fault: the IPv6 rule is taken to follow from the routes.
faulty_detect_ipv6_drift(p, routes_read) ==
    IF routes_read /\ ipv6_routes_present(p) THEN {}
    ELSE {"unreachable6", "link6", "default6", "rule6"}

detect_ipv6_drift(p, routes_read) ==
    (IF ipv6_rule_present(p) THEN {} ELSE {"rule6"})
    \cup (IF routes_read /\ ipv6_routes_present(p) THEN {}
          ELSE {"unreachable6", "link6", "default6"})

host_policy_failure_is_sustained == host_policy_failures >= EscalateAfter
-----------------------------------------------------------------------------
(* The agent. *)

\* The pass ends: a failure is counted, and so is a pass that ran from the
\* cache; a success on the gateway's own policy clears the count.
Finish(ok) ==
    /\ at' = "idle" /\ host_policy' = NoHostPolicy /\ from_cache' = FALSE /\ todo' = {}
    /\ host_policy_failures' =
         IF ok /\ ~from_cache THEN 0
         ELSE IF host_policy_failures < EscalateAfter THEN host_policy_failures + 1
         ELSE host_policy_failures
    /\ settled' = IF ok /\ undisturbed THEN host_policy ELSE settled
    /\ undisturbed' = FALSE

Begin(p, cached) ==
    /\ at' = "read4" /\ host_policy' = p /\ from_cache' = cached
    /\ undisturbed' = TRUE
    /\ settled' = IF settled = p THEN settled ELSE NoHostPolicy

\* The gateway answered: its policy is cached (a failed write is tolerated)
\* and reconciled.
FetchOk(stored) ==
    /\ at = "idle" /\ reachable
    /\ stored \/ ~calm
    /\ cache' = IF stored THEN desired ELSE cache
    /\ Begin(desired, FALSE)
    /\ UNCHANGED <<desired, reachable, host, todo, host_policy_failures, calm>>

\* Planted fault: a policy from the cache counts as a fetched one.
FaultyFetchFromCache ==
    /\ at = "idle" /\ ~(reachable /\ calm)
    /\ cache # NoHostPolicy
    /\ Begin(cache, FALSE)
    /\ UNCHANGED <<desired, reachable, cache, host, todo, host_policy_failures, calm>>

\* It did not, and the cache holds a policy.
FetchFromCache ==
    /\ at = "idle" /\ ~(reachable /\ calm)
    /\ cache # NoHostPolicy
    /\ Begin(cache, TRUE)
    /\ UNCHANGED <<desired, reachable, cache, host, todo, host_policy_failures, calm>>

\* It did not, and there is no cache: the pass fails.
FetchFailed ==
    /\ at = "idle" /\ ~(reachable /\ calm)
    /\ cache = NoHostPolicy
    /\ Finish(FALSE)
    /\ UNCHANGED <<desired, reachable, cache, host, calm>>

\* A command of the pass that only reads cannot be run.
ReadFails ==
    /\ at \in {"read4", "read6"} /\ ~calm
    /\ Finish(FALSE)
    /\ UNCHANGED <<desired, reachable, cache, host, calm>>

\* reconcile_with, IPv4 rules, IPv4 routes and the nftables listing.
ReadIpv4(routes_read, table_read) ==
    /\ at = "read4"
    /\ calm => routes_read /\ table_read
    /\ LET drift == detect_drift(host_policy, routes_read, table_read)
       IN  IF host_policy.ipv6 # NoIpv6
           THEN /\ at' = "read6" /\ todo' = drift
                /\ UNCHANGED <<host_policy, from_cache, host_policy_failures, settled, undisturbed>>
           ELSE IF drift = {} THEN Finish(TRUE)
           ELSE /\ at' = "apply" /\ todo' = drift
                /\ UNCHANGED <<host_policy, from_cache, host_policy_failures, settled, undisturbed>>
    /\ UNCHANGED <<desired, reachable, cache, host, calm>>

\* reconcile_with, IPv6 rules and routes.
ReadIpv6(routes_read) ==
    /\ at = "read6"
    /\ calm => routes_read
    /\ LET drift == todo \cup detect_ipv6_drift(host_policy, routes_read)
       IN  IF drift = {} THEN Finish(TRUE)
           ELSE /\ at' = "apply" /\ todo' = drift
                /\ UNCHANGED <<host_policy, from_cache, host_policy_failures, settled, undisturbed>>
    /\ UNCHANGED <<desired, reachable, cache, host, calm>>

\* The command apply_host_policy runs next.
Current(c) == c \in todo /\ \A d \in todo : Order[c] <= Order[d]

\* A command that cannot succeed: a device route without the device, and the
\* replacement of a table that has since gone.
Impossible(c) ==
    \/ c \in {"link4", "default4", "link6", "default6"} /\ host_policy.bridge \notin bridges
    \/ c = "nft_replace" /\ nft = {}

RunNft(c) ==
    /\ c \in {"nft_add", "nft_replace"}
    /\ nft' = IF c = "nft_add" THEN nft \cup {Render(host_policy)} ELSE {Render(host_policy)}
    /\ UNCHANGED <<bridges, rule4, rule6, table4, table6>>

RunRule(c) ==
    /\ \/ /\ c = "rule4" /\ rule4' = rule4 \cup {host_policy.subnet}
          /\ UNCHANGED rule6
       \/ /\ c = "rule6" /\ rule6' = rule6 \cup {host_policy.ipv6}
          /\ UNCHANGED rule4
    /\ UNCHANGED <<bridges, table4, table6, nft>>

RunRoute4(c) ==
    /\ \/ c = "unreachable4" /\ table4' = [table4 EXCEPT !.unreachable = TRUE]
       \/ c = "link4" /\ table4' = [table4 EXCEPT !.link[host_policy.subnet] = host_policy.bridge]
       \/ /\ c = "default4"
          /\ table4' = [table4 EXCEPT !.default = <<host_policy.bridge, host_policy.gateway_ip>>]
    /\ UNCHANGED <<bridges, rule4, rule6, table6, nft>>

RunRoute6(c) ==
    /\ \/ c = "unreachable6" /\ table6' = [table6 EXCEPT !.unreachable = TRUE]
       \/ c = "link6" /\ table6' = [table6 EXCEPT !.link[host_policy.ipv6] = host_policy.bridge]
       \/ /\ c = "default6"
          /\ table6' = [table6 EXCEPT !.default = <<host_policy.bridge, host_policy.gateway_ip>>]
    /\ UNCHANGED <<bridges, rule4, rule6, table4, nft>>

\* Planted fault: a stale table is deleted first and rendered by the next pass.
FaultyRunCommand(c) ==
    /\ at = "apply" /\ Current(c) /\ ~Impossible(c)
    /\ \/ c = "nft_replace" /\ nft' = {} /\ UNCHANGED <<bridges, rule4, rule6, table4, table6>>
       \/ c # "nft_replace" /\ RunNft(c)
       \/ RunRule(c) \/ RunRoute4(c) \/ RunRoute6(c)
    /\ IF todo = {c} THEN Finish(TRUE)
       ELSE /\ todo' = todo \ {c}
            /\ UNCHANGED <<at, host_policy, from_cache, host_policy_failures, settled, undisturbed>>
    /\ UNCHANGED <<desired, reachable, cache, calm>>

RunCommand(c) ==
    /\ at = "apply" /\ Current(c) /\ ~Impossible(c)
    /\ RunNft(c) \/ RunRule(c) \/ RunRoute4(c) \/ RunRoute6(c)
    /\ IF todo = {c} THEN Finish(TRUE)
       ELSE /\ todo' = todo \ {c}
            /\ UNCHANGED <<at, host_policy, from_cache, host_policy_failures, settled, undisturbed>>
    /\ UNCHANGED <<desired, reachable, cache, calm>>

\* The command fails and ends the pass.  A rule is deleted before it is
\* added, so a failed addition leaves none.
CommandFails(c) ==
    /\ at = "apply" /\ Current(c)
    /\ Impossible(c) \/ ~calm
    /\ rule4' = IF c = "rule4" THEN rule4 \ {host_policy.subnet} ELSE rule4
    /\ rule6' = IF c = "rule6" THEN rule6 \ {host_policy.ipv6} ELSE rule6
    /\ Finish(FALSE)
    /\ UNCHANGED <<desired, reachable, cache, bridges, table4, table6, nft, calm>>

Pass ==
    \/ \E stored \in BOOLEAN : FetchOk(stored)
    \/ FetchFromCache \/ FetchFailed \/ ReadFails
    \/ \E r, t \in BOOLEAN : ReadIpv4(r, t)
    \/ \E r \in BOOLEAN : ReadIpv6(r)
    \/ \E c \in Command : RunCommand(c) \/ CommandFails(c)
-----------------------------------------------------------------------------
(* The host and the gateway. *)

Disturb == settled' = NoHostPolicy /\ undisturbed' = FALSE

\* Something else on the host (a Docker daemon restart, an administrator)
\* removes one part of the policy.
LosePart ==
    /\ ~calm
    /\ \/ nft' = {} /\ UNCHANGED <<rule4, rule6, table4, table6>>
       \/ rule4' = {} /\ UNCHANGED <<nft, rule6, table4, table6>>
       \/ rule6' = {} /\ UNCHANGED <<nft, rule4, table4, table6>>
       \/ table4' = EmptyTable(Subnet) /\ UNCHANGED <<nft, rule4, rule6, table6>>
       \/ table6' = EmptyTable(Ipv6Subnet) /\ UNCHANGED <<nft, rule4, rule6, table4>>
    /\ Disturb
    /\ UNCHANGED <<desired, reachable, cache, bridges, agent_pass, calm>>

\* Deleting a device deletes the routes through it.
WithoutDevice(table, b) ==
    [table EXCEPT !.link = [s \in DOMAIN table.link |->
                              IF table.link[s] = b THEN NoRoute ELSE table.link[s]],
                  !.default = IF table.default # NoRoute /\ table.default[1] = b
                              THEN NoRoute ELSE table.default]

RemoveBridge(b) ==
    /\ ~calm /\ b \in bridges
    /\ bridges' = bridges \ {b}
    /\ table4' = WithoutDevice(table4, b) /\ table6' = WithoutDevice(table6, b)
    /\ Disturb
    /\ UNCHANGED <<desired, reachable, cache, rule4, rule6, nft, agent_pass, calm>>

AddBridge(b) ==
    /\ ~calm /\ bridges' = bridges \cup {b}
    /\ UNCHANGED <<desired, reachable, cache, rule4, rule6, table4, table6, nft,
                   agent_pass, settled, undisturbed, calm>>

\* The agent is restarted: what it knew is gone, the cache file is not.
AgentRestarted ==
    /\ at' = "idle" /\ host_policy' = NoHostPolicy /\ from_cache' = FALSE /\ todo' = {}
    /\ host_policy_failures' = 0

RestartAgent ==
    /\ ~calm /\ AgentRestarted
    /\ undisturbed' = FALSE
    /\ UNCHANGED <<desired, reachable, cache, host, settled, calm>>

Reboot ==
    /\ ~calm /\ AgentRestarted
    /\ bridges' = {} /\ rule4' = {} /\ rule6' = {} /\ nft' = {}
    /\ table4' = EmptyTable(Subnet) /\ table6' = EmptyTable(Ipv6Subnet)
    /\ reachable' = FALSE
    /\ Disturb
    /\ UNCHANGED <<desired, cache, calm>>

GatewayUp ==
    /\ ~calm /\ reachable' = TRUE
    /\ UNCHANGED <<desired, cache, host, agent_pass, settled, undisturbed, calm>>

\* The gateway stops, and may come back with another configuration.
GatewayDown ==
    /\ ~calm /\ reachable' = FALSE
    /\ desired' \in HostPolicies
    /\ UNCHANGED <<cache, host, agent_pass, settled, undisturbed, calm>>

BecomeCalm ==
    /\ EventuallyCalm /\ ~calm /\ calm' = TRUE
    /\ UNCHANGED <<desired, reachable, cache, host, agent_pass, settled, undisturbed>>

Environment ==
    \/ LosePart \/ RestartAgent \/ Reboot \/ GatewayUp \/ GatewayDown \/ BecomeCalm
    \/ \E b \in Bridge : RemoveBridge(b) \/ AddBridge(b)

HostNext == Pass \/ Environment

HostSpec == HostInit /\ [][HostNext]_host_vars

\* The ticker fires every interval and every command returns.
HostFairSpec == HostSpec /\ WF_host_vars(Pass)
-----------------------------------------------------------------------------
(* Properties. *)

Table(S) == [unreachable : BOOLEAN, link : [S -> Bridge \cup {NoRoute}],
             default : (Bridge \X GatewayIp) \cup {NoRoute}]

\* Every variable of the agent and of the host has its type.
HostTypeOK ==
    /\ desired \in HostPolicies /\ reachable \in BOOLEAN
    /\ cache \in HostPolicies \cup {NoHostPolicy}
    /\ bridges \subseteq Bridge
    /\ rule4 \subseteq Subnet /\ rule6 \subseteq Ipv6Subnet
    /\ table4 \in Table(Subnet) /\ table6 \in Table(Ipv6Subnet)
    /\ nft \subseteq {Render(p) : p \in HostPolicies \cup Earlier}
    /\ at \in {"idle", "read4", "read6", "apply"}
    /\ host_policy \in HostPolicies \cup {NoHostPolicy}
    /\ at # "idle" => host_policy \in HostPolicies
    /\ from_cache \in BOOLEAN /\ todo \subseteq Command
    /\ host_policy_failures \in 0..EscalateAfter
    /\ settled \in HostPolicies \cup {NoHostPolicy}
    /\ undisturbed \in BOOLEAN /\ calm \in BOOLEAN

\* What a policy asks of the host.
Installed(p) ==
    /\ Render(p) \in nft
    /\ rule_present(p) /\ table4.unreachable
    /\ table4.link[p.subnet] = p.bridge
    /\ table4.default = <<p.bridge, p.gateway_ip>>
    /\ p.ipv6 # NoIpv6 => ipv6_rule_present(p) /\ ipv6_routes_present(p)

\* A pass of the agent that reports success, and that nothing else on the host
\* interfered with, leaves every part of the policy it reconciled installed,
\* and it stays so until something removes a part (reconcile_with,
\* apply_host_policy, and the comment on the kill-switch marker).
SettledInstalled == settled # NoHostPolicy => Installed(settled)

\* A packet from the enrolled IPv4 subnet cannot be forwarded to the uplink:
\* there is no bridge to send it, or the kill switch rejects it, or the source
\* rule takes it to a table that resolves every destination.
Closed4(p) ==
    \/ p.bridge \notin bridges
    \/ \E block \in nft : block.subnet = p.subnet
    \/ p.subnet \in rule4 /\ (table4.unreachable \/ table4.default # NoRoute)

\* The same of the IPv6 packets of the enrolled bridge.
Closed6(p) ==
    \/ p.bridge \notin bridges
    \/ \E block \in nft : block.bridge = p.bridge
    \/ p.ipv6 \in rule6 /\ (table6.unreachable \/ table6.default # NoRoute)

\* No command of a pass opens a path that was closed before it: stale tables
\* are replaced in one transaction and routes are replaced, never removed.
AgentNeverOpens ==
    [][\A p \in HostPolicies : p = host_policy /\ Pass =>
         /\ Closed4(p) => Closed4(p)'
         /\ Closed6(p) => Closed6(p)']_host_vars

\* With the gateway answering and its bridge present, the policy it publishes is
\* eventually installed whatever was lost before, and stays installed.
EventuallyInstalled ==
    [](calm /\ reachable /\ desired.bridge \in bridges => <>[]Installed(desired))

\* The kill switch does not wait for the bridge or for the gateway: it is
\* installed from the gateway's policy, or else from the cached one
\* ("that must not leave the firewall uninstalled as well").
KillSwitchReturns ==
    \A p \in HostPolicies :
        [](calm /\ (IF reachable THEN desired = p ELSE cache = p) =>
             <>[](\E block \in nft : block.subnet = p.subnet))

\* A gateway that stays silent is reported as a sustained failure, even while
\* the cached policy is being re-asserted ("so keep escalating").
SilenceEscalates == [](calm /\ ~reachable => <>[]host_policy_failure_is_sustained)
=============================================================================

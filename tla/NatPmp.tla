------------------------------- MODULE NatPmp --------------------------------
(***************************************************************************)
(* One lease of the NAT-PMP client of src/src/natpmp.rs as the lease task  *)
(* drives it: the external address, then a UDP and a TCP mapping, each an  *)
(* exchange on a socket of its own that sends its request again with a     *)
(* doubled wait until an answer comes or the wait has reached its limit.   *)
(* Requests and answers may be lost, duplicated, reordered or late; a late *)
(* request still moves the provider's gateway, its answer finds no socket. *)
(*                                                                         *)
(* The gateway is external: it keeps what it granted, else gives the port  *)
(* asked for when it is free, else another one; it forgets mappings (they  *)
(* expire, it restarts) and serves other customers.  An answer of a wrong  *)
(* size, version or opcode and one with a result code are a Refusal.       *)
(***************************************************************************)
EXTENDS Naturals

CONSTANTS InternalPort,             \* the lease's target port
          ExternalPort,             \* public ports of the gateway
          Lifetime,                 \* lifetimes it may grant
          InitialWait, WaitLimit,   \* 250 ms and 2 s
          TheAddress, Refusal,      \* the other answers: the public address, an error
          NoExternal, NoAnswer

Proto == {"udp", "tcp"}
Answer == [external : ExternalPort, lifetime : Lifetime]

ASSUME NatPmpAssumption ==
    /\ InternalPort \in ExternalPort /\ NoExternal \notin ExternalPort
    /\ {NoAnswer, TheAddress, Refusal} \cap Answer = {} /\ Lifetime \subseteq Nat
    /\ InitialWait \in Nat \ {0} /\ WaitLimit \in Nat /\ InitialWait <= WaitLimit

VARIABLES stage,      \* the exchange under way
          wait,       \* its current wait
          asked,      \* the external port its request names
          inbox,      \* answers at its socket
          udp,        \* the UDP mapping, while TCP is asked for
          assigned,   \* slot.assigned_external
          lease,      \* the mapping the latest request returned, or NoAnswer
          late,       \* requests on their way from sockets that are closed
          held,       \* per protocol, the port the gateway maps to the lease
          taken,      \* ports it maps to others
          granted     \* history: the answers to this request, by protocol

request == <<stage, wait, asked, inbox, udp>>
provider == <<held, taken>>
natpmp_vars == <<request, assigned, lease, late, provider, granted>>

NoGrants == [p \in Proto |-> {}]

NatPmpInit ==
    /\ stage = "idle" /\ wait = 0 /\ asked = NoExternal /\ inbox = {} /\ udp = NoAnswer
    /\ assigned = NoExternal /\ lease = NoAnswer /\ late = {}
    /\ held = [p \in Proto |-> NoExternal] /\ taken = {}
    /\ granted = NoGrants
------------------------------------------------------------------------------
(* The client. *)

\* rpc: a new socket, and the request on its way.
rpc(next, external) ==
    /\ stage' = next /\ wait' = InitialWait /\ asked' = external /\ inbox' = {}

\* The socket is closed; its last request is lost or still on its way.
CloseSocket ==
    late' \in {late} \cup (IF stage \in Proto
                          THEN {late \cup {[proto |-> stage, asked |-> asked]}} ELSE {})

\* The outcome.  A mapping's port is kept in the slot, unless the coordinator
\* refuses the DNAT rule because the target is no longer current.
Finish(result) ==
    /\ stage' = "idle" /\ wait' = 0 /\ asked' = NoExternal /\ inbox' = {}
    /\ udp' = NoAnswer /\ CloseSocket
    /\ lease' = result
    /\ assigned' \in IF result = NoAnswer THEN {assigned} ELSE {assigned, result.external}
    /\ granted' = NoGrants
    /\ UNCHANGED provider

\* A pass of maintain_port_forward begins with external_address.
external_address ==
    /\ stage = "idle" /\ rpc("address", NoExternal)
    /\ UNCHANGED <<udp, assigned, lease, late, provider, granted>>

requested_external == IF assigned = NoExternal THEN InternalPort ELSE assigned

\* The first answer at the socket is the answer.
AddressKnown ==
    /\ stage = "address" /\ inbox # {} /\ Refusal \notin inbox
    /\ rpc("udp", requested_external)
    /\ UNCHANGED <<udp, assigned, lease, late, provider, granted>>

UdpGranted(a) ==
    /\ stage = "udp" /\ a \in inbox \ {Refusal}
    /\ udp' = a /\ rpc("tcp", a.external) /\ CloseSocket
    /\ UNCHANGED <<assigned, lease, provider, granted>>

\* Planted fault: the two mappings are not compared.
faulty_request_symmetric_mapping(u, t) == [u EXCEPT !.external = t.external]

\* The end of request_symmetric_mapping.
request_symmetric_mapping(u, t) ==
    IF u.external # t.external THEN NoAnswer
    ELSE [external |-> u.external,
          lifetime |-> IF u.lifetime < t.lifetime THEN u.lifetime ELSE t.lifetime]

TcpGranted(a) ==
    /\ stage = "tcp" /\ a \in inbox \ {Refusal}
    /\ Finish(request_symmetric_mapping(udp, a))

Refused ==
    /\ stage # "idle" /\ Refusal \in inbox
    /\ Finish(NoAnswer)

\* Planted fault: the wait is not doubled.
FaultyTimeout ==
    /\ stage # "idle" /\ inbox = {}
    /\ IF wait < WaitLimit THEN UNCHANGED natpmp_vars
       ELSE Finish(NoAnswer)

\* Nothing arrived in time: the request is sent again, or given up.
Timeout ==
    /\ stage # "idle" /\ inbox = {}
    /\ IF wait < WaitLimit
       THEN /\ wait' = 2 * wait
            /\ UNCHANGED <<stage, asked, inbox, udp, assigned, lease, late, provider, granted>>
       ELSE Finish(NoAnswer)

\* The socket cannot be bound or used: the tunnel is absent.
SocketFails ==
    /\ stage # "idle" /\ Finish(NoAnswer)

\* reconcile_lease_targets gives the slot up: the target changed.
GiveUpSlot ==
    /\ stage = "idle" /\ assigned' = NoExternal /\ lease' = NoAnswer
    /\ UNCHANGED <<request, late, provider, granted>>

Exchange ==
    \/ AddressKnown \/ Refused \/ Timeout
    \/ \E a \in Answer : UdpGranted(a) \/ TcpGranted(a)
------------------------------------------------------------------------------
(* The provider's gateway. *)

Free(p) == {e \in ExternalPort : <<p, e>> \notin taken}

\* The port it maps to the lease when asked for port e.
Mapped(p, e) ==
    IF held[p] # NoExternal THEN {held[p]}
    ELSE IF e \in Free(p) THEN {e} ELSE Free(p)

\* A request of the open socket arrives, once or again, and is answered.
GatewayAnswers ==
    /\ stage \in Proto
    /\ \E e \in Mapped(stage, asked), l \in Lifetime :
          /\ held' = [held EXCEPT ![stage] = e]
          /\ inbox' = inbox \cup {[external |-> e, lifetime |-> l]}
          /\ granted' = [granted EXCEPT ![stage] = @ \cup {[external |-> e, lifetime |-> l]}]
    /\ UNCHANGED <<stage, wait, asked, udp, assigned, lease, late, taken>>

GatewayTellsAddress ==
    /\ stage = "address" /\ inbox' = inbox \cup {TheAddress}
    /\ UNCHANGED <<stage, wait, asked, udp, assigned, lease, late, provider, granted>>

GatewayRefuses ==
    /\ stage # "idle" /\ inbox' = inbox \cup {Refusal}
    /\ UNCHANGED <<stage, wait, asked, udp, assigned, lease, late, provider, granted>>

\* A request of a closed socket arrives; nobody hears the answer.
LateRequest(r) ==
    /\ late' = late \ {r}
    /\ \E e \in Mapped(r.proto, r.asked) : held' = [held EXCEPT ![r.proto] = e]
    /\ UNCHANGED <<request, assigned, lease, taken, granted>>

GatewayForgets(p) ==
    /\ held[p] # NoExternal /\ held' = [held EXCEPT ![p] = NoExternal]
    /\ UNCHANGED <<request, assigned, lease, late, taken, granted>>

\* Another customer gets a port, or gives it back.
OtherCustomer(p, e) ==
    /\ held[p] # e
    /\ taken' \in {taken \cup {<<p, e>>}, taken \ {<<p, e>>}}
    /\ UNCHANGED <<request, assigned, lease, late, held, granted>>

Provider ==
    \/ GatewayAnswers \/ GatewayTellsAddress \/ GatewayRefuses
    \/ \E r \in late : LateRequest(r)
    \/ \E p \in Proto : GatewayForgets(p)
    \/ \E p \in Proto, e \in ExternalPort : OtherCustomer(p, e)

NatPmpNext == external_address \/ Exchange \/ SocketFails \/ GiveUpSlot \/ Provider

\* A received answer is taken and a timer fires: the task is polled.
NatPmpFairness == WF_natpmp_vars(Exchange)

NatPmpSpec == NatPmpInit /\ [][NatPmpNext]_natpmp_vars /\ NatPmpFairness
------------------------------------------------------------------------------
\* Every variable has its type.
NatPmpTypeOK ==
    /\ stage \in Proto \cup {"idle", "address"}
    /\ wait \in 0..(2 * WaitLimit - 1) /\ asked \in ExternalPort \cup {NoExternal}
    /\ inbox \subseteq Answer \cup {TheAddress, Refusal}
    /\ udp \in Answer \cup {NoAnswer} /\ lease \in Answer \cup {NoAnswer}
    /\ assigned \in ExternalPort \cup {NoExternal}
    /\ late \subseteq [proto : Proto, asked : ExternalPort]
    /\ held \in [Proto -> ExternalPort \cup {NoExternal}]
    /\ taken \subseteq Proto \X ExternalPort
    /\ granted \in [Proto -> SUBSET Answer]

\* A mapping that is returned was granted for UDP and for TCP, by answers to
\* this very request, on one public port and for at least the lifetime it is
\* reported with, whichever of several answers arrived first
\* (request_symmetric_mapping).
LeaseSymmetric ==
    [][stage # "idle" /\ stage' = "idle" /\ lease' # NoAnswer =>
         \A p \in Proto : \E a \in granted[p] :
            a.external = lease'.external /\ lease'.lifetime <= a.lifetime]_natpmp_vars

\* Every request ends, answered or not: the lease task, which joins the requests
\* of all its leases, cannot be held up by a silent gateway.
RequestEnds == stage # "idle" ~> stage = "idle"
==============================================================================

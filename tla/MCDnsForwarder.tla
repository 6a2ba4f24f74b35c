--------------------------- MODULE MCDnsForwarder ---------------------------
(* Two clients that compete for two permits, two resolvers, one name to       *)
(* cache and one container name.                                              *)
EXTENDS DnsForwarder, TLC

CONSTANTS q1, short, c1, c2, w1, w2, u1, u2

Answer(ttl) == [rcode |-> "NoError", truncated |-> FALSE, answers |-> {ttl}, soas |-> {}]
Denial(ttl, minimum) ==
    [rcode |-> "NXDomain", truncated |-> FALSE, answers |-> {}, soas |-> {<<ttl, minimum>>}]
Cut == [rcode |-> "NoError", truncated |-> TRUE, answers |-> {}, soas |-> {}]
Failure == [rcode |-> "ServFail", truncated |-> FALSE, answers |-> {}, soas |-> {}]

MCResponses == {Answer(3), Denial(2, 1), Cut, Failure}

Symmetric == Permutations(Worker) \cup Permutations(Client) \cup Permutations(Upstream)
==============================================================================

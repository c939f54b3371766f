------------------------------- MODULE MCSynth -------------------------------
(***************************************************************************)
(* Instances of Synth: one or two hosts in a subnet, or in two of which    *)
(* one contains the other, with a forward and a reverse zone.              *)
(***************************************************************************)
EXTENDS Synth, TLC

Symmetric == Permutations(Handlers)

V4 == [a \in Addrs |-> "A"]
ReverseOnly == [a \in Addrs |-> {2}]
Nested == [s \in Subnets |-> IF s = 1 THEN Addrs ELSE {"a2"}]

ByHand ==
    {[name |-> <<"web", 1>>, type |-> "A", target |-> Typed],
     [name |-> <<"a1">>, type |-> "PTR", target |-> <<"web", 1>>]}

\* A host with one address in a linked subnet, not synthesized yet.
OneHost ==
    [hosts |-> [i \in {1} |-> [label |-> "web", dns |-> TRUE]],
     ips |-> [i \in {1} |-> [host |-> 1, addr |-> "a1", kind |-> "static"]],
     zones |-> Zones,
     subnets |-> {1},
     links |-> {[subnet |-> 1, zone |-> 1, role |-> "forward"],
                [subnet |-> 1, zone |-> 2, role |-> "reverse"]},
     manual |-> Empty,
     auto |-> Empty]

=============================================================================

------------------------------- MODULE MCNetdb -------------------------------
(***************************************************************************)
(* An instance of Netdb: a host with one address in a subnet that has a    *)
(* forward zone, whose record has neither been synthesized nor published.  *)
(***************************************************************************)
EXTENDS Netdb, MCSynth

OneZone ==
    [OneHost EXCEPT !.links = {[subnet |-> 1, zone |-> 1, role |-> "forward"]}]

AddressByHand == {[name |-> <<"web", 1>>, type |-> "A", target |-> Typed]}

=============================================================================

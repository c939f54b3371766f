------------------------------ MODULE MCLeases ------------------------------
(***************************************************************************)
(* Instances of Leases.  Devices of one vendor, which call themselves the  *)
(* same or nothing at all, show every name the poller can choose.  Kea may *)
(* spell the first device in capitals, and write a hardware address that   *)
(* is no MAC address; an IPv4 address has one spelling.                    *)
(***************************************************************************)
EXTENDS Leases

CONSTANTS m1, M1, longer, a1, a2

OneVendor == [m \in MACs |-> "b827eb"]

SpelledMAC == [t \in HWTexts |->
    IF t \in MACs THEN t ELSE IF t = M1 THEN m1 ELSE Unparsable]
SpelledIP == [t \in IPTexts |-> t]

InNormalForm == [hw : MACs, ip : IPTexts, hostname : Hostnames]

\* Two rows that every poll stores and prunes, and deletes that fail, use up ids
\* for ever: only one lease is spelled otherwise, and one does not parse.
Anyhow ==
    [hw : {m1}, ip : IPTexts, hostname : Hostnames] \union
    [hw : MACs, ip : {a2}, hostname : Hostnames] \union
    {[hw |-> M1, ip |-> a1, hostname |-> "none"],
     [hw |-> longer, ip |-> a2, hostname |-> "pi"]}

\* A device of this vendor that calls itself "pi" finds both its names taken.
BothTaken == {<<"pi">>, <<"pi", "b827eb">>}

=============================================================================

------------------------------ MODULE MCKeaSync ------------------------------
(***************************************************************************)
(* An instance of KeaSync, with addresses of two octets: a subnet that     *)
(* leaves one octet free, one of half its size inside it, an IPv6 one and  *)
(* a text that is no CIDR.                                                 *)
(***************************************************************************)
EXTENDS KeaSync

Families == <<"v4", "v4", "v6", "garbage">>
Networks == <<<<1, 0>>, <<1, 128>>, <<>>, <<>>>>
Free == <<8, 7, 0, 0>>

Bounds(start, end) == [start |-> start, end |-> end]

\* No pool; a short form, which is outside the narrow subnet, with an address; the
\* same reversed; a bound that does not parse.
Entered == {Bounds(<<>>, <<>>), Bounds(<<10>>, <<1, 20>>), Bounds(<<30>>, <<1, 20>>),
            Bounds(<<10>>, <<300>>)}

Row(mac, addr) == [mac |-> mac, addr |-> addr]
\* One device twice, another one with one of its addresses.
Rows == {Row("m1", <<1, 5>>), Row("m1", <<1, 200>>), Row("m2", <<1, 200>>)}

OneSubnet == [c \in {1} |-> Bounds(<<10>>, <<1, 20>>)]
OneRow == {Row("m1", <<1, 200>>)}

=============================================================================

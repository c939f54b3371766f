----------------------------- MODULE MCReconcile -----------------------------
(***************************************************************************)
(* Instances of Reconcile.  One name whose records change between two      *)
(* addresses and an alias is enough for every order of adds and deletes;   *)
(* an NS record stands for what netdb does not manage.                     *)
(***************************************************************************)
EXTENDS Reconcile

Rec(name, type, value, dot) ==
    [name |-> name, type |-> type, value |-> value, dot |-> dot]

A(value) == Rec("host", "A", value, FALSE)
Alias(dot) == Rec("host", "CNAME", "www", dot)
NS == Rec("apex", "NS", "ns1", FALSE)

\* Provider 1, provider 2.
KindOf == <<"technitium", "cloudflare">>
BothKinds == {"technitium", "cloudflare"}
\* The provider that comes first is not configured.
SkippedFirst == <<"cloudflare", "technitium">>
TechnitiumOnly == {"technitium"}

\* The address of a host is added, changed, doubled and replaced by an alias.
Renumbering == {{}, {A("v1")}, {A("v2")}, {A("v1"), A("v2")}, {Alias(FALSE)}}
\* An address replaced by an alias, which excludes it.
Excluding == {{A("v1")}, {Alias(FALSE)}}
Strays == {A("v3"), NS}

\* Runs can follow both of these.
ASSUME CanBeFollowed == Desires \in {Renumbering, Excluding} => Listable /\ Compatible

\* An alias that the user typed with a trailing dot.
Dotted == {{}, {Alias(TRUE)}}

=============================================================================

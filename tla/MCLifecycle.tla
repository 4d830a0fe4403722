---------------------------- MODULE MCLifecycle ----------------------------
(* Editions of one chicco.yaml: providers a and b, models x and y.          *)
EXTENDS Lifecycle, TLC

CONSTANTS a, b, x, y

Requests(n) == {[unit |-> "requests", window |-> 1, max |-> n]}

Entry(n, key, quota) ==
  [heading |-> n, name |-> "", models |-> <<>>, kind |-> "http", key |-> key,
   quota |-> quota, weight |-> 0, place |-> TRUE, fields |-> TRUE]

To(p, m, quota) == [provider |-> p, model |-> m, quota |-> quota, weight |-> 1]
Virtual(id, backends) == [id |-> id, strategy |-> "", backends |-> backends]

\* Map format: the models of both come from the routing table; a/x has a quota of
\* its own, and so has b.
Both ==
  [parses |-> TRUE,
   providers |-> <<Entry(a, "set", {}), Entry(b, "set", Requests(2))>>,
   models |-> <<Virtual("vm", <<To(a, x, <<Requests(2)>>), To(b, x, <<>>)>>)>>,
   aliases |-> ("fast" :> "vm"),
   quota |-> Requests(3)]

\* b is commented out, its backend is not.
WithoutB == [Both EXCEPT !.providers = <<@[1]>>]

\* The quota of a/x is commented out.
WithoutQuota == [Both EXCEPT !.models = <<Virtual("vm", <<To(a, x, <<>>), To(b, x, <<>>)>>)>>]

\* It is there, and all its limits are.
Unlimited == [Both EXCEPT !.models[1].backends[1].quota = <<Requests(0)>>]

\* The alias is left pointing at a model that was renamed.
Dangling == [Both EXCEPT !.models[1].id = "vm2"]

\* Half saved.
Garbled == [Both EXCEPT !.parses = FALSE]

\* b's entry is a copy of a's; a reload does not take it.
Copied == [Both EXCEPT !.providers[2].heading = a]

\* No key in the environment; a reload takes it, a start does not.
Keyless == [Both EXCEPT !.providers[1].key = "blank", !.providers[2].key = ""]

Editions == {Both, WithoutB, WithoutQuota, Unlimited, Dangling, Garbled, Copied, Keyless}
=============================================================================

------------------------------ MODULE MCReload ------------------------------
(* Reloads between two small configurations.                                *)
EXTENDS Reload, MCRotation

\* p alone serves m as the virtual model.
Only(p, m) ==
  [strategy |-> "order", backends |-> [q \in Providers |-> IF q = p THEN <<m>> ELSE <<>>]]

Table(cfg, ids, routes) == [cfg EXCEPT !.routes = routes] @@ [table |-> ids]

Base == Plain(<<x, y>>)
WithoutB == [Base EXCEPT !.providers = {a}, !.models = [p \in Providers |->
                           IF p = a THEN <<x, y>> ELSE <<>>]]

VmOther == ("vm" :> Only(a, x)) @@ ("other" :> Only(b, y))

\* Provider b and its virtual model come and go; the pool and b have quotas.
ComeAndGo ==
  LET limited(cfg) == [cfg EXCEPT !.quota =
                         [NoQuota EXCEPT ![b] = {Lim("requests", 2, 1)},
                                         ![GlobalKey] = {Lim("requests", 3, 2)}]]
  IN  { Table(limited(Base), <<"vm", "other">>, VmOther),
        Table(limited(WithoutB), <<"vm">>, ("vm" :> Only(a, x))) }

\* A virtual model is removed.
Shortened ==
  { Table(Base, <<"other", "vm">>, VmOther), Table(Base, <<"vm">>, ("vm" :> Only(a, x))) }

OnlyNotFound == {NotFound}

ReloadAsks == { [model |-> "vm", path |-> "chat"], [model |-> "other", path |-> "chat"],
                [model |-> "chicco:auto", path |-> "chat"] }
=============================================================================

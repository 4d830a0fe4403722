---------------------------- MODULE MCSelfTest ----------------------------
(* Tests of all models under the requests of two clients.                  *)
EXTENDS SelfTest, MCRotation, CLIErrors

\* A virtual model over both providers, behind an alias.
TestPool ==
  { WithRoute([Plain(<<x>>) EXCEPT !.aliases = ("fast" :> "vm")],
              "vm", "random", [p \in Providers |-> <<x>>]) }

\* What a CLI tool that is logged out is taken for: a bad key.
NoClause == [units |-> 0, clock |-> {}]
LoggedOut == {cliFailure([said |-> {"auth", "limit"}, shown |-> {}, clause |-> NoClause], 0)}
ASSUME LoggedOutIsABadKey == LoggedOut = {BadKey}
AliasAsk == {[model |-> "fast", path |-> "embeddings"]}
=============================================================================

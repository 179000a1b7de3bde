---------------------------- MODULE MCChainReads ----------------------------
(* Small instances of ChainReads for TLC. *)
EXTENDS ChainReads

\* "A1" is the address "a1" in another spelling.
MCText == {"a1", "A1", "a2", "a3", "t1", "t2", "t3"}

MCHex == [x \in MCText |-> IF x = "A1" THEN "a1" ELSE x]

\* The first eight bytes tell addresses apart, as a rule.
MCPrefix == [x \in MCText |-> x]

\* A block that may not be there yet.
MCNumber == [m \in {"2"} |-> 2]

Ask0(chain, addrs, tokens, mode) ==
  [chain |-> chain, addrs |-> addrs, tokens |-> tokens, mode |-> mode]

Of(a, s) == [x \in {a} |-> s]

None0 == [x \in {} |-> <<>>]

MCQuery == {
  Ask0("ETH", <<"a1">>, Of("a1", <<"t1", "t2", "t3">>), ""),
  Ask0("ETH", <<"a1">>, None0, "safe"),
  Ask0("ETH", <<>>, Of("A1", <<"t1">>), "2"),
  Ask0("SOLANA", <<"a1", "a2">>, None0, "finalized"),
  BalanceOf("SOLANA", "a1", "t1"),
  Ask0("TRON", <<"a1">>, Of("a1", <<"t1">>), "latest"),
  Ask0("BTC", <<"a1">>, None0, "")}

MCQueryTron == {
  Ask0("TRON", <<"a1">>, Of("a1", <<"t1">>), "latest"),
  Ask0("TRON", <<"a1">>, Of("a1", <<"t2">>), "latest_solid")}
=============================================================================

--------------------------- MODULE MCWalletCreate ---------------------------
(* Small instances of WalletCreate for TLC. *)
EXTENDS WalletCreate, TLC

\* ETH and ARB share a coin type, BSC_TESTNET has no address format.
MCChain == {"ETH", "ARB", "SOLANA", "BSC_TESTNET"}
MCCoinType == [n \in MCChain |-> IF n = "SOLANA" THEN 501 ELSE 60]
MCDerivable == {"ETH", "ARB", "SOLANA"}
MCSeeded == {"SOLANA"}

\* An alias, which is never found under the name it is stored by; a chain
\* derived from the seed; and one for which no address can be derived.
MCCode == {"arbitrum", "ETH", "SOLANA", "BSC_TESTNET"}
MCName == [c \in MCCode |-> IF c = "arbitrum" THEN "ARB" ELSE c]

Call(t, body, code, i) == [tenant |-> t, body |-> body, code |-> code, index |-> i]

\* With and without a tenant id and with the one of another tenant, indexes of
\* 31 and of 32 bits, and a tenant whose id has 32 bits.
MCRequest ==
  {Call(1, body, "ETH", 0) : body \in {0, 1, 2}} \cup {Call(2, 2, "ETH", 0)}
    \cup {Call(t, 2, "SOLANA", 0) : t \in {1, 2}}
    \cup {Call(1, 1, code, Half) : code \in {"ETH", "SOLANA"}}
    \cup {Call(1, 1, "arbitrum", 1), Call(1, 1, "BSC_TESTNET", 0)}
    \cup {Call(Half + 1, 0, "ETH", 1)}

MCOneRequest == {Call(1, 1, code, 0) : code \in MCCode \ {"ETH"}}

MCSymmetry == Permutations(Req)
=============================================================================

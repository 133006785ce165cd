------------------------------ MODULE MC_Apply ------------------------------
(* Small instances of Apply for TLC: configurations.                       *)
EXTENDS Apply

Config(decl, edges) ==
    [decl |-> decl,
     deps |-> [a \in Addrs |-> {b \in Addrs : <<a, b>> \in edges}]]

\* One address, declared.
Single == {Config({1}, {})}

\* Address 1 uses 2 and 2 uses 3: execution order against lexical order.
Chain == {Config({1, 2, 3}, {<<1, 2>>, <<2, 3>>})}

\* 1 uses 2; then the reference and the block of 2 are removed.
Shrinking == {Config({1, 2}, {<<1, 2>>}), Config({1}, {})}
=============================================================================

------------------------------- MODULE MCTdma -------------------------------
\* Tdma on small networks.
EXTENDS Tdma

Nodes == 0..NUM_NODES-1
Both(pairs) == pairs \cup {<<p[2], p[1]>> : p \in pairs}

\* Leaf 1 reaches the root over leaf 2, or both reach it and each other.
Chain == Both({<<0, 2>>, <<1, 2>>})
Triangle == Both({<<0, 1>>, <<0, 2>>, <<1, 2>>})
OnlyChain == {Chain}
ChainAndTriangle == {Chain, Triangle}

Packets == [id : 0..NUM_NODES, route : BoundedSeq(1..NUM_NODES-1, PKT_LEN - 2)]

=============================================================================

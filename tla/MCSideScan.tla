----------------------------- MODULE MCSideScan -----------------------------
EXTENDS SideScan, TLC

AddBulk(S, new) == [kind |-> "add", addrs |-> S, areNew |-> new]
ForceScan       == [kind |-> "force", addrs |-> {}, areNew |-> FALSE]
RemoveBulk(S)   == [kind |-> "remove", addrs |-> S, areNew |-> FALSE]

MCAddr == {"a", "b"}
MCBatch == 1 .. 2
MCRequests ==
    {<<AddBulk({"a"}, FALSE), AddBulk({"b"}, new)>> : new \in BOOLEAN}
    \cup {<<AddBulk({"a"}, FALSE), ForceScan>>, <<AddBulk({"a", "b"}, FALSE), RemoveBulk({"a"})>>}
MCStart == <<0>>
=============================================================================

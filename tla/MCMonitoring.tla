----------------------------- MODULE MCMonitoring -----------------------------
(* Instance for TLC: two threads, two endpoints, an exception of each kind, *)
(* two with status 404, two keys of a prefix and one of another.            *)
EXTENDS Monitoring

MCSymmetry == Permutations(Threads)
MCStatusOf == [x \in ApiErrors \cup HttpExceptions |-> IF x = "TooManyRequests" THEN 429 ELSE 404]
MCPrefixOf == [k \in Keys |-> IF k = "stats:a" THEN "stats" ELSE "ip"]
=============================================================================

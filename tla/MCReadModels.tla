---------------------------- MODULE MCReadModels ----------------------------
(* Instance for TLC. *)
EXTENDS FortigateRegistration

MCSymmetry == Permutations(Http)

R(id, ip, data, active, confidence, country, detected, created, raw) ==
    [id |-> id, ip |-> ip, source |-> "REGTECH", data |-> data, active |-> active,
     confidence |-> confidence, country |-> country, detected |-> detected, removal |-> None,
     seen |-> created, created |-> created, updated |-> created, count |-> 6, raw |-> raw]
MCTables ==
    {[rows |-> {}, white |-> {}, runs |-> {}, up |-> TRUE],
     [rows |-> {R(1, "a", "REGTECH", TRUE, 85, "UNKNOWN", 33, 33, "cells"),
                R(2, "b", None, TRUE, 50, None, None, 39, "api"),
                R(3, "c", "MANUAL", FALSE, 20, "KR", 5, 5, "flat")},
      white |-> {[id |-> 4, ip |-> "b", active |-> TRUE, source |-> "MANUAL", created |-> 20]},
      runs |-> {[id |-> 5, service |-> "REGTECH", date |-> 33, items |-> 2, success |-> TRUE],
                [id |-> 6, service |-> "OTHER", date |-> 10, items |-> 3, success |-> FALSE]},
      up |-> TRUE],
     [rows |-> {R(1, "a", "REGTECH", TRUE, 80, "KR", 39, 39, "cells"),
                R(2, "b", "REGTECH", TRUE, 49, "US", 39, 39, "empty")},
      white |-> {}, 
      runs |-> {[id |-> 3, service |-> "REGTECH", date |-> 1, items |-> 2, success |-> TRUE]},
      up |-> TRUE]}
MCPayloads ==
    {[source |-> "MANUAL", data |-> "REGTECH", active |-> TRUE, confidence |-> 100,
      country |-> None, detected |-> 40, removal |-> None],
     [source |-> "REGTECH", data |-> "REGTECH", active |-> FALSE, confidence |-> 79,
      country |-> "KR", detected |-> None, removal |-> 40]}
=============================================================================

------------------------------ MODULE MCSettings ------------------------------
(* Instance for TLC: a first start (the row that the schema inserts), pairs  *)
(* of an older release stored as plain text, and a sealed row.               *)
EXTENDS SourceCredentials

Form(source, user, password, enabled, config) ==
    [source |-> source, user |-> user, password |-> password, enabled |-> enabled,
     interval |-> "daily", config |-> config]
MCForms ==
    {Form("REGTECH", "ann", "p", TRUE, "none"), Form("REGTECH", "bob", "q", FALSE, "none"),
     Form("REGTECH", "bob", Mask, TRUE, "none"), Form("REGTECH", "", "", TRUE, "none"),
     Form("CLOUDFLARE", "", "p", TRUE, "ids"), Form("CLOUDFLARE", "ann", "", None, "ids"),
     Form("CLOUDFLARE", "", "", FALSE, "blank")}

OldRow(user, payload, encrypted) ==
    [REGTECH |-> [user |-> user, payload |-> payload, encrypted |-> encrypted, active |-> TRUE,
                  enabled |-> TRUE, config |-> "url"],
     CLOUDFLARE |-> Absent]
MCRows ==
    {[s \in Sources |-> Absent], OldRow("", Plain(""), FALSE), OldRow("ann", Plain("o"), FALSE),
     OldRow("ann", [key |-> "k1", user |-> "ann", password |-> "o"], TRUE),
     [OldRow("ann", Plain("o"), FALSE) EXCEPT !.CLOUDFLARE =
          [user |-> "cloudflare-api", payload |-> Plain("o"), encrypted |-> FALSE, active |-> TRUE,
           enabled |-> TRUE, config |-> "ids"]]}
MCEnvPair == [user |-> "env", password |-> "e"]
MCBatches == {{"interval", "url"}, {"url", "admin_hash", Incomplete}, {"interval", Malformed}}
MCSymmetry == Permutations(Http)
=============================================================================

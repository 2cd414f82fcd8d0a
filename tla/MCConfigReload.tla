--------------------------- MODULE MCConfigReload ---------------------------
(***************************************************************************)
(* Instances of ConfigReload.                                              *)
(***************************************************************************)
EXTENDS ConfigReload

y(ok, ver, w, r, g) == [ok |-> ok, ver |-> ver, waf |-> w, rules |-> r, geo |-> g]

\* Malformed; two versions with geo; one without geo; WAF off, with and
\* without a rules_file left in the config.
AllYaml == {y(FALSE, "v1", TRUE, TRUE, FALSE), y(TRUE, "v1", TRUE, TRUE, TRUE),
            y(TRUE, "v2", TRUE, TRUE, TRUE), y(TRUE, "v2", TRUE, TRUE, FALSE),
            y(TRUE, "v2", FALSE, TRUE, FALSE), y(TRUE, "v1", FALSE, FALSE, FALSE)}
=============================================================================

---- MODULE MCNodeJoin ----
EXTENDS NodeJoin

W(v, g, f, s, t) == [vip |-> v, given |-> g, faults |-> f, serial |-> s, patient |-> t]

\* One migration after the other, with errors, with kills; a second one
\* before the first node has arrived; two at a time.
MCWorlds ==
    {W(TRUE, FALSE, {}, TRUE, TRUE), W(TRUE, TRUE, {"api"}, TRUE, TRUE),
     W(TRUE, FALSE, {"kill"}, TRUE, TRUE),
     W(FALSE, FALSE, {}, TRUE, FALSE), W(FALSE, FALSE, {}, FALSE, FALSE)}

MCEnvs == joinConfigs
====

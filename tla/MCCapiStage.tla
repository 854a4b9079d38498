---- MODULE MCCapiStage ----
EXTENDS CapiStage

CONSTANTS a, b

\* a has one architecture and b two.
MCArch ==
    [c \in Clusters |-> [r \in Roles |-> IF c = b /\ r = "md" THEN "arm64" ELSE "amd64"]]

W(o, sh, s, f, u, p, n) ==
    [olvm |-> o, arch |-> MCArch, shared |-> sh, serial |-> s, faults |-> f,
     uploads |-> u, applies |-> p, edits |-> FALSE, made |-> "now", budget |-> n]

\* OLVM only: one cluster made by an older ocne, whose control plane a user
\* changes, where patches are applied before anything else or at any time.
Older(m, f, p) ==
    [W({a}, {}, TRUE, f, FALSE, p, 3) EXCEPT !.edits = TRUE, !.made = m]

\* Nothing fails and patches are applied, with two OCI clusters or one of
\* each provider; a template that both roles use, and uploads; failures;
\* commands that overlap.
MCWorlds ==
    {W({}, {}, TRUE, FALSE, FALSE, TRUE, 3), W({b}, {}, TRUE, FALSE, FALSE, TRUE, 3),
     W({b}, {a}, TRUE, FALSE, TRUE, FALSE, 3), W({b}, {}, TRUE, TRUE, FALSE, FALSE, 3),
     W({a}, {}, FALSE, TRUE, FALSE, FALSE, 2), W({}, {}, FALSE, FALSE, FALSE, TRUE, 2),
     Older("now", FALSE, TRUE), Older("before", FALSE, TRUE),
     Older("long ago", FALSE, TRUE), Older("long ago", FALSE, FALSE)}
====

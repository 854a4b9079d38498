---------------------------- MODULE MCByoDriver -----------------------------
(* ByoDriver for TLC: one configuration per behaviour, with a virtual IP or  *)
(* a load balancer, the default port and another, and each mistake.          *)
EXTENDS ByoDriver

F(vip, lb, port, auto) ==
    [virtualIp |-> vip, loadBalancer |-> lb, port |-> port, alt |-> 6444, iface |-> "eth0",
     osRegistry |-> "good", extra |-> "none", automatic |-> auto]
Vip == F("address", "", 6443, TRUE)
Good == {Vip, F("", "address", 6443, TRUE), F("address", "", 6443, FALSE), F("", "address", 6445, TRUE)}
Bad == {F("", "", 6443, TRUE), F("address", "address", 6443, TRUE),
        [Vip EXCEPT !.alt = 6443], [Vip EXCEPT !.automatic = FALSE, !.alt = 6443],
        [Vip EXCEPT !.iface = ""], [Vip EXCEPT !.osRegistry = "tagged"],
        [Vip EXCEPT !.osRegistry = "malformed"],
        [Vip EXCEPT !.extra = "malformed"], [Vip EXCEPT !.extra = "directory"]}
MCFiles == Good \cup Bad \cup {[Vip EXCEPT !.extra = "good"]}

W(c, f, n, t, g) == [config |-> c, faults |-> f, named |-> n, tty |-> t, again |-> g]
MCWorlds ==
    {W(c, FALSE, TRUE, FALSE, FALSE) : c \in MCFiles}
        \cup {W(c, TRUE, TRUE, FALSE, FALSE) : c \in Good}
        \cup {W(Vip, FALSE, FALSE, FALSE, FALSE), W(Vip, FALSE, TRUE, TRUE, FALSE), W(Vip, FALSE, TRUE, FALSE, TRUE)}
=============================================================================

---- MODULE MCDpiDaemon ----
EXTENDS DpiDaemon
MCOrder == <<"ip", "ip6">>
\* Faults, operations beside each other and a third operation are followed singly; the
\* third one may still come after two that ran beside each other.
Followed ==
    /\ crashes + fails > 0 => orders < 3 /\ ~crossed
    /\ crossed => orders < 3
====

---- MODULE MCRefresh ----
EXTENDS Refresh
CONSTANTS t1, t2, r1
MCOrder1 == <<node, t1>>
MCOrder2 == <<node, t1, t2>>
====

---- MODULE MCServiceControl ----
EXTENDS ServiceControl
====

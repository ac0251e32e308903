---- MODULE MCServerLifecycle ----
EXTENDS ServerLifecycle
====

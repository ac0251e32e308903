---- MODULE MCCacheBatch ----
EXTENDS CacheBatch
CONSTANTS node, t1, t2
\* A full refresh stages the node file and every enabled template in name order; an
\* on-demand refresh stages one template.
MCBatches == {<<node, t1, t2>>, <<t1>>}
====

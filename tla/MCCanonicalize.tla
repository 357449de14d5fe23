---- MODULE MCCanonicalize ----
EXTENDS Canonicalize
====

---- MODULE MCBisectMerge ----
\* BisectMerge on every chain of up to nine dimgs.
EXTENDS BisectMerge
====

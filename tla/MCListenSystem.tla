---- MODULE MCListenSystem ----
EXTENDS ListenSystem
====

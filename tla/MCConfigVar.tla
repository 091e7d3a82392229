---------------------------- MODULE MCConfigVar ----------------------------
EXTENDS ConfigVar
====

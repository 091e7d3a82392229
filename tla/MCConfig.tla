------------------------------ MODULE MCConfig ------------------------------
EXTENDS Config
====

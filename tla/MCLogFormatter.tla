--------------------------- MODULE MCLogFormatter ---------------------------
EXTENDS LogFormatter

MCChars == {"%", "{", "}", "m", "x", " "}
MCAlpha == {"m", "x"}
MCKeys == {<<"m">>}
====

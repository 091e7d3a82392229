------------------------------- MODULE MCLogger -------------------------------
(* The Logger module with small sets of threads, names, levels and        *)
(* patterns for TLC.                                                       *)
EXTENDS Logger

MCChars == {"%", "m", "x"}
MCAlpha == {"m", "x"}
MCKeys == {<<"m">>}
(* "%m" stands for the constructor's valid default pattern; "%x" names an *)
(* unknown item, so LogFormatter("%x") reports an error.                  *)
MCDefaultPattern == <<"%", "m">>
MCPatterns == {<<"m">>, <<"%", "x">>}
MCNames == {"root", "a"}
====

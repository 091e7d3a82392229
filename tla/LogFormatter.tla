---------------------------- MODULE LogFormatter ----------------------------
(***************************************************************************)
(* The log pattern parser of src/src/base/util/log/log.cc: the LogFormatter *)
(* constructor and LogFormatter::init, which split a pattern such as      *)
(* "%d{%H:%M}%T[%p]%T%m%n" into literal text and format items.            *)
(*                                                                         *)
(* Strings are sequences of characters drawn from the constant Chars; the  *)
(* two loops of init are the RECURSIVE operators Scan (the inner while)   *)
(* and Split (the outer for), written with the code's 0-based indices.    *)
(* A reference parser written from the grammar the code documents         *)
(* ("%xxx %xxx{xxx} %%" and the key list of the header) is RefParse.      *)
(***************************************************************************)
EXTENDS Naturals, Sequences, SequencesExt

CONSTANTS
    Chars,          \* the characters patterns are built from
    Alpha,          \* the members of Chars for which isalpha() holds
    Keys,           \* the names registered in s_format_items, as sequences
    UninitError,    \* values the uninitialised bool m_error can hold
    MaxPatternLen   \* bound on the length of a pattern

ASSUME /\ {"%", "{", "}"} \subseteq Chars
       /\ Alpha \subseteq Chars \ {"%", "{", "}"}
       /\ Keys \subseteq Seq(Alpha)
       /\ UninitError \subseteq BOOLEAN /\ UninitError # {}
       /\ MaxPatternLen \in Nat

VARIABLES
    m_pattern,  \* LogFormatter::m_pattern
    m_items,    \* LogFormatter::m_items, one record per FormatItem
    m_error     \* LogFormatter::m_error

vars == <<m_pattern, m_items, m_error>>

(* A FormatItem: a StringFormatItem carries its text, every other item its *)
(* key and the {fmt} argument handed to its constructor.                  *)
StringItem(text) == [item |-> "string", arg |-> text]
KeyItem(key, fmt) == [item |-> key, arg |-> fmt]

(* The texts init writes into StringFormatItems when it reports an error. *)
PatternErrorText == <<"<Pattern Error>">>
ErrorFormatText(str) == <<"<<error_format %">> \o str \o <<">>">>

(* std::string::operator[] and substr, with the code's 0-based positions. *)
At(p, k) == p[k + 1]
Substr(p, pos, len) ==
    SubSeq(p, pos + 1, IF pos + len < Len(p) THEN pos + len ELSE Len(p))
SubstrFrom(p, pos) == SubSeq(p, pos + 1, Len(p))

(***************************************************************************)
(* The inner while loop (n, fmt_status, fmt_begin, str, fmt), entered at  *)
(* n = i + 1 for the '%' at position i.  It stops at the first character *)
(* that is not a letter or a brace, or after the '}' closing a {fmt}.     *)
(***************************************************************************)
(* Mutant: the {fmt} argument taken from the '{' on, one character early. *)
RECURSIVE ScanFmtFromBrace(_, _, _, _, _, _, _)
ScanFmtFromBrace(p, i, n, fmt_status, fmt_begin, str, fmt) ==
    IF n >= Len(p)
    THEN [n |-> n, fmt_status |-> fmt_status, str |-> str, fmt |-> fmt]
    ELSE LET c == At(p, n) IN
         IF fmt_status = 0 /\ c \notin Alpha /\ c # "{" /\ c # "}"
         THEN [n |-> n, fmt_status |-> 0,
               str |-> Substr(p, i + 1, n - i - 1), fmt |-> fmt]
         ELSE IF fmt_status = 0 /\ c = "{"
         THEN ScanFmtFromBrace(p, i, n + 1, 1, n, Substr(p, i + 1, n - i - 1), fmt)
         ELSE IF fmt_status = 1 /\ c = "}"
         THEN [n |-> n + 1, fmt_status |-> 0, str |-> str,
               fmt |-> Substr(p, fmt_begin, n - fmt_begin)]
         ELSE ScanFmtFromBrace(p, i, n + 1, fmt_status, fmt_begin,
                   IF n + 1 = Len(p) /\ str = <<>>
                   THEN SubstrFrom(p, i + 1) ELSE str,
                   fmt)

RECURSIVE Scan(_, _, _, _, _, _, _)
Scan(p, i, n, fmt_status, fmt_begin, str, fmt) ==
    IF n >= Len(p)
    THEN [n |-> n, fmt_status |-> fmt_status, str |-> str, fmt |-> fmt]
    ELSE LET c == At(p, n) IN
         IF fmt_status = 0 /\ c \notin Alpha /\ c # "{" /\ c # "}"
         THEN [n |-> n, fmt_status |-> 0,
               str |-> Substr(p, i + 1, n - i - 1), fmt |-> fmt]
         ELSE IF fmt_status = 0 /\ c = "{"
         THEN Scan(p, i, n + 1, 1, n, Substr(p, i + 1, n - i - 1), fmt)
         ELSE IF fmt_status = 1 /\ c = "}"
         THEN [n |-> n + 1, fmt_status |-> 0, str |-> str,
               fmt |-> Substr(p, fmt_begin + 1, n - fmt_begin - 1)]
         ELSE Scan(p, i, n + 1, fmt_status, fmt_begin,
                   IF n + 1 = Len(p) /\ str = <<>>
                   THEN SubstrFrom(p, i + 1) ELSE str,
                   fmt)

(* A tuple of vec: (text or key, fmt, type) with type 1 for an item.      *)
Tuple(str, fmt, type) == [str |-> str, fmt |-> fmt, type |-> type]
Flush(nstr) == IF nstr # <<>> THEN <<Tuple(nstr, <<>>, 0)>> ELSE <<>>

(***************************************************************************)
(* The outer for loop over i, with the pending literal nstr, the tuples  *)
(* vec and whether a pattern error set m_error.  "%%" appends one '%' and *)
(* continues at i + 1, as the code does.                                  *)
(***************************************************************************)
RECURSIVE Split(_, _, _, _, _)
Split(p, i, nstr, vec, err) ==
    IF i >= Len(p) THEN [vec |-> vec \o Flush(nstr), err |-> err]
    ELSE IF At(p, i) # "%"
    THEN Split(p, i + 1, nstr \o <<At(p, i)>>, vec, err)
    ELSE IF i + 1 < Len(p) /\ At(p, i + 1) = "%"
    THEN Split(p, i + 1, nstr \o <<"%">>, vec, err)
    ELSE LET r == Scan(p, i, i + 1, 0, 0, <<>>, <<>>) IN
         IF r.fmt_status = 0
         THEN Split(p, r.n, <<>>,
                    vec \o Flush(nstr) \o <<Tuple(r.str, r.fmt, 1)>>, err)
         ELSE Split(p, i + 1, nstr,
                    Append(vec, Tuple(PatternErrorText, r.fmt, 0)), TRUE)

(* The loop over vec that builds m_items from s_format_items.             *)
(* Mutant: an unknown name handed to an item constructor anyway.          *)
ItemOfAnyName(t) ==
    IF t.type = 0 THEN StringItem(t.str) ELSE KeyItem(t.str, t.fmt)

ItemOf(t) ==
    IF t.type = 0 THEN StringItem(t.str)
    ELSE IF t.str \in Keys THEN KeyItem(t.str, t.fmt)
    ELSE StringItem(ErrorFormatText(t.str))

ParseItems(p) == LET s == Split(p, 0, <<>>, <<>>, FALSE).vec
                 IN [k \in 1..Len(s) |-> ItemOf(s[k])]

ParseError(p) ==
    LET s == Split(p, 0, <<>>, <<>>, FALSE)
    IN s.err \/ \E k \in 1..Len(s.vec) : s.vec[k].type = 1
                                         /\ s.vec[k].str \notin Keys

(***************************************************************************)
(* LogFormatter(pattern): m_pattern is set, m_error starts with whatever  *)
(* the allocation held, and init() runs; init only ever sets m_error.     *)
(***************************************************************************)
LogFormatter(p) ==
    /\ m_pattern' = p
    /\ m_items' = ParseItems(p)
    /\ \E garbage \in UninitError : m_error' = (garbage \/ ParseError(p))

(***************************************************************************)
(* The reference: the grammar of the comments above init.  "%%" is a      *)
(* literal '%'; "%" is followed by a non-empty run of letters naming a    *)
(* registered item and an optional "{fmt}" with no '}' inside; every     *)
(* other character is literal text, adjacent literal text forming one    *)
(* string item.  Fail marks a pattern the grammar rejects.                 *)
(***************************************************************************)
Fail == [ok |-> FALSE, items |-> <<>>]

AddLiteral(r, c) ==
    IF r.items # <<>> /\ r.items[1].item = "string"
    THEN [r EXCEPT !.items[1].arg = <<c>> \o @]
    ELSE [r EXCEPT !.items = <<StringItem(<<c>>)>> \o @]

AddItem(r, key, fmt) == [r EXCEPT !.items = <<KeyItem(key, fmt)>> \o @]

RECURSIVE RefParse(_)
RefParse(p) ==
    IF p = <<>> THEN [ok |-> TRUE, items |-> <<>>]
    ELSE IF Head(p) # "%" THEN AddLiteral(RefParse(Tail(p)), Head(p))
    ELSE IF Len(p) >= 2 /\ p[2] = "%"
    THEN AddLiteral(RefParse(SubSeq(p, 3, Len(p))), "%")
    ELSE LET stop == SelectInSeq(Tail(p), LAMBDA c : c \notin Alpha)
             key  == IF stop = 0 THEN Tail(p) ELSE SubSeq(p, 2, stop)
             rest == SubSeq(p, Len(key) + 2, Len(p))
             close == SelectInSeq(rest, LAMBDA c : c = "}")
         IN IF key \notin Keys THEN Fail
            ELSE IF rest = <<>> \/ Head(rest) # "{"
            THEN LET r == RefParse(rest)
                 IN IF r.ok THEN AddItem(r, key, <<>>) ELSE Fail
            ELSE IF close = 0 THEN Fail
            ELSE LET r == RefParse(SubSeq(rest, close + 1, Len(rest)))
                 IN IF r.ok THEN AddItem(r, key, SubSeq(rest, 2, close - 1))
                    ELSE Fail

-----------------------------------------------------------------------------
(* The application constructs formatters from patterns one edit apart, so *)
(* that every pattern up to MaxPatternLen is reached.                      *)
Grow == \E c \in Chars : Len(m_pattern) < MaxPatternLen
                         /\ LogFormatter(Append(m_pattern, c))
Shrink == Len(m_pattern) > 0 /\ LogFormatter(Front(m_pattern))

Init == /\ m_pattern = <<>>
        /\ m_items = <<>>
        /\ m_error \in UninitError

Next == Grow \/ Shrink

Spec == Init /\ [][Next]_vars

-----------------------------------------------------------------------------
ItemText == Seq(Chars) \cup {PatternErrorText}
              \cup {ErrorFormatText(s) : s \in BoundedSeq(Chars, MaxPatternLen)}

TypeOK == /\ m_pattern \in BoundedSeq(Chars, MaxPatternLen)
          /\ m_error \in BOOLEAN
          /\ \A k \in DOMAIN m_items :
                \/ m_items[k].item = "string"
                \/ m_items[k].item \in Keys /\ m_items[k].arg \in Seq(Chars)

(* A pattern isError() accepts is split into the items the documented     *)
(* grammar gives it.                                                       *)
ParseSound ==
    ~m_error => RefParse(m_pattern).ok /\ m_items = RefParse(m_pattern).items

(* Outside the "%%" escape, a pattern isError() accepts is split, literal *)
(* by literal and item by item with its {fmt} argument, exactly as the    *)
(* documented grammar splits it.                                           *)
HasEscape(p) == \E k \in 1..Len(p) - 1 : p[k] = "%" /\ p[k + 1] = "%"

UnescapedParseSound ==
    (~m_error /\ ~HasEscape(m_pattern))
        => RefParse(m_pattern).ok /\ m_items = RefParse(m_pattern).items

(* A pattern the documented grammar accepts is accepted by isError() and  *)
(* split into the grammar's items.                                         *)
ValidPatternAccepted ==
    RefParse(m_pattern).ok => ~m_error /\ m_items = RefParse(m_pattern).items
====

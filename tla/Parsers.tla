------------------------------ MODULE Parsers ------------------------------
(***************************************************************************)
(* What crates/imap-proto takes from the nom library.                      *)
(*                                                                         *)
(* A text is a sequence of tokens.  A parser maps a text and a position to *)
(* what it read there, the set of one record [to, value], or to the empty  *)
(* set when it fails; "to" is the position behind what it read.            *)
(***************************************************************************)
EXTENDS Naturals, Sequences, SequencesExt

At(text, i, token)  == i \in DOMAIN text /\ text[i] = token
Result(to, value)   == [to |-> to, value |-> value]
Else(first, second) == IF first # {} THEN first ELSE second

\* The position behind the longest run from i of tokens that are not in S.
RunEnd(text, i, S) ==
    CHOOSE j \in i .. Len(text) + 1 :
        /\ \A k \in i .. j - 1 : text[k] \notin S
        /\ j \in DOMAIN text => text[j] \in S

\* separated_list1, of what can be read as an element at each position; a
\* separator with no element behind it is left unread.
SeparatedList(text, i, separator, elements) ==
    LET List[j \in 1 .. Len(text) + 1] ==
            UNION {LET more == IF At(text, e.to, separator) THEN List[e.to + 1] ELSE {}
                   IN  Else({Result(m.to, <<e.value>> \o m.value) : m \in more},
                            {Result(e.to, <<e.value>>)}) :
                   e \in elements[j]}
    IN  List[i]

SeparatedBy(text, i, separator, Element(_, _)) ==
    SeparatedList(text, i, separator, [j \in 1 .. Len(text) + 1 |-> Element(text, j)])

\* escaped_transform: up to a token of ends, with what follows each escape
\* taken as it is; it fails on an escape of anything else, and when there is
\* nothing before the end.
Unescaped(text, i, escape, escaped, ends) ==
    LET From[j \in 1 .. Len(text) + 2] ==
            IF j \notin DOMAIN text \/ text[j] \in ends THEN {Result(j, <<>>)}
            ELSE LET at == IF text[j] = escape THEN j + 1 ELSE j
                 IN  IF at \in DOMAIN text /\ (at = j \/ text[at] \in escaped)
                     THEN {Result(s.to, <<text[at]>> \o s.value) : s \in From[at + 1]}
                     ELSE {}
    IN  IF i \in DOMAIN text /\ text[i] \in ends THEN {} ELSE From[i]
=============================================================================

--------------------------- MODULE StringGrammar ---------------------------
(***************************************************************************)
(* How the string arguments of IMAP commands are read: parse_str, and the  *)
(* parser the args! macro makes for commands of two strings, LOGIN, RENAME *)
(* and LIST (crates/imap-proto/src/command.rs).                            *)
(*                                                                         *)
(* A character is a space, a quotation mark, a backslash or anything else. *)
(***************************************************************************)
EXTENDS Parsers

CONSTANT MaxLetters     \* bound: characters of a string

VARIABLE wanted     \* the two strings a client wants to send

Characters == {"x", "space", "quote", "backslash"}

\* parse_dquote_str
ParseQuoted(text, i) ==
    {Result(s.to + 1, s.value) :
        s \in {s \in IF At(text, i, "quote")
                     THEN Unescaped(text, i + 1, "backslash", {"quote", "backslash"}, {"quote"})
                     ELSE {} :
               At(text, s.to, "quote")}}

ParseAtom(text, i) ==
    LET to == RunEnd(text, i, {"space"})
    IN  IF to > i THEN {Result(to, SubSeq(text, i, to - 1))} ELSE {}

\* Mutant of ParseStr: the atom is tried first.
ParseStrAtomFirst(text, i) == Else(ParseAtom(text, i), ParseQuoted(text, i))

\* A quoted string that cannot be read as one is read as an atom.
ParseStr(text, i) == Else(ParseQuoted(text, i), ParseAtom(text, i))

\* String::parse_arg
ParseArg(text, i) == ParseStr(text, RunEnd(text, i, Characters \ {"space"}))

\* The args! of two strings; what is behind them is ignored.
ParseTwo(text) ==
    UNION {{<<first.value, second.value>> : second \in ParseArg(text, first.to)} :
           first \in ParseArg(text, 1)}

-----------------------------------------------------------------------------
(* The clients' strings *)

StringsInit == wanted = <<<<>>, <<>>>>

WantMore ==
    \E n \in {1, 2}, c \in Characters :
        /\ Len(wanted[n]) < MaxLetters
        /\ wanted' = [wanted EXCEPT ![n] = Append(@, c)]

StringsSpec == StringsInit /\ [][WantMore]_wanted

-----------------------------------------------------------------------------
(* Properties *)

Quoted(s) ==
    <<"quote">>
    \o FlattenSeq([i \in DOMAIN s |->
            IF s[i] \in {"quote", "backslash"} THEN <<"backslash", s[i]>> ELSE <<s[i]>>])
    \o <<"quote">>

\* The ways RFC 3501 has to write a string, and atoms it does not allow.
Writings(s) ==
    {Quoted(s)} \cup {t \in {s} : t # <<>> /\ t[1] # "quote" /\ "space" \notin Range(t)}

\* Two strings that are not empty are read as they were meant, however each
\* is written, spaces, marks and backslashes in them included, and whatever
\* comes behind them: the first never takes from the second, nor the second
\* from the rest.  (Of "" the two marks are read, as an atom.)
StringsReadBack ==
    (\A n \in {1, 2} : wanted[n] # <<>>) =>
        \A first \in Writings(wanted[1]), second \in Writings(wanted[2]),
           rest \in {<<>>, <<"space", "quote">>} :
            ParseTwo(first \o <<"space">> \o second \o rest) = {wanted}
=============================================================================

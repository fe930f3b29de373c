-------------------------------- MODULE Ehlo --------------------------------
(***************************************************************************)
(* The answer to EHLO (crates/smtp/src/ehlo.rs): how a server prints one   *)
(* and how a client reads one, line by line.                               *)
(*                                                                         *)
(* A line is what read_until returns: the separator behind the code and    *)
(* the text behind that, a keyword with the names that follow it: a flag   *)
(* of Extensions, SIZE, AUTH, or anything else.  A line longer than        *)
(* LINE_LIMIT is read as two; one of less than five bytes, one that is not *)
(* UTF-8 and the end of the stream all fail, and are "other" here.         *)
(***************************************************************************)
EXTENDS Naturals, Sequences, SequencesExt

CONSTANTS
    Extensions,     \* the flags a line of the answer can be
    Sizes,          \* the arguments of SIZE that are a u64
    NotASize,       \* and one that is none
    MaxMadeUp       \* lines of an answer that this crate has not printed

\* There are a few flags, and none is called like the other keywords.
ASSUME ExtensionsAssumption ==
    IsFiniteSet(Extensions) /\ Extensions \cap {"host", "SIZE", "AUTH", "other"} = {}

ASSUME SizesAssumption == NotASize \notin Sizes

ASSUME MadeUpAssumption == MaxMadeUp \in Nat

Mechanisms == {"LOGIN", "PLAIN"}

VARIABLES
    answer,     \* all the lines the client will get
    unread,     \* those it has not read
    printed,    \* the Response they come from, or {} if they are made up
    got,        \* what has been read; the domain and the size are {} or {it}
    result      \* "reading", "ok" or "syntax"

ehloVars == <<answer, unread, printed, got, result>>

Text(keyword, names)  == [keyword |-> keyword, names |-> names]
Line(separator, text) == [separator |-> separator, text |-> text]

Host == Text("host", {})
Nothing == [domain |-> {}, extensions |-> {}, size |-> {}, auth |-> {}]

Responses ==
    [domain : {{Host}}, extensions : SUBSET Extensions,
     size : {{}} \cup {{n} : n \in Sizes}, auth : SUBSET Mechanisms]

-----------------------------------------------------------------------------
(* Printing *)

\* The domain, the flags, the size if there is one, the mechanisms.
Texts(r) ==
    SetToSeq(r.domain) \o SetToSeq({Text(x, {}) : x \in r.extensions})
    \o SetToSeq({Text("SIZE", {n}) : n \in r.size}) \o <<Text("AUTH", r.auth)>>

\* Mutant of Display: the size, if there is one, is taken for the last line.
DisplayEndsAtSize(r) ==
    LET texts == Texts(r)
    IN  [n \in DOMAIN texts |->
            Line(IF n = Len(texts) \/ texts[n].keyword = "SIZE" THEN " " ELSE "-", texts[n])]

Display(r) ==
    LET texts == Texts(r)
    IN  [n \in DOMAIN texts |-> Line(IF n = Len(texts) THEN " " ELSE "-", texts[n])]

-----------------------------------------------------------------------------
(* Reading *)

MadeUpLines ==
    {Line("other", Host)}
    \cup [separator : {"-", " "},
          text : {Text(x, {}) : x \in Extensions \cup {"other"}}
                 \cup {Text("SIZE", {n}) : n \in Sizes \cup {NotASize}}
                 \cup {Text("AUTH", {m}) : m \in Mechanisms \cup {"other"}}]

\* What may be left of a line when the stream ends within it.
Shortened(line) ==
    {Line("other", Host)}
    \cup {Line(line.separator, text) :
            text \in {Text("other", {})} \cup
                    (IF line.text.keyword = "SIZE"
                     THEN {Text("SIZE", {n}) : n \in Sizes \cup {NotASize}}
                     ELSE {Text(line.text.keyword, names) : names \in SUBSET line.text.names})}

\* A printed answer may be cut short between two lines or within one, or be
\* followed by a line of the next answer.
EhloInit ==
    /\ \/ \E r \in Responses :
             /\ printed = {r}
             /\ LET whole == Display(r)
                    Before(n) == SubSeq(whole, 1, n - 1)
                IN  \/ \E n \in DOMAIN whole :
                          \/ answer = Before(n)
                          \/ \E rest \in Shortened(whole[n]) : answer = Append(Before(n), rest)
                    \/ \E next \in MadeUpLines : answer = Append(whole, next)
       \/ printed = {} /\ \E n \in 0..MaxMadeUp : answer \in [1..n -> MadeUpLines]
    /\ unread = answer
    /\ got = Nothing
    /\ result = "reading"

Malformed(line) ==
    \/ line.separator \notin {"-", " "}
    \/ got.domain # {} /\ line.text.keyword = "SIZE" /\ ~ line.text.names \subseteq Sizes

\* Mutant of Take: the mechanisms of a second AUTH are added to the first's.
TakeAuthAdds(text) ==
    IF got.domain = {} THEN [got EXCEPT !.domain = {text}]
    ELSE CASE text.keyword \in Extensions -> [got EXCEPT !.extensions = @ \cup {text.keyword}]
           [] text.keyword = "SIZE"       -> [got EXCEPT !.size = text.names]
           [] text.keyword = "AUTH"       -> [got EXCEPT !.auth = @ \cup (text.names \cap Mechanisms)]
           [] OTHER                       -> got

\* What a line adds: the first is the domain, whatever it says.
Take(text) ==
    IF got.domain = {} THEN [got EXCEPT !.domain = {text}]
    ELSE CASE text.keyword \in Extensions -> [got EXCEPT !.extensions = @ \cup {text.keyword}]
           [] text.keyword = "SIZE"       -> [got EXCEPT !.size = text.names]
           [] text.keyword = "AUTH"       -> [got EXCEPT !.auth = text.names \cap Mechanisms]
           [] OTHER                       -> got

ReadLine ==
    /\ result = "reading" /\ unread # <<>> /\ ~ Malformed(Head(unread))
    /\ got' = Take(Head(unread).text)
    /\ result' = IF Head(unread).separator = " " THEN "ok" ELSE "reading"
    /\ unread' = Tail(unread)
    /\ UNCHANGED <<answer, printed>>

ReadFails ==
    /\ result = "reading" /\ (unread # <<>> => Malformed(Head(unread)))
    /\ result' = "syntax"
    /\ UNCHANGED <<answer, unread, printed, got>>

EhloNext == ReadLine \/ ReadFails

EhloSpec == EhloInit /\ [][EhloNext]_ehloVars

-----------------------------------------------------------------------------
(* Properties *)

\* Response::read returns what Display printed, all of it and no line of
\* what follows.  An answer that is cut short is an error, unless it is cut
\* within its last line, whose end read_until does not insist on: then the
\* mechanisms that are left are taken for all of them, and nothing else is
\* lost.
ReadsBack ==
    \A r \in printed :
        LET lines == Len(Display(r))
        IN  /\ result = "ok" =>
                  /\ Len(answer) >= lines /\ Len(unread) = Len(answer) - lines
                  /\ got.auth \subseteq r.auth /\ [got EXCEPT !.auth = r.auth] = r
                  /\ Len(answer) > lines => got.auth = r.auth
            /\ result = "syntax" => Len(answer) <= lines /\ answer # Display(r)

\* Whatever the lines are, a Response is returned for those up to the first
\* that ends the answer, and says what they say: every flag, the last SIZE
\* and the last AUTH behind the first line; and only an answer with a
\* malformed line, or without an end, is refused.
SaysWhatItRead ==
    LET read      == SubSeq(answer, 1, Len(answer) - Len(unread))
        LastOf(key) == LET at == {i \in 2..Len(read) : read[i].text.keyword = key}
                     IN  UNION {read[i].text.names : i \in {i \in at : \A j \in at : j <= i}}
    IN  /\ result = "ok" =>
              /\ \A i \in DOMAIN read : (read[i].separator = " ") <=> (i = Len(read))
              /\ got = [domain |-> {read[1].text},
                        extensions |-> {x \in Extensions :
                                          \E i \in 2..Len(read) : read[i].text.keyword = x},
                        size |-> LastOf("SIZE"), auth |-> LastOf("AUTH") \cap Mechanisms]
              /\ got.size \subseteq Sizes
        /\ result = "syntax" =>
              \/ \A i \in DOMAIN answer : answer[i].separator # " "
              \/ \E i \in DOMAIN answer : answer[i].separator \notin {"-", " "}
              \/ \E i \in DOMAIN answer : answer[i].text.names = {NotASize}
=============================================================================

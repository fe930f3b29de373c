---------------------------- MODULE FetchGrammar ----------------------------
(***************************************************************************)
(* How the arguments of FETCH are read: sequence sets, and their printing  *)
(* (crates/imap-proto/src/sequence.rs), the items (command/fetch.rs), and  *)
(* Fetch::parse, which parse_args! calls (command.rs).                     *)
(*                                                                         *)
(* A token is a punctuation mark, a digit or a word.                       *)
(***************************************************************************)
EXTENDS Parsers

CONSTANTS
    MaxNumber,      \* u32::MAX
    SetTokens,      \* what a client may put into a sequence set,
    ItemTokens,     \* and into the items,
    MaxTokens       \* and how much of it

ASSUME NumberAssumption == MaxNumber \in Nat

ASSUME TokensAssumption == MaxTokens \in Nat \ {0}

VARIABLES
    setText, itemText,      \* the two halves of the arguments
    typing                  \* which of them the client varies

grammarVars == <<setText, itemText, typing>>

Digits     == {"0", "1"}
Attributes == {"FLAGS", "INTERNALDATE", "RFC822.SIZE", "ENVELOPE", "BODY"}

-----------------------------------------------------------------------------
(* Sequence sets *)

Unbounded == 0      \* Bound::Unbounded; the numbers are not zero

Decimal(digits) ==
    LET Value[n \in 0 .. Len(digits)] ==
            IF n = 0 THEN 0 ELSE Value[n - 1] * 10 + (IF digits[n] = "0" THEN 0 ELSE 1)
    IN  Value[Len(digits)]

\* All the digits there are, if they are a number that NonZeroU32 can hold.
ParseNonzero(text, i) ==
    LET to == RunEnd(text, i, {text[k] : k \in DOMAIN text} \ Digits)
        n  == Decimal(SubSeq(text, i, to - 1))
    IN  IF n \in 1..MaxNumber THEN {Result(to, n)} ELSE {}

ParseBound(text, i) ==
    Else(ParseNonzero(text, i),
         IF At(text, i, "*") THEN {Result(i + 1, Unbounded)} ELSE {})

ParsePair(text, i) ==
    UNION {{Result(upper.to, [lower |-> lower.value, upper |-> upper.value]) :
                upper \in ParseBound(text, lower.to + 1)} :
           lower \in {l \in ParseBound(text, i) : At(text, l.to, ":")}}

\* Mutant of ParseRange: a colon needs no second bound.
ParseRangeLoose(text, i) ==
    Else(ParsePair(text, i),
         {Result(IF At(text, n.to, ":") THEN n.to + 1 ELSE n.to,
                 [lower |-> n.value, upper |-> n.value]) : n \in ParseNonzero(text, i)})

ParseRange(text, i) ==
    Else(ParsePair(text, i),
         {Result(n.to, [lower |-> n.value, upper |-> n.value]) : n \in ParseNonzero(text, i)})

ParseSet(text, i) == Else(SeparatedBy(text, i, ",", ParseRange), {Result(i, <<>>)})

\* The digits of a number, without a leading zero.
PrintBound(b) ==
    IF b = Unbounded THEN <<"*">>
    ELSE CHOOSE t \in UNION {[1..n -> Digits] : n \in 1..MaxTokens} :
            t[1] # "0" /\ Decimal(t) = b

\* Mutant of PrintRange: the bounds are compared by size.
PrintRangeOrdered(r) ==
    IF r.lower >= r.upper THEN PrintBound(r.lower)
    ELSE PrintBound(r.lower) \o <<":">> \o PrintBound(r.upper)

PrintRange(r) ==
    IF r.lower = r.upper THEN PrintBound(r.lower)
    ELSE PrintBound(r.lower) \o <<":">> \o PrintBound(r.upper)

PrintSet(ranges) ==
    FlattenSeq([n \in DOMAIN ranges |->
                   (IF n = 1 THEN <<>> ELSE <<",">>) \o PrintRange(ranges[n])])

-----------------------------------------------------------------------------
(* Items, and FETCH *)

\* The whole word up to a space or a parenthesis.
ParseAttribute(text, i) ==
    {Result(i + 1, text[k]) :
        k \in {k \in {i} \cap DOMAIN text :
                  text[k] \in Attributes /\ RunEnd(text, k, {" ", ")"}) = k + 1}}

\* Items::attributes of the three macros.
Expansion ==
    LET fast == <<"FLAGS", "INTERNALDATE", "RFC822.SIZE">>
    IN  [FAST |-> fast, ALL |-> Append(fast, "ENVELOPE"),
         FULL |-> fast \o <<"ENVELOPE", "BODY">>]

\* Mutant of ParseList: the list ends where it cannot be read further.
ParseListUnclosed(text, i) ==
    IF At(text, i, "(") THEN SeparatedBy(text, i + 1, " ", ParseAttribute) ELSE {}

ParseList(text, i) ==
    {Result(list.to + 1, list.value) :
        list \in {l \in IF At(text, i, "(")
                        THEN SeparatedBy(text, i + 1, " ", ParseAttribute) ELSE {} :
                  At(text, l.to, ")")}}

\* Items::parse; a macro's name may be the beginning of anything.
ParseItems(text, i) ==
    Else({Result(i + 1, Expansion[text[k]]) :
             k \in {k \in {i} \cap DOMAIN text : text[k] \in DOMAIN Expansion}},
         Else(ParseList(text, i),
              {Result(a.to, <<a.value>>) : a \in ParseAttribute(text, i)}))

\* What parse_args! makes of the arguments: the rest of them is ignored.
ParseFetch(text) ==
    UNION {LET from == RunEnd(text, s.to, {t \in {text[k] : k \in DOMAIN text} : t # " "})
           IN  {[set |-> s.value, from |-> from, items |-> items.value] :
                    items \in IF from > s.to THEN ParseItems(text, from) ELSE {}} :
           s \in ParseSet(text, 1)}

-----------------------------------------------------------------------------
(* The clients' texts *)

GrammarInit ==
    \/ typing = "set" /\ setText = <<>> /\ itemText = <<"ALL">>
    \/ typing = "items" /\ setText = <<"1">> /\ itemText = <<>>

TypeSet ==
    /\ typing = "set" /\ Len(setText) < MaxTokens
    /\ \E t \in SetTokens : setText' = Append(setText, t)
    /\ UNCHANGED <<itemText, typing>>

TypeItems ==
    /\ typing = "items" /\ Len(itemText) < MaxTokens
    /\ \E t \in ItemTokens : itemText' = Append(itemText, t)
    /\ UNCHANGED <<setText, typing>>

FetchNext == TypeSet \/ TypeItems

FetchSpec == GrammarInit /\ [][FetchNext]_grammarVars

Fetch == setText \o <<" ">> \o itemText

-----------------------------------------------------------------------------
(* Properties *)

\* The pieces between the separators, of a text from i to the first end.
Pieces(text, i, separator, end) ==
    LET From[j \in 1 .. Len(text) + 1] ==
            LET to == RunEnd(text, j, {separator, end})
            IN  <<SubSeq(text, j, to - 1)>>
                \o (IF At(text, to, separator) THEN From[to + 1] ELSE <<>>)
    IN  From[i]

Writes(text, bound) ==
    \/ bound = Unbounded /\ text = <<"*">>
    \/ bound \in 1..MaxNumber /\ text \in Seq(Digits) /\ Decimal(text) = bound

\* A range of the grammar that sequence.rs quotes, but for the star that stands
\* alone.
Denotes(text, range) ==
    \/ range.lower = range.upper /\ range.lower # Unbounded /\ Writes(text, range.lower)
    \/ \E i \in DOMAIN text :
          /\ text[i] = ":"
          /\ Writes(SubSeq(text, 1, i - 1), range.lower)
          /\ Writes(SubSeq(text, i + 1, Len(text)), range.upper)

SetEnd  == RunEnd(Fetch, 1, {" "}) - 1
SetPieces == IF SetEnd = 0 THEN <<>> ELSE Pieces(Fetch, 1, ",", " ")
Ranges  == [lower : 0..MaxNumber, upper : 0..MaxNumber]

\* A FETCH is accepted for the whole of what is before its first space or not
\* at all: the ranges it reads are those between the commas, none dropped and
\* none made up, though separated_list0 stops without an error where an element
\* cannot be read; and every set of one or more such ranges is accepted.
SetWhole ==
    /\ \A a \in ParseFetch(Fetch) :
          /\ Len(a.set) = Len(SetPieces)
          /\ \A n \in DOMAIN SetPieces : Denotes(SetPieces[n], a.set[n])
    /\ typing = "set" /\ setText # <<>> /\ SetEnd = Len(setText)
          /\ (\A n \in DOMAIN SetPieces : \E r \in Ranges : Denotes(SetPieces[n], r))
       => ParseFetch(Fetch) # {}

\* A FETCH with a parenthesised list is accepted for all the attributes
\* between the parentheses, in their order, or not at all.
ListWhole ==
    \A a \in ParseFetch(Fetch) :
        At(Fetch, a.from, "(") =>
            Pieces(Fetch, a.from + 1, " ", ")") = [n \in DOMAIN a.items |-> <<a.items[n]>>]

\* A sequence set that is printed is read back as the same set, if it does
\* not hold the range from star to star: that is printed as a lone star,
\* which Range::parse does not take.
SetReadsBack ==
    \A read \in ParseSet(setText, 1) :
        (\A n \in DOMAIN read.value : read.value[n].lower + read.value[n].upper > 0) =>
            LET text == PrintSet(read.value)
            IN  ParseSet(text, 1) = {Result(Len(text) + 1, read.value)}
=============================================================================

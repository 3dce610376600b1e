------------------------- MODULE ColumnConfigParser -------------------------
(***************************************************************************)
(* ColumnConfigParser: the style file of osm2pgsql is read line by line, a *)
(* line is split at its blanks into up to four tokens, and a line that     *)
(* asks for a column adds one to the columns of the points, of the lines   *)
(* and polygons, or of all three. A line is a sequence of characters; a    *)
(* word without blanks, commas and hashes counts as one character.         *)
(* Positions count from 0, as in std::string.                              *)
(***************************************************************************)
EXTENDS Integers, Sequences, FiniteSets, SequencesExt

CONSTANT Styles                 (* style files, each a sequence of lines    *)

ASSUME StylesAssumption == \A style \in Styles : style \in Seq(Seq(STRING))

VARIABLES
    pc,                         (* where main() or parse() is               *)
    m_osm2pgsql_style,          (* the lines of the style file              *)
    csv_read,                   (* those not yet read                       *)
    line,                       (* the line being split                     *)
    pos, next,                  (* the token starts at pos and ends at next *)
    tokens,                     (* geometry, name, type and flags, so far   *)
    m_point_columns, m_line_columns, m_polygon_columns

reading == <<m_osm2pgsql_style, csv_read>>
splitting == <<line, pos, next, tokens>>
columns == <<m_point_columns, m_line_columns, m_polygon_columns>>
styleVars == <<pc, reading, splitting, columns>>

npos == -1
MaxTokens == 4

(* The characters that mean something.                                     *)
Blank == " "
Comma == ","
Hash == "#"

InitStyle ==
    /\ pc = "open"
    /\ m_osm2pgsql_style \in Styles /\ csv_read = m_osm2pgsql_style
    /\ line = <<>> /\ pos = 0 /\ next = npos /\ tokens = <<>>
    /\ m_point_columns = <<>> /\ m_line_columns = <<>> /\ m_polygon_columns = <<>>

(* std::string::find_first_of, for one character.                          *)
find_first_of(c, s, from) ==
    LET found == {i \in from..(Len(s) - 1) : s[i + 1] = c}
    IN  IF found = {} THEN npos ELSE CHOOSE i \in found : \A j \in found : i <= j

(* std::string::substr from one position up to another.                    *)
substr(s, from, to) == SubSeq(s, from + 1, IF to = npos THEN Len(s) ELSE to)

-----------------------------------------------------------------------------
(* Without option for it there is no style file; it may be unreadable.     *)
NoStyle ==
    /\ pc = "open" /\ pc' = "parsed"
    /\ UNCHANGED <<reading, splitting, columns>>

OpenStyle ==
    /\ pc = "open" /\ pc' = "getline"
    /\ UNCHANGED <<reading, splitting, columns>>

(* An exception; nothing in main() catches it.                             *)
ThrowStyle ==
    /\ pc' = "terminated"
    /\ UNCHANGED <<reading, splitting, columns>>

OpenStyleFails == pc = "open" /\ ThrowStyle

WithoutCommentAtBlank(l) ==  \* mutant of WithoutComment
    substr(l, 0, find_first_of(Blank, l, 0))

WithoutComment(l) == substr(l, 0, find_first_of(Hash, l, 0))

(* The next line, without its comment; empty lines are omitted.            *)
GetLine ==
    /\ pc = "getline" /\ csv_read # <<>>
    /\ csv_read' = Tail(csv_read)
    /\ line' = WithoutComment(Head(csv_read))
    /\ pos' = 0 /\ next' = find_first_of(Blank, line', 0) /\ tokens' = <<>>
    /\ pc' = IF line' = <<>> THEN "getline" ELSE "split"
    /\ UNCHANGED <<m_osm2pgsql_style, columns>>

EndOfStyle ==
    /\ pc = "getline" /\ csv_read = <<>>
    /\ pc' = "parsed"
    /\ UNCHANGED <<reading, splitting, columns>>

-----------------------------------------------------------------------------
(* The loop that splits a line.                                            *)

AdvanceNoStep ==  \* mutant of Advance
    pos' = next /\ next' = find_first_of(Blank, line, pos')

Advance == pos' = next + 1 /\ next' = find_first_of(Blank, line, pos')

(* A blank at the start of a token: one more of a row of blanks.           *)
SkipBlank ==
    /\ pc = "split" /\ next = pos
    /\ Advance
    /\ UNCHANGED <<pc, reading, line, tokens, columns>>

(* The loop ends with the line or with the fourth token.                   *)
TakeToken ==
    /\ pc = "split" /\ next # pos
    /\ tokens' = Append(tokens, substr(line, pos, next))
    /\ IF next = npos THEN UNCHANGED <<pos, next>> ELSE Advance
    /\ pc' = IF next = npos \/ Len(tokens') = MaxTokens THEN "add_columns" ELSE "split"
    /\ UNCHANGED <<reading, line, columns>>

-----------------------------------------------------------------------------
(* The tokens of a line.                                                   *)

Token(i) == IF i <= Len(tokens) THEN tokens[i] ELSE <<>>
geometry == Token(1)
name == Token(2)
type == Token(3)
flags == Token(4)

NodeGeometry == {<<"node">>, <<"node", Comma, "way">>, <<"way", Comma, "node">>}
WayGeometry == {<<"way">>, <<"node", Comma, "way">>, <<"way", Comma, "node">>}

str_to_column_type(t) ==
    CASE t = <<"text">> -> "TEXT" [] t = <<"int4">> -> "INT" [] t = <<"real">> -> "REAL"
      [] OTHER -> "NONE"

parse_flagsFirst(s) == {substr(s, 0, find_first_of(Comma, s, 0))}  \* mutant of parse_flags

(* The parts of the flags between their commas.                            *)
parse_flags(s) ==
    {substr(s, i, find_first_of(Comma, s, i)) :
        i \in {j \in 0..Len(s) : j = 0 \/ s[j] = Comma}}

(* Columns no table has as text, or that the generator does not read.      *)
NotRead == {<<"way_area">>, <<"z_order">>}

CreateColumn ==
    /\ parse_flags(flags) \intersect {<<"delete">>, <<"nocolumn">>} = {}
    /\ name # <<>>

AddColumns ==
    /\ pc = "add_columns"
    /\ geometry \in NodeGeometry \union WayGeometry
    /\ name \in NotRead \/ str_to_column_type(type) # "NONE"
    /\ LET column == [name |-> name, type |-> str_to_column_type(type)]
           AddTo(vec, geometries) ==
                IF name \notin NotRead /\ CreateColumn /\ geometry \in geometries
                THEN Append(vec, column) ELSE vec
       IN  /\ m_point_columns' = AddTo(m_point_columns, NodeGeometry)
           /\ m_line_columns' = AddTo(m_line_columns, WayGeometry)
           /\ m_polygon_columns' = AddTo(m_polygon_columns, WayGeometry)
    /\ pc' = "getline"
    /\ UNCHANGED <<reading, splitting>>

Unsupported ==
    /\ pc = "add_columns"
    /\ \/ geometry \notin NodeGeometry \union WayGeometry
       \/ name \notin NotRead /\ str_to_column_type(type) = "NONE"
    /\ ThrowStyle

ParseStyle ==
    \/ NoStyle \/ OpenStyle \/ OpenStyleFails
    \/ GetLine \/ EndOfStyle
    \/ SkipBlank \/ TakeToken
    \/ AddColumns \/ Unsupported

-----------------------------------------------------------------------------
(***************************************************************************)
(* What a style file means: the words of a line are its longest parts      *)
(* without blanks, before a hash.                                          *)
(***************************************************************************)
Text(l) == {i \in DOMAIN l : (\A j \in 1..i : l[j] # Hash) /\ l[i] # Blank}
Starts(l) == {i \in Text(l) : i - 1 \notin Text(l)}

(* How many elements a set of numbers has up to one of them.               *)
Rank(S, i) == Cardinality({j \in S : j <= i})

IsWord(l, from, to) == from <= to /\ from..to \subseteq Text(l) /\ to + 1 \notin Text(l)

(* The k-th word of a line, which is empty if there are less.              *)
Word(l, k) ==
    IF \A i \in Starts(l) : Rank(Starts(l), i) # k THEN <<>>
    ELSE LET from == CHOOSE i \in Starts(l) : Rank(Starts(l), i) = k
             to == CHOOSE i \in Text(l) : IsWord(l, from, i)
         IN  SubSeq(l, from, to)

(* One of the parts of the flags between their commas.                     *)
IsFlag(f, word) ==
    \E i \in DOMAIN f : /\ f[i] = word
                        /\ i = 1 \/ f[i - 1] = Comma
                        /\ i = Len(f) \/ f[i + 1] = Comma

(* The lines that ask for a column of some geometries. No part of their    *)
(* flags tells to drop the tag or to keep it out of columns.               *)
Asks(l, geometries) ==
    /\ Word(l, 1) \in geometries /\ Word(l, 2) \notin NotRead
    /\ ~IsFlag(Word(l, 4), "delete") /\ ~IsFlag(Word(l, 4), "nocolumn")

Asking(geometries) ==
    {i \in DOMAIN m_osm2pgsql_style : Asks(m_osm2pgsql_style[i], geometries)}

(* There is a column for each of these lines, in their order.              *)
AreThoseOf(cols, lines) ==
    /\ Len(cols) = Cardinality(lines)
    /\ \A i \in lines : cols[Rank(lines, i)].name = Word(m_osm2pgsql_style[i], 2)

Names(cols) == [k \in DOMAIN cols |-> cols[k].name]

(* The columns are those the style asks for, in the order of its lines,    *)
(* whatever blanks, comments and flags the lines have; ways and relations, *)
(* read by the columns of the polygons, are selected by those of the lines.*)
ColumnsFollowStyle ==
    pc = "parsed" /\ csv_read = <<>> =>
        /\ AreThoseOf(m_point_columns, Asking(NodeGeometry))
        /\ AreThoseOf(m_line_columns, Asking(WayGeometry))
        /\ AreThoseOf(m_polygon_columns, Asking(WayGeometry))

(* A style is refused in a line with a geometry or a type that is not      *)
(* known, which a line of blanks also is, and in no other.                 *)
OnlyBadLinesRefused ==
    LET l == m_osm2pgsql_style[Len(m_osm2pgsql_style) - Len(csv_read)]
    IN  pc = "terminated" /\ csv_read # m_osm2pgsql_style =>
            \/ Word(l, 1) \notin NodeGeometry \union WayGeometry
            \/ Word(l, 2) \notin NotRead /\ str_to_column_type(Word(l, 3)) = "NONE"

(* Splitting ends, wherever the blanks of a line are.                      *)
StyleEnds == <>(pc \in {"parsed", "terminated"})
=============================================================================

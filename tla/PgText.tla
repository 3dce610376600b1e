------------------------------- MODULE PgText -------------------------------
(***************************************************************************)
(* The texts PostgreSQL sends for arrays of texts and for hstores, as the  *)
(* parsers of this program expect them. Both double-quote, and escape      *)
(* quotation marks and backslashes; arrays only where it is needed. It is  *)
(* said of a text, with the positions where its keys and values start, if  *)
(* it is the one of some pairs. Positions count from 0, "to" is behind the *)
(* last character.                                                         *)
(***************************************************************************)
EXTENDS Integers, Sequences, FiniteSets

(* A NULL among the values, which no text is equal to.                     *)
Null == <<"NULL">>

NullWord == <<"N", "U", "L", "L">>

(* The characters that mean something in these texts.                      *)
Quote == "\""
Comma == ","
Blank == " "
LeftBrace == "{"
RightBrace == "}"

Escapable == {Quote, "\\"}

(* How far the i-th character is moved by those before it and by their     *)
(* backslashes.                                                            *)
Offset(string, i) == i - 1 + Cardinality({j \in 1..(i - 1) : string[j] \in Escapable})

IsPlain(text, from, to, string) ==
    /\ to = from + Len(string) /\ to <= Len(text)
    /\ \A i \in DOMAIN string : text[from + i] = string[i]

IsQuoted(text, from, to, string) ==
    /\ to = from + Offset(string, Len(string) + 1) + 2 /\ to <= Len(text)
    /\ text[from + 1] = Quote /\ text[to] = Quote
    /\ \A i \in DOMAIN string :
        LET at == from + 2 + Offset(string, i)
        IN  IF string[i] \in Escapable
            THEN text[at] = "\\" /\ text[at + 1] = string[i]
            ELSE text[at] = string[i]

NeedsQuotes(string) ==
    \/ string \in {<<>>, NullWord}
    \/ \E i \in DOMAIN string : string[i] \in {LeftBrace, RightBrace, Comma, Quote, "\\", Blank}

IsArrayItem(text, from, to, item) ==
    IF item = Null THEN IsPlain(text, from, to, NullWord)
    ELSE \/ IsQuoted(text, from, to, item)
         \/ ~NeedsQuotes(item) /\ IsPlain(text, from, to, item)

(* array_out; keys and values are in turn.                                 *)
IsArrayText(text, pairs, starts) ==
    LET n == Len(pairs)
    IN  /\ text[1] = LeftBrace /\ text[Len(text)] = RightBrace /\ starts[n + 1][1] = Len(text)
        /\ IF n = 0 THEN Len(text) = 2 ELSE starts[1][1] = 1
        /\ \A i \in 1..n :
            LET value == starts[i][2]
                next == starts[i + 1][1]
            IN  /\ IsArrayItem(text, starts[i][1], value - 1, pairs[i][1])
                /\ IsArrayItem(text, value, next - 1, pairs[i][2])
                /\ text[value] = Comma /\ (i < n => text[next] = Comma)

(* hstore_out.                                                             *)
IsHStoreText(text, pairs, starts) ==
    LET n == Len(pairs)
    IN  /\ starts[n + 1][1] = Len(text) + 2
        /\ IF n = 0 THEN text = <<>> ELSE starts[1][1] = 0
        /\ \A i \in 1..n :
            LET value == starts[i][2]
                end == starts[i + 1][1] - 2
            IN  /\ IsQuoted(text, starts[i][1], value - 2, pairs[i][1])
                /\ text[value - 1] = "=" /\ text[value] = ">"
                /\ IF pairs[i][2] = Null THEN IsPlain(text, value, end, NullWord)
                   ELSE IsQuoted(text, value, end, pairs[i][2])
                /\ i < n => text[end + 1] = Comma /\ text[end + 2] = Blank
=============================================================================

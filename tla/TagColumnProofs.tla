-------------------------- MODULE TagColumnProofs --------------------------
(***************************************************************************)
(* Whatever text the server sends, or anything else: the parsers stay      *)
(* inside it. And what it sends for the tags of an object is read as these *)
(* tags, for any number of them and keys and values of any length.         *)
(***************************************************************************)
EXTENDS TagColumn, FiniteSetTheorems, SequenceTheorems, TLAPS

(* A parser that is running has not gone beyond its text; that of arrays   *)
(* is only made for a text that is not empty, and starts at its second     *)
(* character. The copy of an element is not longer than what was copied.   *)
PositionsSound ==
    /\ row \in Rows
    /\ row.driver = "osm2pgsql" /\ pc \notin {"done", "throw"} =>
        m_current_position \in 1..m_max_length
    /\ pc = "remove_escape_sequences" =>
        start <= current_position_src /\ Len(result) <= current_position_src - start
    /\ row.driver = "cerepso" =>
        /\ m_current_position <= m_max_length
        /\ m_parse_progress # "ELEMENT" /\ pc # "remove_escape_sequences"

IInv == TypeOK /\ PositionsSound

Tags == Seq(Seq(STRING) \X Seq(STRING))

(* The length of the text of a row, and its characters.                    *)
LEMMA TextLength ==
    ASSUME row \in Rows
    PROVE  /\ row.driver \in {"cerepso", "osm2pgsql"}
           /\ m_max_length \in Nat /\ m_max_length < SizeMax
           /\ m_string_repr # <<>> => m_max_length > 0
           /\ \A i \in Nat : i < m_max_length => CharAt(i) \in STRING
BY RowsAssumption DEF m_max_length, m_string_repr, CharAt

(* The characters that mean something are different from each other.       *)
LEMMA CharsDiffer ==
    /\ Quote \notin {"\\", "=", ">", Comma, Blank, LeftBrace, RightBrace}
    /\ Comma \notin {"\\", "=", ">", Blank, LeftBrace, RightBrace}
    /\ Blank \notin {"\\", "=", ">", LeftBrace, RightBrace}
    /\ LeftBrace # RightBrace
    /\ \A c \in {"N", "U", "L"} :
        c \notin {"\\", "=", ">", Quote, Comma, Blank, LeftBrace, RightBrace}
BY Zenon DEF Quote, Comma, Blank, LeftBrace, RightBrace

(* Characters are appended to texts, and pairs of texts to tags.           *)
LEMMA Appended ==
    ASSUME NEW S, NEW s \in Seq(S), NEW c \in S
    PROVE  /\ Append(s, c) \in Seq(S) /\ Len(Append(s, c)) = Len(s) + 1 /\ Len(s) \in Nat
           /\ \A i \in 1..Len(s) : Append(s, c)[i] = s[i]
           /\ Append(s, c)[Len(s) + 1] = c
OBVIOUS

(* A sequence over a set is one over any greater set.                      *)
LEMMA Wider ==
    ASSUME NEW S, NEW T, S \subseteq T, NEW s \in Seq(S)
    PROVE  s \in Seq(T)
OBVIOUS

(* The two parts of an element of a sequence of pairs.                     *)
LEMMA Parts ==
    ASSUME NEW S, NEW T, NEW s \in Seq(S \X T), NEW i \in 1..Len(s)
    PROVE  s[i][1] \in S /\ s[i][2] \in T
OBVIOUS

(* Four elements of a set make a sequence over it.                         *)
LEMMA FourElements ==
    ASSUME NEW S, NEW a \in S, NEW b \in S, NEW c \in S, NEW d \in S
    PROVE  <<a, b, c, d>> \in Seq(S)
OBVIOUS

(* Among these are the characters of all texts and words.                  *)
Chars == STRING \union {"N", "U", "L"}

(* The word NULL and all strings are sequences of the same characters.     *)
LEMMA WordIsText ==
    /\ NullWord \in Seq(Chars) /\ Len(NullWord) = 4
    /\ \A s \in Seq(STRING) : s \in Seq(Chars)
    /\ <<>> \in Seq(STRING)
<1>1. <<"N", "U", "L", "L">> \in Seq(Chars)
    <2>1. "N" \in Chars /\ "U" \in Chars /\ "L" \in Chars
        BY DEF Chars
    <2> QED
        BY <2>1, FourElements, Zenon
<1>2. Len(<<"N", "U", "L", "L">>) = 4
    OBVIOUS
<1>3. <<>> \in Seq(STRING)
    OBVIOUS
<1>4. \A s \in Seq(STRING) : s \in Seq(Chars)
    <2>1. STRING \subseteq Chars
        BY DEF Chars
    <2> QED
        BY <2>1, Wider
<1> QED
    BY <1>1, <1>2, <1>3, <1>4 DEF NullWord

(* The parsers begin at the first or second character.                     *)
LEMMA InitSound == Init => IInv
<1> SUFFICES ASSUME Init PROVE IInv
    OBVIOUS
<1>1. /\ row \in Rows /\ quoted \in BOOLEAN /\ backslash \in BOOLEAN
      /\ tags = <<>>
    BY Zenon DEF Init, InitParser
<1>2. <<>> \in Seq(STRING) /\ <<>> \in Tags
    BY DEF Tags
<1>3. ASSUME InitElement
      PROVE  /\ start = 0 /\ end = 0 /\ pos = 0 /\ current_position_src = 0
             /\ backslashes_before \in BOOLEAN
             /\ result = <<>> /\ key = <<>>
    BY <1>3, Zenon DEF InitElement
<1>4. CASE InitOsm2pgsql
    <2>1. /\ row.driver = "osm2pgsql" /\ m_current_position = 1 /\ m_parse_progress = "NONE"
          /\ InitElement
          /\ m_key_buffer = <<>> /\ m_value_buffer = <<>>
          /\ pc \in {"has_next", "done"}
          /\ pc = "has_next" => m_string_repr # <<>>
        BY <1>4 DEF InitOsm2pgsql, InitArray
    <2>2. m_max_length \in Nat /\ (pc = "has_next" => m_max_length > 0)
        BY <1>1, <2>1, TextLength
    <2> QED
        BY <1>1, <1>2, <1>3, <2>1, <2>2 DEF IInv, TypeOK, ParserTypeOK, PositionsSound, Tags
<1>5. CASE InitCerepso
    <2>1. /\ row.driver = "cerepso" /\ m_current_position = 0 /\ m_parse_progress = "NONE"
          /\ InitElement
          /\ m_key_buffer = <<>> /\ m_value_buffer = <<>> /\ pc = "has_next"
        BY <1>5 DEF InitCerepso, InitHStore
    <2>2. m_max_length \in Nat
        BY <1>1, TextLength
    <2> QED
        BY <1>1, <1>2, <1>3, <2>1, <2>2 DEF IInv, TypeOK, ParserTypeOK, PositionsSound, Tags
<1> QED
    BY <1>4, <1>5 DEF Init

(* Each step of the array parser moves on by at most one character, and    *)
(* only inside of the text.                                                *)
LEMMA ArrayStepSound ==
    ASSUME IInv, row.driver = "osm2pgsql", ArrayNext, UNCHANGED buffers
    PROVE  IInv'
<1> USE DEF IInv, TypeOK, ParserTypeOK, PositionsSound, parser, element, copying, pairing, buffers
<1>1. /\ m_max_length \in Nat /\ UNCHANGED row
      /\ m_max_length' = m_max_length
    BY TextLength DEF ArrayNext, ArrayHasNext, BeginElement, QuotedElement, UnquotedElement,
                      BeginCopy, CopyChar, ReturnElement, m_max_length, m_string_repr
<1>2. InLoop => m_current_position \in 1..(m_max_length - 1)
    BY <1>1 DEF InLoop
<1>3. CASE ArrayHasNext
    <2>1. /\ quoted' \in BOOLEAN /\ backslash' \in BOOLEAN
          /\ UNCHANGED <<copying, pairing, tags>>
        BY <1>3, Zenon DEF ArrayHasNext, StartGetNext
    <2>2. /\ UNCHANGED <<m_current_position, pos>>
          /\ pc = "has_next" /\ pc' \in {"get_next", "done"}
          /\ m_parse_progress' \in {m_parse_progress, "NONE"}
          /\ start' \in {start, 0} /\ end' \in {end, 0}
        BY <1>3 DEF ArrayHasNext, StartGetNext
    <2> QED
        BY <1>1, <2>1, <2>2
<1>4. CASE BeginElement
    <2>1. /\ quoted' \in BOOLEAN /\ backslash' \in BOOLEAN
          /\ UNCHANGED <<copying, pairing, tags>>
        BY <1>4, Zenon DEF BeginElement
    <2>2. /\ m_current_position' = m_current_position + 1 /\ InLoop
          /\ UNCHANGED <<pc, end, pos>>
          /\ m_parse_progress' \in {m_parse_progress, "ELEMENT"}
          /\ start' \in {start, m_current_position, m_current_position + 1}
        BY <1>4 DEF BeginElement, Advance
    <2> QED
        BY <1>1, <1>2, <2>1, <2>2 DEF InLoop
<1>5. CASE QuotedElement
    <2>1. /\ quoted' \in BOOLEAN /\ backslash' \in BOOLEAN
          /\ UNCHANGED <<copying, pairing, tags>>
        BY <1>5, Zenon DEF QuotedElement
    <2>2. /\ m_current_position' = m_current_position + 1 /\ InLoop
          /\ UNCHANGED <<start, pos>>
          /\ pc' \in {pc, "throw"}
          /\ m_parse_progress' \in {m_parse_progress, "END"}
          /\ end' \in {end, m_current_position - 1}
        BY <1>5 DEF QuotedElement, Advance, Throw
    <2> QED
        BY <1>1, <1>2, <2>1, <2>2 DEF InLoop
<1>6. CASE UnquotedElement
    <2>1. /\ m_current_position' = m_current_position + 1
          /\ UNCHANGED <<pc, tags, quoted, backslash, start, copying, pairing>>
          /\ end' \in {end, m_current_position - 1}
          /\ m_parse_progress' \in {m_parse_progress, "END"}
          /\ InLoop
        BY <1>6 DEF UnquotedElement, Advance
    <2> QED
        BY <1>1, <1>2, <2>1 DEF InLoop
<1>7. CASE BeginCopy
    <2>1. /\ pc' = "remove_escape_sequences" /\ pc = "get_next"
          /\ current_position_src' = start /\ backslashes_before' \in BOOLEAN /\ result' = <<>>
          /\ UNCHANGED <<tags, parser, start, end, pairing>>
        BY <1>7, Zenon DEF BeginCopy
    <2>2. <<>> \in Seq(STRING) /\ Len(<<>>) = 0
        OBVIOUS
    <2> QED
        BY <1>1, <2>1, <2>2
<1>8. CASE CopyChar
    <2> DEFINE char == CharAt(current_position_src)
    <2>0. /\ row \in Rows /\ m_current_position \in 1..m_max_length
          /\ current_position_src \in Nat /\ current_position_src <= end
          /\ end \in Nat /\ (end = 0 \/ end < m_max_length)
        BY <1>8 DEF CopyChar
    <2>1. char \in STRING
      <3> HIDE DEF IInv, TypeOK, ParserTypeOK, PositionsSound, parser, element, copying, pairing
      <3>1. current_position_src < m_max_length
        BY <1>1, <2>0
      <3> QED
        BY <2>0, <3>1, TextLength
    <2> HIDE DEF char
    <2>2. Append(result, char) \in Seq(STRING) /\ Len(Append(result, char)) = Len(result) + 1
        BY <2>1, Appended
    <2>3. /\ pc = "remove_escape_sequences" /\ pc' \in {pc, "throw"}
          /\ backslashes_before' \in BOOLEAN
          /\ result' \in {result, Append(result, char)}
          /\ current_position_src' = current_position_src + 1
          /\ UNCHANGED <<tags, parser, start, end, pairing>>
        BY <1>8, Zenon DEF CopyChar, Throw, char
    <2>4. Len(result) \in Nat /\ start \in Nat
        OBVIOUS
    <2>5. /\ result' \in Seq(STRING)
          /\ start' <= current_position_src' /\ Len(result') <= current_position_src' - start'
        <3>1. /\ start <= current_position_src /\ Len(result) <= current_position_src - start
              /\ result \in Seq(STRING)
            BY <2>3
        <3> HIDE DEF IInv, TypeOK, ParserTypeOK, PositionsSound
        <3> QED
            BY <2>0, <2>2, <2>3, <2>4, <3>1
    <2> QED
        BY <1>1, <2>0, <2>3, <2>5
<1>9. CASE ReturnElement
    <2> DEFINE item == to_output_format(result)
    <2>1. item \in Seq(STRING)
        BY WordIsText DEF to_output_format
    <2> HIDE DEF item
    <2>2. /\ pc' = "has_next" /\ pos' = pos + 1
          /\ tags' \in {tags, Append(tags, <<key, item>>)}
          /\ key' \in {key, item}
          /\ UNCHANGED <<parser, element>>
        BY <1>9, Zenon DEF ReturnElement, AddItem, item
    <2>3. tags' \in Seq(Seq(STRING) \X Seq(STRING)) /\ key' \in Seq(STRING)
        <3>1. Append(tags, <<key, item>>) \in Seq(Seq(STRING) \X Seq(STRING))
            BY <2>1
        <3> QED
            BY <2>1, <2>2, <3>1
    <2>4. m_current_position \in 1..m_max_length
        BY <1>9 DEF ReturnElement
    <2> QED
        BY <1>1, <2>2, <2>3, <2>4
<1> QED
    BY <1>3, <1>4, <1>5, <1>6, <1>7, <1>8, <1>9 DEF ArrayNext

(* So does each step of the hstore parser.                                 *)
LEMMA HStoreStepSound ==
    ASSUME IInv, row.driver = "cerepso", HStoreNext, UNCHANGED <<element, pairing>>
    PROVE  IInv'
<1> USE DEF IInv, TypeOK, ParserTypeOK, PositionsSound, parser, element, copying, pairing, buffers
<1>1. /\ m_max_length \in Nat /\ UNCHANGED row
      /\ m_max_length' = m_max_length
    BY TextLength DEF HStoreNext, HStoreHasNext, EscapedChar, Backslash, EqualsSign, GreaterSign,
                      QuotationMark, BlankOrComma, OtherChar, ReturnPair, m_max_length, m_string_repr
<1>2. m_parse_progress # "END" /\ m_parse_progress # "ELEMENT" =>
        Successor(m_parse_progress) \in {"KEY", "SEPARATOR", "VALUE", "END"}
    BY DEF Successor
<1>3. InLoop => /\ m_current_position \in 0..(m_max_length - 1) /\ m_parse_progress # "END"
                /\ Char \in STRING
    BY <1>1, TextLength DEF InLoop, Char
<1>4. CASE HStoreHasNext
    <2>1. PairExpected => m_current_position < m_max_length
        BY DEF PairExpected
    <2>2. m_key_buffer' \in Seq(STRING) /\ m_value_buffer' \in Seq(STRING)
        <3>1. <<>> \in Seq(STRING)
            OBVIOUS
        <3>2. /\ m_key_buffer' \in {<<>>, m_key_buffer}
              /\ m_value_buffer' \in {<<>>, m_value_buffer}
            BY <1>4, Zenon DEF HStoreHasNext
        <3> QED
            BY <3>1, <3>2
    <2>3. quoted' \in BOOLEAN /\ backslash' \in BOOLEAN
        BY <1>4, Zenon DEF HStoreHasNext, StartGetNext
    <2>4. /\ pc = "has_next" /\ pc' \in {"get_next", "done"}
          /\ m_parse_progress' \in {m_parse_progress, "NONE"}
          /\ UNCHANGED <<tags, m_current_position>>
        BY <1>4 DEF HStoreHasNext, StartGetNext
    <2> QED
        BY <1>1, <2>2, <2>3, <2>4
<1>5. ASSUME InLoop, Advance, pc' \in {pc, "throw"}, quoted' \in BOOLEAN, backslash' \in BOOLEAN,
             m_parse_progress' \in {m_parse_progress, Successor(m_parse_progress)},
             m_key_buffer' \in {m_key_buffer, Append(m_key_buffer, Char)},
             m_value_buffer' \in {m_value_buffer, Append(m_value_buffer, Char)},
             UNCHANGED tags
      PROVE  IInv'
    <2>1. m_key_buffer' \in Seq(STRING) /\ m_value_buffer' \in Seq(STRING)
        <3>1. m_key_buffer \in Seq(STRING) /\ m_value_buffer \in Seq(STRING) /\ Char \in STRING
            BY <1>3, <1>5
        <3>2. /\ Append(m_key_buffer, Char) \in Seq(STRING)
              /\ Append(m_value_buffer, Char) \in Seq(STRING)
            BY <3>1, Appended
        <3> HIDE DEF IInv
        <3> QED
            BY <1>5, <3>1, <3>2
    <2> QED
        BY <1>1, <1>2, <1>3, <1>5, <2>1 DEF Advance, InLoop
<1> HIDE DEF IInv
<1>6. CASE EscapedChar
    BY <1>5, <1>6, Zenon DEF EscapedChar, Throw, add_to_key_or_value, IInv
<1>7. CASE Backslash
    BY <1>5, <1>7, Zenon DEF Backslash, IInv
<1>8. CASE EqualsSign
    BY <1>5, <1>8, Zenon DEF EqualsSign, Throw, increase_parse_progress, add_to_key_or_value, IInv
<1>9. CASE GreaterSign
    BY <1>5, <1>9, Zenon DEF GreaterSign, Throw, add_to_key_or_value, IInv
<1>10. CASE QuotationMark
    BY <1>5, <1>10, Zenon DEF QuotationMark, increase_parse_progress, IInv
<1>11. CASE BlankOrComma
    BY <1>5, <1>11, Zenon DEF BlankOrComma, increase_parse_progress, add_to_key_or_value, IInv
<1>12. CASE OtherChar
    BY <1>5, <1>12, Zenon DEF OtherChar, increase_parse_progress, add_to_key_or_value, IInv
<1>13. CASE ReturnPair
    <2>1. Append(tags, <<m_key_buffer, m_value_buffer>>) \in Seq(Seq(STRING) \X Seq(STRING))
        BY DEF IInv
    <2> QED
        BY <1>1, <1>13, <2>1 DEF ReturnPair, IInv
<1> QED
    BY <1>4, <1>6, <1>7, <1>8, <1>9, <1>10, <1>11, <1>12, <1>13 DEF HStoreNext

(* The invariant holds in every behaviour.                                 *)
LEMMA PositionsHold == Spec => []IInv
<1>1. IInv /\ [Next]_vars => IInv'
    <2> SUFFICES ASSUME IInv, [Next]_vars PROVE IInv'
        OBVIOUS
    <2>1. CASE Next
        BY <2>1, ArrayStepSound, HStoreStepSound DEF Next
    <2>2. CASE UNCHANGED vars
        BY <2>2 DEF vars, parser, element, copying, pairing, buffers, IInv, TypeOK, ParserTypeOK,
                    PositionsSound, m_max_length, m_string_repr
    <2> QED
        BY <2>1, <2>2
<1> QED
    BY InitSound, <1>1, PTL DEF Spec

(* The states have their types, for any texts.                             *)
THEOREM TypeCorrect == Spec => []TypeOK
BY PositionsHold, PTL DEF IInv

(* No parser reads beyond its text, nor writes beyond what it reserved,    *)
(* for texts of any length and content. It rests on the test for an empty  *)
(* text before a parser is made, which makes the unsigned limit of         *)
(* has_next a limit.                                                       *)
THEOREM ParsersStayInside == Spec => []NeverOutOfRange
<1>1. IInv => NeverOutOfRange
    <2> SUFFICES ASSUME IInv, row.driver = "osm2pgsql"
                 PROVE  /\ pc = "has_next" /\ BeforeLimit => HasChar(m_current_position)
                        /\ pc = "remove_escape_sequences" /\ current_position_src <= end =>
                            HasChar(current_position_src) /\ Len(result) <= end - start
        BY DEF NeverOutOfRange
    <2>1. m_max_length \in Nat /\ end \in Nat /\ (end = 0 \/ end < m_max_length) /\ start \in Nat
        BY TextLength DEF IInv, TypeOK, PositionsSound
    <2>2. CASE pc = "has_next"
        <3>1. m_current_position \in 1..m_max_length
            BY <2>2 DEF IInv, PositionsSound
        <3> QED
            BY <2>1, <2>2, <3>1 DEF BeforeLimit, Unsigned, HasChar
    <2>3. CASE pc = "remove_escape_sequences"
        <3>1. /\ current_position_src \in Nat /\ Len(result) \in Nat
              /\ Len(result) <= current_position_src - start
              /\ m_current_position \in 1..m_max_length
            BY <2>3 DEF IInv, TypeOK, PositionsSound
        <3> QED
            BY <2>1, <2>3, <3>1 DEF HasChar
    <2> QED
        BY <2>2, <2>3
<1> QED
    BY <1>1, PositionsHold, PTL
-----------------------------------------------------------------------------
(***************************************************************************)
(* Quoted strings, character by character.                                 *)
(***************************************************************************)

(* In a string quoted from a position on, position is before its i-th      *)
(* character, or behind the backslash of it.                               *)
Inside(string, first, i, escaped, position) ==
    /\ i \in 1..(Len(string) + 1)
    /\ position = first + Offset(string, i) + (IF escaped THEN 1 ELSE 0)
    /\ escaped => i <= Len(string) /\ string[i] \in Escapable

(* The first characters of a string.                                       *)
PartRead(part, string) ==
    Len(part) <= Len(string) /\ \A i \in 1..Len(part) : part[i] = string[i]

(* A character takes one place, or two with its backslash.                 *)
LEMMA OffsetSteps ==
    ASSUME NEW S, NEW string \in Seq(S)
    PROVE  /\ Offset(string, 1) = 0
           /\ \A i \in 1..(Len(string) + 1) : Offset(string, i) \in Nat
           /\ \A i \in 1..Len(string) :
                Offset(string, i + 1)
                    = Offset(string, i) + (IF string[i] \in Escapable THEN 2 ELSE 1)
           /\ \A i, j \in 1..(Len(string) + 1) :
                i <= j => Offset(string, i) + (j - i) <= Offset(string, j)
<1> DEFINE Escaped(i) == {j \in 1..(i - 1) : string[j] \in Escapable}
<1>1. \A i \in 1..(Len(string) + 1) : IsFiniteSet(Escaped(i)) /\ Cardinality(Escaped(i)) \in Nat
    <2> TAKE i \in 1..(Len(string) + 1)
    <2>1. IsFiniteSet(1..(i - 1))
        BY FS_Interval
    <2>2. Escaped(i) \in SUBSET (1..(i - 1))
        OBVIOUS
    <2> HIDE DEF Escaped
    <2>3. IsFiniteSet(Escaped(i))
        BY <2>1, <2>2, FS_Subset
    <2> QED
        BY <2>3, FS_CardinalityType
<1>2. Escaped(1) = {}
    OBVIOUS
<1>3. \A i \in 1..Len(string) :
        Escaped(i + 1) = IF string[i] \in Escapable THEN Escaped(i) \union {i} ELSE Escaped(i)
    OBVIOUS
<1>4. \A i \in 1..Len(string) : i \notin Escaped(i)
    OBVIOUS
<1>5. \A i, j \in 1..(Len(string) + 1) : i <= j => Escaped(i) \subseteq Escaped(j)
    OBVIOUS
<1>6. \A i \in 1..(Len(string) + 1) : Offset(string, i) = i - 1 + Cardinality(Escaped(i))
    BY DEF Offset
<1> HIDE DEF Escaped
<1>7. Offset(string, 1) = 0
    <2>1. Len(string) \in Nat
        OBVIOUS
    <2>2. Offset(string, 1) = 1 - 1 + Cardinality(Escaped(1))
        BY <1>6, <2>1
    <2>3. Cardinality({}) = 0
        BY FS_EmptySet, Zenon
    <2> QED
      <3>1. Cardinality(Escaped(1)) = 0
        BY <1>2, <2>3
      <3>2. Offset(string, 1) = 1 - 1 + 0
        BY <2>2, <3>1
      <3> QED BY <3>2
<1>8. \A i \in 1..Len(string) :
        Cardinality(Escaped(i + 1))
            = Cardinality(Escaped(i)) + (IF string[i] \in Escapable THEN 1 ELSE 0)
    <2> TAKE i \in 1..Len(string)
    <2>1. IsFiniteSet(Escaped(i)) /\ Cardinality(Escaped(i)) \in Nat
        BY <1>1
    <2>2. Cardinality(Escaped(i) \union {i}) = Cardinality(Escaped(i)) + 1
        BY <1>4, <2>1, FS_AddElement
    <2> QED
        <3>1. CASE string[i] \in Escapable
            BY <1>3, <2>1, <2>2, <3>1
        <3>2. CASE string[i] \notin Escapable
            <4>1. Escaped(i + 1) = Escaped(i)
                BY <1>3, <3>2
            <4>2. Cardinality(Escaped(i + 1)) = Cardinality(Escaped(i))
                BY <4>1
            <4> QED
                BY <2>1, <3>2, <4>2
        <3> QED
            BY <3>1, <3>2
<1>9. \A i, j \in 1..(Len(string) + 1) :
        i <= j => Cardinality(Escaped(i)) <= Cardinality(Escaped(j))
    BY <1>1, <1>5, FS_Subset
<1>10. Len(string) \in Nat
    OBVIOUS
<1>11. \A i \in 1..(Len(string) + 1) : Offset(string, i) \in Nat
    BY <1>1, <1>6
<1>12. \A i \in 1..Len(string) :
        Offset(string, i + 1)
            = Offset(string, i) + (IF string[i] \in Escapable THEN 2 ELSE 1)
    <2> TAKE i \in 1..Len(string)
    <2>1. /\ Cardinality(Escaped(i)) \in Nat /\ Cardinality(Escaped(i + 1)) \in Nat
          /\ Offset(string, i) = i - 1 + Cardinality(Escaped(i))
          /\ Offset(string, i + 1) = i + 1 - 1 + Cardinality(Escaped(i + 1))
        BY <1>1, <1>6, <1>10
    <2> QED
        BY <1>8, <2>1
<1>13. \A i, j \in 1..(Len(string) + 1) :
        i <= j => Offset(string, i) + (j - i) <= Offset(string, j)
    BY <1>1, <1>6, <1>9
<1> QED
    BY <1>7, <1>11, <1>12, <1>13

(* At any place in a quoted string the next character tells how it goes on.*)
GoesOn(text, from, to, string, i, escaped, p) ==
    /\ i \in Nat /\ p \in Nat /\ to \in Nat /\ p > from /\ p < to
    /\ escaped =>
        /\ i <= Len(string) /\ text[p + 1] = string[i] /\ text[p + 1] \in Escapable
        /\ Inside(string, from + 1, i + 1, FALSE, p + 1)
    /\ ~escaped /\ i <= Len(string) =>
        \/ text[p + 1] = "\\" /\ Inside(string, from + 1, i, TRUE, p + 1)
        \/ /\ text[p + 1] = string[i] /\ text[p + 1] \notin Escapable
           /\ Inside(string, from + 1, i + 1, FALSE, p + 1)
    /\ ~escaped /\ i > Len(string) => text[p + 1] = Quote /\ p + 1 = to /\ i = Len(string) + 1

(* One character of a quoted string leads to the place GoesOn names.       *)
LEMMA InsideStep ==
    ASSUME NEW text, NEW from \in Nat, NEW to, NEW string \in Seq(STRING),
           IsQuoted(text, from, to, string),
           NEW i, NEW escaped \in BOOLEAN, NEW p, Inside(string, from + 1, i, escaped, p)
    PROVE  GoesOn(text, from, to, string, i, escaped, p)
<1> DEFINE n == Len(string)
           At(k) == from + 2 + Offset(string, k)
<1>1. /\ n \in Nat /\ i \in 1..(n + 1) /\ Offset(string, i) \in Nat
      /\ Offset(string, n + 1) \in Nat /\ Offset(string, i) + (n + 1 - i) <= Offset(string, n + 1)
      /\ i <= n => Offset(string, i + 1)
                    = Offset(string, i) + (IF string[i] \in Escapable THEN 2 ELSE 1)
      /\ i <= n => Offset(string, i + 1) <= Offset(string, n + 1)
    <2>1. n \in Nat /\ i \in 1..(n + 1)
        BY DEF Inside
    <2>2. /\ Offset(string, i) \in Nat /\ Offset(string, n + 1) \in Nat
          /\ Offset(string, i) + (n + 1 - i) <= Offset(string, n + 1)
        BY <2>1, OffsetSteps
    <2>3. i <= n => /\ Offset(string, i + 1)
                        = Offset(string, i) + (IF string[i] \in Escapable THEN 2 ELSE 1)
                    /\ Offset(string, i + 1) \in Nat
                    /\ Offset(string, i + 1) + (n + 1 - (i + 1)) <= Offset(string, n + 1)
        BY <2>1, OffsetSteps
    <2> QED
        BY <2>1, <2>2, <2>3
<1>2. /\ to = from + Offset(string, n + 1) + 2
      /\ text[to] = Quote
      /\ i <= n => IF string[i] \in Escapable
                   THEN text[At(i)] = "\\" /\ text[At(i) + 1] = string[i]
                   ELSE text[At(i)] = string[i]
    <2>1. i <= n => i \in DOMAIN string
        BY <1>1
    <2> QED
        BY <2>1, Zenon DEF IsQuoted
<1>3. /\ escaped => p = from + 1 + Offset(string, i) + 1
      /\ ~escaped => p = from + 1 + Offset(string, i) + 0
      /\ escaped => i <= n /\ string[i] \in Escapable
    BY Zenon DEF Inside
<1> DEFINE at == At(i)
<1>4. at = from + 2 + Offset(string, i)
    OBVIOUS
<1> HIDE DEF At, at, n
<1>5. ASSUME NEW j \in 1..(n + 1), NEW q, q = from + 1 + Offset(string, j)
      PROVE  Inside(string, from + 1, j, FALSE, q)
    <2>1. Offset(string, j) \in Nat
        BY <1>5, OffsetSteps DEF n
    <2>2. q = from + 1 + Offset(string, j) + 0
        BY <1>5, <2>1
    <2> QED
        BY <1>5, <2>2, Zenon DEF Inside, n
<1>6. CASE escaped
    <2>1. i <= n /\ string[i] \in Escapable /\ p = from + 1 + Offset(string, i) + 1
        BY <1>3, <1>6, Zenon
    <2>6. /\ Offset(string, i) \in Nat /\ Offset(string, n + 1) \in Nat
          /\ Offset(string, i + 1) = Offset(string, i) + 2
          /\ Offset(string, i + 1) <= Offset(string, n + 1)
        BY <1>1, <2>1
    <2>2. p + 1 = at + 1 /\ p + 1 = from + 1 + Offset(string, i + 1)
        <3> DEFINE o == Offset(string, i)
                   next == Offset(string, i + 1)
        <3>1. /\ o \in Nat /\ next = o + 2 /\ at = from + 2 + o /\ p = from + 1 + o + 1
            BY <1>4, <2>1, <2>6
        <3> HIDE DEF o, next
        <3>2. p + 1 = at + 1 /\ p + 1 = from + 1 + next
            BY <3>1
        <3> QED
            BY <3>2 DEF next
    <2>3. i \in Nat /\ p \in Nat /\ to \in Nat /\ p > from /\ p < to /\ i + 1 \in 1..(n + 1)
        <3>1. i \in Nat /\ i + 1 \in 1..(n + 1)
            BY <1>1, <2>1
        <3>2. p \in Nat /\ to \in Nat /\ p > from /\ p < to
            BY <1>2, <2>1, <2>6
        <3> QED
            BY <3>1, <3>2
    <2>4. Inside(string, from + 1, i + 1, FALSE, p + 1)
        BY <1>5, <2>2, <2>3
    <2>5. text[p + 1] = string[i]
        BY <1>2, <2>1, <2>2 DEF at
    <2> QED
        BY <1>6, <2>1, <2>3, <2>4, <2>5, Zenon DEF n, GoesOn
<1>7. CASE ~escaped
    <2>1. p = from + 1 + Offset(string, i) + 0
        BY <1>3, <1>7, Zenon
    <2>2. p + 1 = at
        BY <1>1, <1>4, <2>1
    <2>3. i \in Nat /\ p \in Nat /\ to \in Nat /\ p > from /\ p < to
        BY <1>1, <1>2, <2>1
    <2>4. CASE i <= n /\ string[i] \in Escapable
        <3>1. text[p + 1] = "\\"
            BY <1>2, <2>2, <2>4 DEF at
        <3>2. p + 1 = from + 1 + Offset(string, i) + 1
            BY <1>1, <2>1
        <3>3. Inside(string, from + 1, i, TRUE, p + 1)
            BY <1>1, <2>4, <3>2, Zenon DEF Inside, n
        <3>4. ~(i > n)
            BY <1>1, <2>4
        <3> QED
            BY <1>7, <2>3, <3>1, <3>3, <3>4, Zenon DEF n, GoesOn
    <2>5. CASE i <= n /\ string[i] \notin Escapable
        <3>1. text[p + 1] = string[i]
            BY <1>2, <2>2, <2>5 DEF at
        <3>2. p + 1 = from + 1 + Offset(string, i + 1) /\ i + 1 \in 1..(n + 1)
            BY <1>1, <2>1, <2>5
        <3>3. Inside(string, from + 1, i + 1, FALSE, p + 1)
            BY <1>5, <3>2
        <3>4. ~(i > n)
            BY <1>1, <2>5
        <3>5. text[p + 1] \notin Escapable
            BY <2>5, <3>1
        <3> QED
            BY <1>7, <2>3, <3>1, <3>3, <3>4, <3>5, Zenon DEF n, GoesOn
    <2>6. CASE ~(i <= n)
        <3>1. i = n + 1 /\ p + 1 = to
            BY <1>1, <1>2, <2>1, <2>6
        <3> QED
            BY <1>2, <1>7, <2>3, <2>6, <3>1, Zenon DEF n, GoesOn
    <2> QED
        BY <2>4, <2>5, <2>6
<1> QED
    BY <1>6, <1>7

(* The part that was read, with one more character.                        *)
LEMMA PartGrows ==
    ASSUME NEW S, NEW part \in Seq(S), NEW T, NEW string \in Seq(T), PartRead(part, string),
           NEW c \in S, Len(part) < Len(string), c = string[Len(part) + 1]
    PROVE  PartRead(Append(part, c), string) /\ Len(Append(part, c)) = Len(part) + 1
<1>1. /\ Len(Append(part, c)) = Len(part) + 1 /\ Len(part) \in Nat /\ Len(string) \in Nat
      /\ \A i \in 1..Len(part) : Append(part, c)[i] = part[i]
      /\ Append(part, c)[Len(part) + 1] = c
    BY Appended
<1> QED
    BY <1>1 DEF PartRead

(* All of it is the string.                                                *)
LEMMA AllRead ==
    ASSUME NEW S, NEW part \in Seq(S), NEW string \in Seq(S), PartRead(part, string),
           Len(part) = Len(string)
    PROVE  part = string
BY SeqEqual DEF PartRead

-----------------------------------------------------------------------------
(***************************************************************************)
(* The array parser reads the tags that were sent.                         *)
(***************************************************************************)

(* The tag that is read now, and where its parts and the next tag start.   *)
tag == Len(tags) + 1
Key == row.sent[tag][1]
Value == row.sent[tag][2]
KeyStart == row.starts[tag][1]
ValueStart == row.starts[tag][2]
NextStart == row.starts[tag + 1][1]

(* What has been read so far is right.                                     *)
TagsRead ==
    /\ Len(tags) <= Len(row.sent)
    /\ \A i \in 1..Len(tags) : tags[i] = Sent[i]

(* The element that is read now; without quotation marks it is a word.     *)
InKey == pos = 2 * Len(tags)
Item == IF InKey THEN Key ELSE Value
From == IF InKey THEN KeyStart ELSE ValueStart
To == (IF InKey THEN ValueStart ELSE NextStart) - 1
Word == IF Item = Null THEN NullWord ELSE Item
IsWord == IsPlain(row.text, From, To, Word) /\ (Item = Null \/ ~NeedsQuotes(Item))
IsString == IsQuoted(row.text, From, To, Item) /\ Item # Null

KeyRead ==
    /\ InKey \/ pos = 2 * Len(tags) + 1
    /\ ~InKey => Len(tags) < Len(row.sent) /\ key = Key

(* Before an element there may be the comma behind the last one.           *)
BeforeElement ==
    /\ m_current_position \in {From - 1, From}
    /\ m_parse_progress = "NONE" => ~quoted /\ ~backslash /\ end = 0

InElement ==
    /\ end = 0
    /\ quoted => /\ IsString /\ start = From + 1
                 /\ \E i \in 1..(Len(Item) + 1) :
                        Inside(Item, From + 1, i, backslash, m_current_position)
    /\ ~quoted => /\ IsWord /\ start = From /\ ~backslash
                  /\ m_current_position \in (From + 1)..To

BehindElement ==
    /\ quoted => IsString /\ start = From + 1 /\ end = To - 2 /\ m_current_position = To
    /\ ~quoted => IsWord /\ start = From /\ end = To - 1 /\ m_current_position = To + 1

Copying ==
    /\ quoted => /\ PartRead(result, Item)
                 /\ Inside(Item, From + 1, Len(result) + 1, backslashes_before,
                           current_position_src)
    /\ ~quoted => /\ PartRead(result, Word) /\ ~backslashes_before
                  /\ current_position_src = From + Len(result)

ArrayReading ==
    /\ pc # "throw" /\ TagsRead /\ KeyRead
    /\ pc = "has_next" => BeforeElement
    /\ pc = "done" => Len(tags) = Len(row.sent)
    /\ pc \in {"get_next", "remove_escape_sequences"} => Len(tags) < Len(row.sent)
    /\ pc = "get_next" => m_parse_progress \in {"NONE", "ELEMENT", "END"}
    /\ pc = "get_next" /\ m_parse_progress = "NONE" => BeforeElement
    /\ pc = "get_next" /\ m_parse_progress = "ELEMENT" => InElement
    /\ pc = "get_next" /\ m_parse_progress = "END" => BehindElement
    /\ pc = "remove_escape_sequences" => m_parse_progress = "END" /\ BehindElement /\ Copying

SentArray == row.driver = "osm2pgsql" /\ row.valid /\ row.text # <<>>

(* An element has at least one character in the text, and its first one    *)
(* tells if it is quoted.                                                  *)
LEMMA ItemInText ==
    ASSUME NEW text, Len(text) \in Nat, NEW from \in Nat, NEW to, NEW item \in Seq(STRING),
           IsArrayItem(text, from, to, item)
    PROVE  LET word == IF item = Null THEN NullWord ELSE item
           IN  /\ to \in Nat /\ from < to /\ to <= Len(text)
               /\ \/ /\ IsQuoted(text, from, to, item) /\ item # Null
                     /\ text[from + 1] = Quote
                  \/ /\ IsPlain(text, from, to, word) /\ (item = Null \/ ~NeedsQuotes(item))
                     /\ text[from + 1] \notin {RightBrace, Quote, Comma, Blank}
<1> DEFINE word == IF item = Null THEN NullWord ELSE item
<1>1. CASE IsQuoted(text, from, to, item) /\ item # Null
    <2>1. Offset(item, Len(item) + 1) \in Nat
        BY OffsetSteps
    <2> QED
        BY <1>1, <2>1 DEF IsQuoted
<1>2. CASE IsPlain(text, from, to, word) /\ (item = Null \/ ~NeedsQuotes(item))
    <2>1. /\ 1 \in DOMAIN word /\ Len(word) \in Nat /\ Len(word) > 0
          /\ word[1] \notin {RightBrace, Quote, Comma, Blank}
        <3>1. CASE item = Null
            <4>1. word = NullWord
                BY <3>1
            <4>2. 1 \in DOMAIN NullWord /\ Len(NullWord) = 4 /\ NullWord[1] = "N"
                BY DEF NullWord
            <4>3. "N" \notin {RightBrace, Quote, Comma, Blank}
                BY CharsDiffer, Zenon
            <4> HIDE DEF word
            <4> QED
                BY <4>1, <4>2, <4>3
        <3>2. CASE item # Null /\ ~NeedsQuotes(item)
            <4>1. item # <<>> /\ word = item
                BY <3>2 DEF NeedsQuotes
            <4>2. 1 \in DOMAIN item /\ Len(item) \in Nat /\ Len(item) > 0
                BY <4>1
            <4> QED
                BY <3>2, <4>1, <4>2 DEF NeedsQuotes
        <3> QED
            BY <1>2, <3>1, <3>2
    <2> HIDE DEF word
    <2>2. to = from + Len(word) /\ to <= Len(text) /\ text[from + 1] = word[1]
        BY <1>2, <2>1, Zenon DEF IsPlain
    <2>3. to \in Nat /\ from < to
        BY <2>1, <2>2
    <2>4. text[from + 1] \notin {RightBrace, Quote, Comma, Blank}
        BY <2>1, <2>2
    <2> QED
        BY <1>2, <2>2, <2>3, <2>4, Zenon DEF word
<1> QED
    BY <1>1, <1>2, Zenon DEF IsArrayItem

(* Where the key and the value of a tag are in an array.                   *)
LEMMA ArrayLayout ==
    ASSUME row \in Rows, SentArray, NEW i \in 1..Len(row.sent)
    PROVE  LET text == row.text
               k == row.starts[i][1]
               v == row.starts[i][2]
               w == row.starts[i + 1][1]
           IN  /\ row.sent[i][1] \in Seq(STRING) /\ row.sent[i][2] \in Seq(STRING)
               /\ row.sent[i][1] # Null
               /\ Len(text) \in Nat /\ k \in Nat /\ v \in Nat /\ w \in Nat
               /\ 1 <= k /\ k + 1 < v /\ v + 1 < w /\ w <= Len(text)
               /\ IsArrayItem(text, k, v - 1, row.sent[i][1])
               /\ IsArrayItem(text, v, w - 1, row.sent[i][2])
               /\ text[v] = Comma /\ (i < Len(row.sent) => text[w] = Comma /\ w < Len(text))
               /\ i = Len(row.sent) => text[w] = RightBrace /\ w = Len(text)
               /\ k = 1 \/ text[k] = Comma
<1> DEFINE n == Len(row.sent)
           text == row.text
<1>1. /\ n \in Nat /\ n > 0 /\ Len(text) \in Nat /\ Len(row.starts) = n + 1
      /\ \A j \in 1..n : row.sent[j][1] \in Seq(STRING) /\ row.sent[j][2] \in Seq(STRING)
      /\ \A j \in 1..(n + 1) : row.starts[j][1] \in Nat /\ row.starts[j][2] \in Nat
    <2>1. /\ row.sent \in Tags /\ row.starts \in Seq(Nat \X Nat)
          /\ Len(row.starts) = Len(row.sent) + 1 /\ row.text \in Seq(STRING)
        BY RowsAssumption DEF Tags
    <2>2. n \in Nat /\ Len(text) \in Nat /\ n > 0
        <3>1. n \in Nat
            BY <2>1 DEF Tags
        <3>2. Len(text) \in Nat
            BY <2>1
        <3> QED
            BY <3>1, <3>2
    <2>3. \A j \in 1..n : row.sent[j][1] \in Seq(STRING) /\ row.sent[j][2] \in Seq(STRING)
        BY <2>1, Parts DEF Tags
    <2>4. \A j \in 1..(n + 1) : row.starts[j][1] \in Nat /\ row.starts[j][2] \in Nat
        BY <2>1, Parts
    <2> QED
        BY <2>1, <2>2, <2>3, <2>4
<1>2. IsArrayText(text, row.sent, row.starts) /\ row.sent[i][1] # Null
    <2>1. row.driver = "osm2pgsql" /\ row.valid /\ text # <<>>
        BY DEF SentArray
    <2>2. i \in DOMAIN row.sent
        BY RowsAssumption
    <2> QED
        BY <2>1, <2>2, ServerAssumption
<1> HIDE DEF n, text
<1>3. /\ text[Len(text)] = RightBrace /\ row.starts[n + 1][1] = Len(text) /\ row.starts[1][1] = 1
      /\ \A j \in 1..n : /\ IsArrayItem(text, row.starts[j][1], row.starts[j][2] - 1, row.sent[j][1])
                         /\ IsArrayItem(text, row.starts[j][2], row.starts[j + 1][1] - 1,
                                        row.sent[j][2])
                         /\ text[row.starts[j][2]] = Comma
                         /\ (j < n => text[row.starts[j + 1][1]] = Comma)
    BY <1>1, <1>2 DEF IsArrayText, n
<1>4. ASSUME NEW j \in 1..n
      PROVE  /\ row.starts[j][1] + 1 < row.starts[j][2]
             /\ row.starts[j][2] + 1 < row.starts[j + 1][1]
             /\ row.starts[j + 1][1] - 1 <= Len(text)
    <2> DEFINE k == row.starts[j][1]
               v == row.starts[j][2]
               w == row.starts[j + 1][1]
    <2>1. k \in Nat /\ v \in Nat /\ w \in Nat
        <3>1. n \in Nat /\ j \in 1..(n + 1) /\ j + 1 \in 1..(n + 1)
            BY <1>1
        <3> QED
            BY <1>1, <3>1, Zenon
    <2>2. /\ IsArrayItem(text, k, v - 1, row.sent[j][1])
          /\ IsArrayItem(text, v, w - 1, row.sent[j][2])
        BY <1>3
    <2> HIDE DEF k, v, w
    <2>3. v - 1 > k
        BY <1>1, <2>1, <2>2, ItemInText
    <2>4. w - 1 > v /\ w - 1 <= Len(text)
        BY <1>1, <2>1, <2>2, ItemInText
    <2>5. k + 1 < v /\ v + 1 < w
        BY <2>1, <2>3, <2>4
    <2> QED
        BY <2>4, <2>5, Zenon DEF k, v, w
<1>5. i \in 1..n /\ i + 1 \in 1..(n + 1) /\ i \in 1..(n + 1)
    BY <1>1 DEF n
<1>6. row.starts[i + 1][1] <= Len(text) /\ (i < n => row.starts[i + 1][1] < Len(text))
    <2>1. CASE i = n
        BY <1>1, <1>3, <2>1
    <2>2. CASE i < n
        <3>1. i + 1 \in 1..n /\ i + 1 \in 1..(n + 1) /\ i + 1 + 1 \in 1..(n + 1)
            BY <1>1, <1>5, <2>2
        <3> DEFINE k == row.starts[i + 1][1]
                   v == row.starts[i + 1][2]
                   w == row.starts[i + 1 + 1][1]
        <3>2. k + 1 < v /\ v + 1 < w /\ w - 1 <= Len(text)
            BY <1>4, <3>1
        <3>3. k \in Nat /\ v \in Nat /\ w \in Nat
            BY <1>1, <3>1, Zenon
        <3> HIDE DEF k, v, w
        <3>4. k < Len(text)
            BY <1>1, <3>2, <3>3
        <3>5. k <= Len(text)
            BY <1>1, <3>3, <3>4
        <3> QED
            BY <3>4, <3>5, Zenon DEF k
    <2> QED
        BY <1>1, <1>5, <2>1, <2>2
<1>7. row.starts[i][1] >= 1 /\ (row.starts[i][1] = 1 \/ text[row.starts[i][1]] = Comma)
    <2>1. CASE i = 1
        BY <1>3, <2>1
    <2>2. CASE i # 1
        <3>1. /\ i - 1 \in 1..n /\ i - 1 + 1 = i /\ i - 1 < n
              /\ i - 1 \in 1..(n + 1) /\ i \in 1..(n + 1)
            BY <1>1, <1>5, <2>2
        <3>2. /\ row.starts[i - 1][2] + 1 < row.starts[i - 1 + 1][1]
              /\ text[row.starts[i - 1 + 1][1]] = Comma
            BY <1>3, <1>4, <3>1
        <3>3. row.starts[i - 1][2] \in Nat /\ row.starts[i][1] \in Nat
            BY <1>1, <3>1, Zenon
        <3> QED
            BY <3>1, <3>2, <3>3
    <2> QED
        BY <2>1, <2>2
<1>8. i = n => text[row.starts[i + 1][1]] = RightBrace /\ row.starts[i + 1][1] = Len(text)
    BY <1>3
<1> QED
    BY <1>1, <1>2, <1>3, <1>4, <1>5, <1>6, <1>7, <1>8 DEF n, text

(* The element that is read now is in the text, between two delimiters.    *)
LEMMA ElementThere ==
    ASSUME IInv, SentArray, KeyRead, Len(tags) < Len(row.sent)
    PROVE  /\ Item \in Seq(STRING) /\ From \in Nat /\ To \in Nat
           /\ 1 <= From /\ From < To /\ To < m_max_length /\ m_max_length \in Nat
           /\ \/ IsString /\ CharAt(From) = Quote
              \/ IsWord /\ CharAt(From) \notin {RightBrace, Quote, Comma, Blank}
           /\ CharAt(To) \in {Comma, RightBrace} /\ (From = 1 \/ CharAt(From - 1) = Comma)
           /\ InKey => To + 1 = ValueStart /\ Item # Null
           /\ ~InKey => To + 1 = NextStart
<1> DEFINE text == row.text
<1>1. row \in Rows /\ Len(tags) \in Nat
    BY DEF IInv, TypeOK, PositionsSound
<1>2. tag \in 1..Len(row.sent) /\ tag + 1 = Len(tags) + 1 + 1
    BY <1>1, RowsAssumption DEF tag
<1>3. /\ Key \in Seq(STRING) /\ Value \in Seq(STRING) /\ Key # Null
      /\ Len(text) \in Nat /\ KeyStart \in Nat /\ ValueStart \in Nat /\ NextStart \in Nat
      /\ 1 <= KeyStart /\ KeyStart + 1 < ValueStart /\ ValueStart + 1 < NextStart
      /\ NextStart <= Len(text)
      /\ IsArrayItem(text, KeyStart, ValueStart - 1, Key)
      /\ IsArrayItem(text, ValueStart, NextStart - 1, Value)
      /\ text[ValueStart] = Comma /\ text[NextStart] \in {Comma, RightBrace}
      /\ KeyStart = 1 \/ text[KeyStart] = Comma
    <2>1. /\ tag = Len(row.sent) => text[NextStart] = RightBrace
          /\ tag < Len(row.sent) => text[NextStart] = Comma
        BY <1>1, <1>2, ArrayLayout DEF NextStart
    <2>2. text[NextStart] \in {Comma, RightBrace}
        BY <1>2, <2>1
    <2> HIDE DEF tag
    <2> QED
        BY <1>1, <1>2, <2>2, ArrayLayout DEF Key, Value, KeyStart, ValueStart, NextStart
<1> HIDE DEF text
<1>4. /\ Item \in Seq(STRING) /\ From \in Nat /\ To \in Nat
      /\ 1 <= From /\ From < To /\ To < Len(text)
      /\ IsArrayItem(text, From, To, Item)
      /\ text[To + 1] \in {Comma, RightBrace} /\ (From = 1 \/ text[From] = Comma)
      /\ InKey => To + 1 = ValueStart /\ Item # Null
      /\ ~InKey => To + 1 = NextStart
    <2>1. CASE InKey
        <3>1. Item = Key /\ From = KeyStart /\ To = ValueStart - 1
            BY <2>1 DEF Item, From, To
        <3>2. To + 1 = ValueStart
            BY <1>3, <3>1
        <3> QED
            BY <1>3, <2>1, <3>1, <3>2
    <2>2. CASE ~InKey
        <3>1. Item = Value /\ From = ValueStart /\ To = NextStart - 1
            BY <2>2 DEF Item, From, To
        <3>2. To + 1 = NextStart
            BY <1>3, <3>1
        <3> QED
            BY <1>3, <2>2, <3>1, <3>2
    <2> QED
        BY <2>1, <2>2
<1>5. \/ IsQuoted(text, From, To, Item) /\ Item # Null /\ text[From + 1] = Quote
      \/ /\ IsPlain(text, From, To, Word) /\ (Item = Null \/ ~NeedsQuotes(Item))
         /\ text[From + 1] \notin {RightBrace, Quote, Comma, Blank}
    BY <1>3, <1>4, ItemInText DEF Word
<1>6. CharAt(From) = text[From + 1] /\ CharAt(To) = text[To + 1] /\ CharAt(From - 1) = text[From]
    <2>1. From - 1 + 1 = From
        BY <1>4
    <2> QED
        BY <2>1 DEF CharAt, m_string_repr, text
<1>7. m_max_length = Len(text)
    BY DEF m_max_length, m_string_repr, text
<1> QED
    BY <1>3, <1>4, <1>5, <1>6, <1>7 DEF IsString, IsWord, text

(* Behind the last element there is only the closing brace.                *)
LEMMA AllElementsRead ==
    ASSUME IInv, SentArray, KeyRead, Len(tags) = Len(row.sent)
    PROVE  InKey /\ From = m_max_length /\ m_max_length \in Nat /\ m_max_length > 1
<1>1. row \in Rows /\ row.driver = "osm2pgsql" /\ row.valid /\ row.text # <<>>
    BY DEF IInv, PositionsSound, SentArray
<1>2. IsArrayText(row.text, row.sent, row.starts)
    BY <1>1, ServerAssumption
<1>3. row.starts[Len(row.sent) + 1][1] = Len(row.text) /\ (Len(row.sent) = 0 => Len(row.text) = 2)
    BY <1>2 DEF IsArrayText
<1>4. InKey
    BY DEF KeyRead
<1>5. From = m_max_length
    BY <1>3, <1>4 DEF From, KeyStart, tag, m_max_length, m_string_repr
<1>6. Len(row.sent) \in Nat /\ Len(row.text) \in Nat
    BY <1>1, RowsAssumption
<1>7. CASE Len(row.sent) > 0
    <2>1. Len(row.sent) \in 1..Len(row.sent)
        BY <1>6, <1>7
    <2> DEFINE n == Len(row.sent)
    <2>2. /\ row.starts[n][1] \in Nat /\ row.starts[n][2] \in Nat /\ row.starts[n + 1][1] \in Nat
          /\ 1 <= row.starts[n][1] /\ row.starts[n][1] + 1 < row.starts[n][2]
          /\ row.starts[n][2] + 1 < row.starts[n + 1][1]
        BY <1>1, <2>1, ArrayLayout
    <2> QED
        BY <1>3, <1>4, <1>5, <1>6, <2>2 DEF m_max_length, m_string_repr
<1>8. CASE Len(row.sent) = 0
    <2>1. m_max_length = 2
        BY <1>3, <1>8 DEF m_max_length, m_string_repr
    <2> QED
        BY <1>4, <1>5, <2>1
<1> QED
    BY <1>6, <1>7, <1>8

(* An even position is that of a key.                                      *)
LEMMA Parity ==
    ASSUME IInv, KeyRead
    PROVE  pos % 2 = 0 <=> InKey
<1>1. ASSUME NEW n \in Nat PROVE (2 * n) % 2 = 0 /\ (2 * n + 1) % 2 = 1
    OBVIOUS
<1>2. Len(tags) \in Nat /\ pos \in Nat
    BY DEF IInv, TypeOK
<1>3. (2 * Len(tags)) % 2 = 0 /\ (2 * Len(tags) + 1) % 2 = 1
    BY <1>1, <1>2
<1> QED
    BY <1>2, <1>3 DEF KeyRead, InKey

(* The element stays the one that is read.                                 *)
LEMMA SameElement ==
    ASSUME UNCHANGED <<row, tags, pairing>>
    PROVE  /\ From' = From /\ To' = To /\ Item' = Item /\ Word' = Word
           /\ IsWord' <=> IsWord
           /\ IsString' <=> IsString
           /\ TagsRead' <=> TagsRead
           /\ KeyRead' <=> KeyRead
           /\ Len(tags)' = Len(tags) /\ Len(row.sent)' = Len(row.sent)
<1> USE DEF pairing, tag, InKey, KeyStart, ValueStart, NextStart, Key, Value
<1>1. From' = From /\ To' = To /\ Item' = Item
    BY DEF From, To, Item
<1>2. Word' = Word
    BY <1>1 DEF Word
<1>3. (IsWord' <=> IsWord) /\ (IsString' <=> IsString)
    BY <1>1, <1>2 DEF IsWord, IsString
<1>4. TagsRead' <=> TagsRead
    BY DEF TagsRead, Sent
<1>5. KeyRead' <=> KeyRead
    BY DEF KeyRead
<1> QED
    BY <1>1, <1>2, <1>3, <1>4, <1>5

(* An array begins before its first element.                               *)
LEMMA ArrayBegins == ASSUME Init, SentArray PROVE ArrayReading
<1>1. /\ row.driver = "osm2pgsql" /\ row.valid /\ row.text # <<>> /\ InitOsm2pgsql
      /\ row \in Rows /\ tags = <<>> /\ ~quoted /\ ~backslash
    BY DEF Init, InitParser, InitCerepso, SentArray
<1>2. /\ pc = "has_next" /\ m_current_position = 1 /\ m_parse_progress = "NONE"
      /\ end = 0 /\ pos = 0
    BY <1>1 DEF InitOsm2pgsql, InitArray, InitElement, m_string_repr
<1>3. Len(tags) = 0 /\ tag = 1 /\ InKey /\ Len(row.sent) \in Nat
    BY <1>1, <1>2, RowsAssumption DEF tag, InKey
<1>4. IsArrayText(row.text, row.sent, row.starts)
    BY <1>1, ServerAssumption
<1>5. From \in {1, 2}
    <2>1. From = row.starts[1][1]
        BY <1>3 DEF From, KeyStart
    <2>2. row.starts[Len(row.sent) + 1][1] = Len(row.text)
        BY <1>4 DEF IsArrayText
    <2>3. IF Len(row.sent) = 0 THEN Len(row.text) = 2 ELSE row.starts[1][1] = 1
        BY <1>4 DEF IsArrayText
    <2>4. CASE Len(row.sent) = 0
        <3>1. Len(row.sent) + 1 = 1
            BY <2>4
        <3> QED
            BY <2>1, <2>2, <2>3, <2>4, <3>1, Zenon
    <2>5. CASE Len(row.sent) # 0
        BY <2>1, <2>3, <2>5
    <2> QED
        BY <2>4, <2>5
<1>6. BeforeElement
    <2>1. m_current_position \in {From - 1, From}
        BY <1>2, <1>5
    <2> QED
        BY <1>1, <1>2, <2>1 DEF BeforeElement
<1>7. TagsRead /\ KeyRead
    BY <1>3 DEF TagsRead, KeyRead
<1> QED
    BY <1>2, <1>6, <1>7 DEF ArrayReading

(* has_next sees whether there is another element.                         *)
LEMMA ArrayHasNextReads ==
    ASSUME IInv, SentArray, ArrayReading, ArrayHasNext
    PROVE  ArrayReading'
<1>1. /\ pc = "has_next" /\ TagsRead /\ KeyRead /\ BeforeElement
      /\ UNCHANGED <<row, tags, pairing, m_current_position>>
    BY DEF ArrayReading, ArrayHasNext, parser
<1>2. /\ m_current_position \in 1..m_max_length /\ m_max_length \in Nat
      /\ Len(tags) \in Nat /\ Len(row.sent) \in Nat /\ Len(tags) <= Len(row.sent)
    BY <1>1, TextLength, RowsAssumption DEF IInv, TypeOK, PositionsSound, SentArray, TagsRead
<1>3. BeforeLimit <=> m_current_position < m_max_length - 1
    BY <1>2 DEF BeforeLimit, Unsigned
<1>4. TagsRead' /\ KeyRead' /\ From' = From /\ Len(tags)' = Len(tags) /\ Len(row.sent)' = Len(row.sent)
    BY <1>1, SameElement
<1>5. CASE BeforeLimit /\ Char # RightBrace
    <2>1. /\ pc' = "get_next" /\ m_parse_progress' = "NONE" /\ ~quoted' /\ ~backslash'
          /\ end' = 0
        BY <1>5, Zenon DEF ArrayHasNext, StartGetNext
    <2>2. Len(tags) # Len(row.sent)
        <3>1. ASSUME Len(tags) = Len(row.sent) PROVE FALSE
            <4>1. From = m_max_length
                BY <1>1, <3>1, AllElementsRead
            <4>2. m_current_position \in {From - 1, From}
                BY <1>1 DEF BeforeElement
            <4> QED
                BY <1>2, <1>3, <1>5, <4>1, <4>2
        <3> QED
            BY <3>1
    <2>3. Len(tags)' < Len(row.sent)'
        BY <1>2, <1>4, <2>2
    <2>4. BeforeElement'
        BY <1>1, <1>4, <2>1 DEF BeforeElement
    <2> QED
        BY <1>4, <2>1, <2>3, <2>4 DEF ArrayReading
<1>6. CASE ~(BeforeLimit /\ Char # RightBrace)
    <2>1. pc' = "done"
        BY <1>6, Zenon DEF ArrayHasNext
    <2>2. ~(Len(tags) < Len(row.sent))
        <3>1. ASSUME Len(tags) < Len(row.sent) PROVE FALSE
            <4>1. /\ From \in Nat /\ To \in Nat /\ 1 <= From /\ From < To /\ To < m_max_length
                  /\ CharAt(From) # RightBrace /\ (From = 1 \/ CharAt(From - 1) = Comma)
                BY <1>1, <3>1, ElementThere, CharsDiffer
            <4>2. m_current_position \in {From - 1, From}
                BY <1>1 DEF BeforeElement
            <4>3. BeforeLimit
                BY <1>2, <1>3, <4>1, <4>2
            <4>4. CharAt(m_current_position) # RightBrace
                <5>1. m_current_position = From - 1 => From # 1
                    BY <1>2, <4>1
                <5>2. Comma # RightBrace
                    BY CharsDiffer, Zenon
                <5> QED
                    BY <4>1, <4>2, <5>1, <5>2
            <4> QED
                BY <1>6, <4>3, <4>4 DEF Char
        <3> QED
            BY <3>1
    <2>3. Len(tags)' = Len(row.sent)'
        BY <1>2, <1>4, <2>2
    <2> QED
        BY <1>4, <2>1, <2>3 DEF ArrayReading
<1> QED
    BY <1>5, <1>6

(* A comma is skipped; the first character tells what kind of element      *)
(* begins.                                                                 *)
LEMMA BeginElementReads ==
    ASSUME IInv, SentArray, ArrayReading, BeginElement
    PROVE  ArrayReading'
<1>1. /\ pc = "get_next" /\ m_parse_progress = "NONE"
      /\ TagsRead /\ KeyRead /\ BeforeElement /\ Len(tags) < Len(row.sent)
      /\ UNCHANGED <<row, tags, pairing, pc, backslash, end>>
      /\ m_current_position' = m_current_position + 1
    BY DEF ArrayReading, BeginElement, InLoop, Advance
<1>2. m_current_position \in {From - 1, From} /\ ~quoted /\ ~backslash /\ end = 0
    BY <1>1 DEF BeforeElement
<1>3. /\ From \in Nat /\ To \in Nat /\ 1 <= From /\ From < To
      /\ \/ IsString /\ CharAt(From) = Quote
         \/ IsWord /\ CharAt(From) \notin {RightBrace, Quote, Comma, Blank}
      /\ From = 1 \/ CharAt(From - 1) = Comma
      /\ Item \in Seq(STRING)
    BY <1>1, ElementThere
<1>4. /\ TagsRead' /\ KeyRead' /\ From' = From /\ To' = To /\ Item' = Item
      /\ Len(tags)' < Len(row.sent)'
      /\ (IsString' <=> IsString) /\ (IsWord' <=> IsWord)
    BY <1>1, SameElement
<1>5. CASE Char \in {Comma, Blank}
    <2>1. UNCHANGED <<start, m_parse_progress, quoted>>
        BY <1>5, CharsDiffer, Zenon DEF BeginElement
    <2>2. m_current_position = From - 1
        BY <1>2, <1>3, <1>5, CharsDiffer DEF Char
    <2>3. m_current_position' = From
        BY <1>1, <1>3, <2>2
    <2>4. BeforeElement'
        BY <1>1, <1>2, <1>4, <2>1, <2>3 DEF BeforeElement
    <2> QED
        BY <1>1, <1>4, <2>1, <2>4 DEF ArrayReading
<1>6. ASSUME Char \notin {Comma, Blank} PROVE m_current_position = From
    <2>1. m_current_position \in 1..m_max_length
        BY <1>1 DEF IInv, PositionsSound, SentArray
    <2> QED
        BY <1>2, <1>3, <1>6, <2>1 DEF Char
<1>7. CASE Char = Quote
    <2>1. quoted' /\ start' = m_current_position + 1 /\ m_parse_progress' = "ELEMENT"
        BY <1>7, CharsDiffer, Zenon DEF BeginElement
    <2>2. m_current_position = From /\ IsString
        BY <1>3, <1>6, <1>7, CharsDiffer DEF Char
    <2>3. start' = From + 1 /\ m_current_position' = From + 1
        BY <1>1, <2>1, <2>2
    <2>4. 1 \in 1..(Len(Item) + 1) /\ Offset(Item, 1) = 0
        BY <1>3, OffsetSteps
    <2>5. From + 1 = From + 1 + Offset(Item, 1) + 0
        BY <1>3, <2>4
    <2>6. ~backslash'
        BY <1>1, <1>2
    <2>7. Inside(Item, From + 1, 1, backslash', m_current_position')
        BY <2>3, <2>4, <2>5, <2>6, Zenon DEF Inside
    <2>8. InElement'
        BY <1>1, <1>2, <1>4, <2>1, <2>2, <2>3, <2>4, <2>7, Zenon DEF InElement
    <2> QED
        BY <1>1, <1>4, <2>1, <2>8 DEF ArrayReading
<1>8. CASE Char \notin {Quote, Comma, Blank}
    <2>1. ~quoted' /\ start' = m_current_position /\ m_parse_progress' = "ELEMENT"
        <3>1. Char # Quote /\ Char # Comma /\ Char # Blank
            BY <1>8
        <3>2. Char \notin {Comma, Blank}
            BY <3>1
        <3>3. start' = m_current_position /\ m_parse_progress' = "ELEMENT" /\ quoted' = quoted
            BY <3>1, <3>2, Zenon DEF BeginElement
        <3> QED
            BY <1>2, <3>3
    <2>2. m_current_position = From /\ IsWord
        BY <1>3, <1>6, <1>8 DEF Char
    <2>3. start' = From /\ m_current_position' \in (From + 1)..To
        BY <1>1, <1>3, <2>1, <2>2
    <2>4. ~backslash'
        BY <1>1, <1>2
    <2>5. InElement'
        BY <1>1, <1>2, <1>4, <2>1, <2>2, <2>3, <2>4, Zenon DEF InElement
    <2> QED
        BY <1>1, <1>4, <2>1, <2>5 DEF ArrayReading
<1> QED
    BY <1>5, <1>7, <1>8

(* A string ends with the first quotation mark that is not escaped.        *)
LEMMA QuotedElementReads ==
    ASSUME IInv, SentArray, ArrayReading, QuotedElement
    PROVE  ArrayReading'
<1>1. /\ pc = "get_next" /\ m_parse_progress = "ELEMENT" /\ quoted
      /\ TagsRead /\ KeyRead /\ InElement /\ Len(tags) < Len(row.sent)
      /\ UNCHANGED <<row, tags, pairing, quoted, start>>
      /\ m_current_position' = m_current_position + 1
    BY DEF ArrayReading, QuotedElement, InLoop, Advance
<1>2. end = 0 /\ IsString /\ start = From + 1
    BY <1>1, Zenon DEF InElement
<1>3. PICK i \in 1..(Len(Item) + 1) :
        Inside(Item, From + 1, i, backslash, m_current_position)
    BY <1>1, Zenon DEF InElement
<1>4. /\ Item \in Seq(STRING) /\ From \in Nat /\ To \in Nat /\ backslash \in BOOLEAN
      /\ IsQuoted(row.text, From, To, Item)
    BY <1>1, <1>2, ElementThere DEF IsString, IInv, TypeOK, ParserTypeOK
<1>5. /\ TagsRead' /\ KeyRead' /\ From' = From /\ To' = To /\ Item' = Item
      /\ Len(tags)' < Len(row.sent)'
      /\ IsString'
    BY <1>1, <1>2, SameElement
<1>6. Char = row.text[m_current_position + 1]
    BY DEF Char, CharAt, m_string_repr
<1>7. /\ backslash =>
            /\ Char \in Escapable
            /\ Inside(Item, From + 1, i + 1, FALSE, m_current_position + 1)
      /\ ~backslash /\ i <= Len(Item) =>
            \/ /\ Char = "\\"
               /\ Inside(Item, From + 1, i, TRUE, m_current_position + 1)
            \/ /\ Char \notin Escapable
               /\ Inside(Item, From + 1, i + 1, FALSE, m_current_position + 1)
      /\ ~backslash /\ i > Len(Item) => Char = Quote /\ m_current_position + 1 = To
    <2>1. GoesOn(row.text, From, To, Item, i, backslash, m_current_position)
        BY <1>3, <1>4, InsideStep, Zenon
    <2> QED
        BY <1>6, <2>1, Zenon DEF GoesOn
<1>8. ASSUME NEW j, Inside(Item, From + 1, j, backslash', m_current_position + 1),
             pc' = pc, end' = end, m_parse_progress' = m_parse_progress
      PROVE  ArrayReading'
    <2>1. j \in 1..(Len(Item) + 1)
        BY <1>8 DEF Inside
    <2>2. InElement'
        BY <1>1, <1>2, <1>5, <1>8, <2>1, Zenon DEF InElement
    <2> QED
        BY <1>1, <1>5, <1>8, <2>2 DEF ArrayReading
<1>9. CASE backslash
    <2>1. Char \in Escapable
        BY <1>7, <1>9, Zenon DEF Escapable
    <2>2. ~backslash' /\ UNCHANGED <<pc, end, m_parse_progress>>
        BY <1>9, <2>1, Zenon DEF QuotedElement
    <2>3. Inside(Item, From + 1, i + 1, backslash', m_current_position + 1)
        BY <1>7, <1>9, <2>2, Zenon DEF Inside
    <2> QED
        BY <1>8, <2>2, <2>3
<1>10. CASE ~backslash /\ i <= Len(Item) /\ Char = "\\"
    <2>1. backslash' /\ UNCHANGED <<pc, end, m_parse_progress>>
        <3>1. Char # Quote
            BY <1>10, CharsDiffer
        <3> QED
            BY <1>10, <3>1, Zenon DEF QuotedElement, Escapable
    <2>2. Inside(Item, From + 1, i, TRUE, m_current_position + 1)
        BY <1>7, <1>10 DEF Escapable
    <2>3. Inside(Item, From + 1, i, backslash', m_current_position + 1)
        BY <2>1, <2>2, Zenon DEF Inside
    <2> QED
        BY <1>8, <2>1, <2>3
<1>11. CASE ~backslash /\ i <= Len(Item) /\ Char # "\\"
    <2>1. Char \notin Escapable /\ Inside(Item, From + 1, i + 1, FALSE, m_current_position + 1)
        BY <1>7, <1>11, Zenon DEF Escapable
    <2>2. ~backslash' /\ UNCHANGED <<pc, end, m_parse_progress>>
        <3>1. Char # Quote
            BY <2>1 DEF Escapable
        <3>2. UNCHANGED <<pc, end, m_parse_progress, backslash>>
            BY <1>11, <2>1, <3>1, Zenon DEF QuotedElement
        <3> QED
            BY <1>11, <3>2
    <2>3. Inside(Item, From + 1, i + 1, backslash', m_current_position + 1)
        BY <2>1, <2>2, Zenon DEF Inside
    <2> QED
        BY <1>8, <2>2, <2>3
<1>12. CASE ~backslash /\ i > Len(Item)
    <2>1. Char = Quote /\ m_current_position + 1 = To /\ m_current_position \in Nat
        BY <1>7, <1>12 DEF IInv, TypeOK, ParserTypeOK
    <2>2. Char # "\\" /\ Char \in Escapable
        BY <2>1, CharsDiffer DEF Escapable
    <2>3. end' = m_current_position - 1 /\ m_parse_progress' = "END" /\ pc' = pc
        BY <1>12, <2>1, <2>2, Zenon DEF QuotedElement
    <2>4. m_current_position' = To /\ end' = To - 2
        BY <1>1, <1>4, <2>1, <2>3
    <2>5. BehindElement'
        BY <1>1, <1>2, <1>5, <2>4, Zenon DEF BehindElement
    <2> QED
        BY <1>1, <1>5, <2>3, <2>5 DEF ArrayReading
<1> QED
    <2>1. i \in Nat /\ Len(Item) \in Nat
        BY <1>4
    <2>2. i <= Len(Item) \/ i > Len(Item)
        BY <2>1
    <2> QED
        BY <1>9, <1>10, <1>11, <1>12, <2>2, Zenon

(* The characters of a word.                                               *)
LEMMA WordChars ==
    ASSUME IInv, SentArray, KeyRead, Len(tags) < Len(row.sent), IsWord
    PROVE  /\ Word \in Seq(Chars) /\ Len(Word) \in Nat /\ To = From + Len(Word)
           /\ \A i \in 1..Len(Word) :
                row.text[From + i] = Word[i] /\ Word[i] \notin {RightBrace, Quote, Comma, Blank, "\\"}
           /\ Item # Null => Word = Item /\ Word # NullWord
           /\ Item = Null => Word = NullWord
<1>1. Item \in Seq(STRING)
    BY ElementThere
<1>2. CASE Item = Null
    <2>1. Word = NullWord
        BY <1>2 DEF Word
    <2>2. \A i \in 1..4 : NullWord[i] \notin {RightBrace, Quote, Comma, Blank, "\\"}
        <3>1. \A i \in 1..4 : i = 1 \/ i = 2 \/ i = 3 \/ i = 4
            OBVIOUS
        <3>2. /\ NullWord[1] = "N" /\ NullWord[2] = "U" /\ NullWord[3] = "L" /\ NullWord[4] = "L"
            BY DEF NullWord
        <3>3. \A c \in {"N", "U", "L"} : c \notin {RightBrace, Quote, Comma, Blank, "\\"}
            BY CharsDiffer, Zenon
        <3> QED
            BY <3>1, <3>2, <3>3
    <2>3. \A i \in 1..4 : i \in DOMAIN NullWord
        BY WordIsText
    <2>4. To = From + Len(Word) /\ \A i \in DOMAIN Word : row.text[From + i] = Word[i]
        BY Zenon DEF IsWord, IsPlain
    <2> QED
        BY <1>2, <2>1, <2>2, <2>3, <2>4, WordIsText
<1>3. CASE Item # Null
    <2>1. Word = Item
        BY <1>3 DEF Word
    <2>2. /\ To = From + Len(Word) /\ \A i \in DOMAIN Word : row.text[From + i] = Word[i]
          /\ ~NeedsQuotes(Item)
        BY <1>3, Zenon DEF IsWord, IsPlain
    <2>3. DOMAIN Word = 1..Len(Word) /\ Len(Word) \in Nat
        BY <1>1, <2>1
    <2>4. Item # NullWord /\ \A i \in DOMAIN Item : Item[i] \notin {RightBrace, Quote, Comma, Blank, "\\"}
        BY <2>2, Zenon DEF NeedsQuotes
    <2> QED
        BY <1>1, <1>3, <2>1, <2>2, <2>3, <2>4, WordIsText
<1> QED
    BY <1>2, <1>3

(* A word ends with the delimiter behind it.                               *)
LEMMA UnquotedElementReads ==
    ASSUME IInv, SentArray, ArrayReading, UnquotedElement
    PROVE  ArrayReading'
<1>1. /\ pc = "get_next" /\ m_parse_progress = "ELEMENT" /\ ~quoted
      /\ TagsRead /\ KeyRead /\ InElement /\ Len(tags) < Len(row.sent)
      /\ UNCHANGED <<row, tags, pairing, pc, quoted, backslash, start>>
      /\ m_current_position' = m_current_position + 1
    BY DEF ArrayReading, UnquotedElement, InLoop, Advance
<1>2. end = 0 /\ IsWord /\ start = From /\ ~backslash /\ m_current_position \in (From + 1)..To
    BY <1>1, Zenon DEF InElement
<1>3. From \in Nat /\ To \in Nat /\ CharAt(To) \in {Comma, RightBrace}
    BY <1>1, ElementThere
<1>4. /\ TagsRead' /\ KeyRead' /\ From' = From /\ To' = To /\ Item' = Item
      /\ Len(tags)' < Len(row.sent)'
      /\ IsWord'
    BY <1>1, <1>2, SameElement
<1>5. CASE m_current_position = To
    <2>1. Char \in {Comma, RightBrace}
        BY <1>3, <1>5 DEF Char
    <2>2. Char # Blank
        BY <2>1, CharsDiffer
    <2>3. m_parse_progress' = "END" /\ end' = m_current_position - 1
        BY <1>2, <2>1, <2>2, Zenon DEF UnquotedElement
    <2>4. end' = To - 1 /\ m_current_position' = To + 1
        BY <1>1, <1>5, <2>3
    <2>5. BehindElement'
        BY <1>1, <1>2, <1>4, <2>4, Zenon DEF BehindElement
    <2> QED
        BY <1>1, <1>4, <2>3, <2>5 DEF ArrayReading
<1>6. CASE m_current_position # To
    <2> DEFINE i == m_current_position - From + 1
    <2>1. /\ To = From + Len(Word) /\ Len(Word) \in Nat
          /\ \A j \in 1..Len(Word) :
                row.text[From + j] = Word[j] /\ Word[j] \notin {RightBrace, Quote, Comma, Blank, "\\"}
        BY <1>1, <1>2, WordChars
    <2>2. i \in 1..Len(Word) /\ From + i = m_current_position + 1
        BY <1>2, <1>3, <1>6, <2>1
    <2>3. Char = row.text[m_current_position + 1]
        BY DEF Char, CharAt, m_string_repr
    <2>4. Char \notin {Comma, RightBrace} /\ Char # Blank
        BY <2>1, <2>2, <2>3
    <2>5. m_parse_progress' = m_parse_progress /\ end' = end
        BY <2>4, Zenon DEF UnquotedElement
    <2>6. m_current_position' \in (From + 1)..To
        BY <1>1, <1>2, <1>3, <1>6
    <2>7. InElement'
        BY <1>1, <1>2, <1>4, <2>5, <2>6, Zenon DEF InElement
    <2> QED
        BY <1>1, <1>4, <2>5, <2>7 DEF ArrayReading
<1> QED
    BY <1>5, <1>6

(* The element that was read stays there while it is copied.               *)
LEMMA BehindStays ==
    ASSUME UNCHANGED <<row, tags, pairing, quoted, start, end, m_current_position>>
    PROVE  BehindElement' <=> BehindElement
<1>1. /\ From' = From /\ To' = To
      /\ (IsWord' <=> IsWord) /\ (IsString' <=> IsString)
    BY SameElement
<1> QED
    BY <1>1, Zenon DEF BehindElement

(* The loop over the text ends behind the element.                         *)
LEMMA BeginCopyReads ==
    ASSUME IInv, SentArray, ArrayReading, BeginCopy
    PROVE  ArrayReading'
<1>1. /\ pc = "get_next" /\ ~InLoop /\ TagsRead /\ KeyRead /\ Len(tags) < Len(row.sent)
      /\ pc' = "remove_escape_sequences" /\ current_position_src' = start
      /\ UNCHANGED <<row, tags, pairing, start, end, m_current_position, m_parse_progress>>
    BY DEF ArrayReading, BeginCopy, parser
<1>2. quoted' = quoted /\ ~backslashes_before' /\ result' = <<>>
    BY Zenon DEF BeginCopy, parser
<1>3. /\ Item \in Seq(STRING) /\ From \in Nat /\ To \in Nat
      /\ From < To /\ To < m_max_length /\ m_max_length \in Nat
    BY <1>1, ElementThere
<1>4. m_current_position \in Nat /\ quoted \in BOOLEAN /\ backslash \in BOOLEAN
    BY Zenon DEF IInv, TypeOK, ParserTypeOK
<1>5. m_parse_progress = "END"
    <2>1. m_parse_progress \in {"NONE", "ELEMENT", "END"}
        BY <1>1 DEF ArrayReading
    <2>2. ~(m_current_position < m_max_length) \/ m_parse_progress = "END"
        BY <1>1 DEF InLoop
    <2>3. CASE m_parse_progress = "NONE"
        <3>1. m_current_position \in {From - 1, From}
            BY <1>1, <2>3 DEF ArrayReading, BeforeElement
        <3> QED
            BY <1>3, <2>2, <3>1
    <2>4. CASE m_parse_progress = "ELEMENT"
        <3>1. InElement
            BY <1>1, <2>4 DEF ArrayReading
        <3>2. CASE quoted
            <4>1. PICK i \in 1..(Len(Item) + 1) :
                    Inside(Item, From + 1, i, backslash, m_current_position)
                BY <3>1, <3>2, Zenon DEF InElement
            <4>2. IsQuoted(row.text, From, To, Item)
                BY <3>1, <3>2, Zenon DEF InElement, IsString
            <4>3. GoesOn(row.text, From, To, Item, i, backslash, m_current_position)
                BY <1>3, <1>4, <4>1, <4>2, InsideStep, Zenon
            <4>4. m_current_position < To
                BY <4>3, Zenon DEF GoesOn
            <4> QED
                BY <1>3, <1>4, <2>2, <4>4
        <3>3. CASE ~quoted
            <4>1. m_current_position \in (From + 1)..To
                BY <3>1, <3>3, Zenon DEF InElement
            <4> QED
                BY <1>3, <2>2, <4>1
        <3> QED
            BY <3>2, <3>3
    <2> QED
        BY <2>1, <2>3, <2>4
<1>6. BehindElement /\ BehindElement'
    BY <1>1, <1>2, <1>5, BehindStays DEF ArrayReading
<1>7. /\ TagsRead' /\ KeyRead' /\ From' = From /\ Item' = Item /\ Word' = Word
      /\ Len(tags)' < Len(row.sent)'
    BY <1>1, SameElement
<1>8. PartRead(<<>>, Item) /\ PartRead(<<>>, Word) /\ Len(<<>>) = 0
    <2>1. Len(Item) \in Nat /\ Len(Word) \in Nat
        BY <1>3, WordIsText DEF Word
    <2> QED
        BY <2>1 DEF PartRead
<1>9. CASE quoted
    <2>1. start = From + 1
        BY <1>6, <1>9, Zenon DEF BehindElement
    <2>2. 1 \in 1..(Len(Item) + 1) /\ Offset(Item, 1) = 0 /\ Len(result') + 1 = 1
        BY <1>2, <1>3, <1>8, OffsetSteps
    <2>3. From + 1 = From + 1 + Offset(Item, 1) + 0
        BY <1>3, <2>2
    <2>4. Inside(Item, From + 1, 1, backslashes_before', current_position_src')
        BY <1>1, <1>2, <2>1, <2>2, <2>3, Zenon DEF Inside
    <2>5. Copying'
        BY <1>2, <1>7, <1>8, <1>9, <2>2, <2>4, Zenon DEF Copying
    <2> QED
        BY <1>1, <1>5, <1>6, <1>7, <2>5 DEF ArrayReading
<1>10. CASE ~quoted
    <2>1. start = From /\ From = From + Len(<<>>)
        <3>1. start = From
            BY <1>6, <1>10, Zenon DEF BehindElement
        <3> QED
            BY <1>3, <1>8, <3>1
    <2>2. Copying'
        BY <1>1, <1>2, <1>7, <1>8, <1>10, <2>1, Zenon DEF Copying
    <2> QED
        BY <1>1, <1>5, <1>6, <1>7, <2>2 DEF ArrayReading
<1> QED
    BY <1>9, <1>10

(* Character by character the element is copied without its backslashes.   *)
LEMMA CopyCharReads ==
    ASSUME IInv, SentArray, ArrayReading, CopyChar
    PROVE  ArrayReading'
<1> DEFINE char == CharAt(current_position_src)
           i == Len(result) + 1
<1>1. /\ pc = "remove_escape_sequences" /\ current_position_src <= end
      /\ TagsRead /\ KeyRead /\ Len(tags) < Len(row.sent)
      /\ m_parse_progress = "END" /\ BehindElement /\ Copying
      /\ current_position_src' = current_position_src + 1
      /\ UNCHANGED <<row, tags, pairing, start, end, m_current_position, m_parse_progress>>
    BY DEF ArrayReading, CopyChar, parser
<1>2. quoted' = quoted
    BY Zenon DEF CopyChar, parser
<1>3. /\ Item \in Seq(STRING) /\ From \in Nat /\ To \in Nat
      /\ From < To /\ To < m_max_length /\ m_max_length \in Nat
    BY <1>1, ElementThere
<1>4. /\ current_position_src \in Nat /\ end \in Nat
      /\ result \in Seq(STRING) /\ Len(result) \in Nat
      /\ row \in Rows
    BY DEF IInv, TypeOK, PositionsSound
<1>5. backslashes_before \in BOOLEAN /\ quoted \in BOOLEAN
    BY Zenon DEF IInv, TypeOK, ParserTypeOK
<1>6. end \in {To - 2, To - 1} /\ BehindElement'
    <2>1. quoted => end = To - 2
        BY <1>1, Zenon DEF BehindElement
    <2>2. ~quoted => end = To - 1
        BY <1>1, Zenon DEF BehindElement
    <2> QED
        BY <1>1, <1>2, <2>1, <2>2, BehindStays
<1>7. char \in STRING /\ char = row.text[current_position_src + 1]
    <2>1. current_position_src < m_max_length
        BY <1>1, <1>3, <1>4, <1>6
    <2> QED
        BY <1>4, <2>1, TextLength DEF CharAt, m_string_repr
<1>8. /\ TagsRead' /\ KeyRead' /\ From' = From /\ Item' = Item /\ Word' = Word
      /\ Len(tags)' < Len(row.sent)'
    BY <1>1, SameElement
<1>9. ASSUME pc' = pc, Copying' PROVE ArrayReading'
    BY <1>1, <1>6, <1>8, <1>9 DEF ArrayReading
<1> HIDE DEF char, i
<1>10. Len(Append(result, char)) + 1 = i + 1
    BY <1>4, <1>7, Appended DEF i
<1>11. CASE quoted
    <2>1. /\ PartRead(result, Item)
          /\ Inside(Item, From + 1, i, backslashes_before, current_position_src)
          /\ IsQuoted(row.text, From, To, Item)
          /\ end = To - 2
        BY <1>1, <1>11, Zenon DEF Copying, BehindElement, IsString, i
    <2>2. GoesOn(row.text, From, To, Item, i, backslashes_before, current_position_src)
        BY <1>3, <1>5, <2>1, InsideStep, Zenon
    <2>3. /\ backslashes_before =>
            /\ i <= Len(Item) /\ char = Item[i] /\ char \in Escapable
            /\ Inside(Item, From + 1, i + 1, FALSE, current_position_src + 1)
          /\ ~backslashes_before /\ i <= Len(Item) =>
            \/ char = "\\" /\ Inside(Item, From + 1, i, TRUE, current_position_src + 1)
            \/ /\ char = Item[i] /\ char \notin Escapable
               /\ Inside(Item, From + 1, i + 1, FALSE, current_position_src + 1)
          /\ ~backslashes_before /\ i > Len(Item) => current_position_src + 1 = To
        BY <1>7, <2>2, Zenon DEF GoesOn
    <2>4. ~backslashes_before => i <= Len(Item)
        <3>1. i \in Nat /\ Len(Item) \in Nat /\ current_position_src + 1 # To
            BY <1>1, <1>3, <1>4, <2>1 DEF i
        <3> QED
            BY <2>3, <3>1
    <2>5. ASSUME i <= Len(Item), char = Item[i], result' = Append(result, char),
                 ~backslashes_before', pc' = pc,
                 Inside(Item, From + 1, i + 1, FALSE, current_position_src + 1)
          PROVE  ArrayReading'
        <3>1. PartRead(result', Item)
            <4>1. Len(result) < Len(Item)
                BY <1>3, <1>4, <2>5 DEF i
            <4> QED
                BY <1>3, <1>4, <1>7, <2>1, <2>5, <4>1, PartGrows DEF i
        <3>2. Inside(Item, From + 1, Len(result') + 1, backslashes_before', current_position_src')
            BY <1>1, <1>10, <2>5, Zenon DEF Inside
        <3>3. Copying'
            BY <1>2, <1>8, <1>11, <3>1, <3>2, Zenon DEF Copying
        <3> QED
            BY <1>9, <2>5, <3>3
    <2>6. CASE backslashes_before
        <3>1. char \in Escapable
            BY <2>3, <2>6
        <3>2. result' = Append(result, char) /\ ~backslashes_before' /\ pc' = pc
            BY <2>6, <3>1, Zenon DEF CopyChar, char
        <3> QED
            BY <2>3, <2>5, <2>6, <3>2
    <2>7. CASE ~backslashes_before /\ char = "\\"
        <3>1. result' = result /\ backslashes_before' /\ pc' = pc
            BY <2>7, Zenon DEF CopyChar, char
        <3>2. char \in Escapable
            BY <2>7 DEF Escapable
        <3>3. Inside(Item, From + 1, i, TRUE, current_position_src + 1)
            BY <2>3, <2>4, <2>7, <3>2
        <3>4. Inside(Item, From + 1, Len(result') + 1, backslashes_before', current_position_src')
            BY <1>1, <3>1, <3>3, Zenon DEF Inside, i
        <3>5. Copying'
            BY <1>2, <1>8, <1>11, <2>1, <3>1, <3>4, Zenon DEF Copying
        <3> QED
            BY <1>9, <3>1, <3>5
    <2>8. CASE ~backslashes_before /\ char # "\\"
        <3>1. result' = Append(result, char) /\ ~backslashes_before' /\ pc' = pc
            BY <2>8, Zenon DEF CopyChar, char
        <3> QED
            BY <2>3, <2>4, <2>5, <2>8, <3>1
    <2> QED
        BY <2>6, <2>7, <2>8
<1>12. CASE ~quoted
    <2>1. /\ PartRead(result, Word) /\ ~backslashes_before /\ IsWord
          /\ current_position_src = From + Len(result) /\ end = To - 1
        BY <1>1, <1>12, Zenon DEF Copying, BehindElement
    <2>2. /\ Word \in Seq(Chars) /\ Len(Word) \in Nat /\ To = From + Len(Word)
          /\ \A j \in 1..Len(Word) :
                row.text[From + j] = Word[j] /\ Word[j] \notin {RightBrace, Quote, Comma, Blank, "\\"}
        BY <1>1, <2>1, WordChars
    <2>3. i \in 1..Len(Word) /\ Len(result) < Len(Word) /\ From + i = current_position_src + 1
        BY <1>1, <1>3, <1>4, <2>1, <2>2 DEF i
    <2>4. char = Word[i] /\ char # "\\"
        BY <1>7, <2>2, <2>3
    <2>5. result' = Append(result, char) /\ ~backslashes_before' /\ pc' = pc
        BY <2>1, <2>4, Zenon DEF CopyChar, char
    <2>6. PartRead(result', Word) /\ Len(result') = Len(result) + 1
        BY <1>4, <1>7, <2>1, <2>2, <2>3, <2>4, <2>5, PartGrows DEF i
    <2>7. current_position_src' = From + Len(result')
        BY <1>1, <1>3, <1>4, <2>1, <2>6
    <2>8. Copying'
        BY <1>2, <1>8, <1>12, <2>5, <2>6, <2>7, Zenon DEF Copying
    <2> QED
        BY <1>9, <2>5, <2>8
<1> QED
    BY <1>11, <1>12

(* What tags_from_pg_string_array gets for the element.                    *)
LEMMA ElementCopied ==
    ASSUME IInv, SentArray, ArrayReading, ReturnElement
    PROVE  to_output_format(result) = IF Item = Null THEN <<>> ELSE Item
<1> DEFINE i == Len(result) + 1
<1>1. /\ pc = "remove_escape_sequences" /\ current_position_src > end
      /\ KeyRead /\ Len(tags) < Len(row.sent) /\ BehindElement /\ Copying
    BY DEF ArrayReading, ReturnElement
<1>2. Item \in Seq(STRING) /\ From \in Nat /\ To \in Nat
    BY <1>1, ElementThere
<1>3. /\ current_position_src \in Nat /\ end \in Nat
      /\ result \in Seq(STRING) /\ Len(result) \in Nat
    BY DEF IInv, TypeOK
<1>4. backslashes_before \in BOOLEAN /\ quoted \in BOOLEAN
    BY Zenon DEF IInv, TypeOK, ParserTypeOK
<1> HIDE DEF i
<1>5. CASE quoted
    <2>1. /\ PartRead(result, Item)
          /\ Inside(Item, From + 1, i, backslashes_before, current_position_src)
          /\ IsQuoted(row.text, From, To, Item) /\ Item # Null
          /\ end = To - 2
        BY <1>1, <1>5, Zenon DEF Copying, BehindElement, IsString, i
    <2>2. GoesOn(row.text, From, To, Item, i, backslashes_before, current_position_src)
        BY <1>2, <1>4, <2>1, InsideStep, Zenon
    <2>3. current_position_src < To
        BY <2>2, Zenon DEF GoesOn
    <2>4. current_position_src + 1 = To
        BY <1>1, <1>2, <1>3, <2>1, <2>3
    <2>5. ASSUME NEW j, NEW escaped \in BOOLEAN,
                 Inside(Item, From + 1, j, escaped, current_position_src + 1)
          PROVE  FALSE
        <3>1. GoesOn(row.text, From, To, Item, j, escaped, current_position_src + 1)
            BY <1>2, <2>1, <2>5, InsideStep, Zenon
        <3>2. current_position_src + 1 < To
            BY <3>1, Zenon DEF GoesOn
        <3> QED
            BY <1>2, <2>4, <3>2
    <2>6. ~backslashes_before /\ ~(i <= Len(Item))
        <3>1. TRUE \in BOOLEAN /\ FALSE \in BOOLEAN
            OBVIOUS
        <3> QED
            BY <2>2, <2>5, <3>1, Zenon DEF GoesOn
    <2>7. Len(result) = Len(Item)
        BY <1>2, <1>3, <2>1, <2>6 DEF PartRead, i
    <2>8. result = Item
        BY <1>2, <1>3, <2>1, <2>7, AllRead
    <2> QED
        BY <1>5, <2>1, <2>8, Zenon DEF to_output_format
<1>6. CASE ~quoted
    <2>1. /\ PartRead(result, Word) /\ IsWord
          /\ current_position_src = From + Len(result) /\ end = To - 1
        BY <1>1, <1>6, Zenon DEF Copying, BehindElement
    <2>2. /\ Word \in Seq(Chars) /\ Len(Word) \in Nat /\ To = From + Len(Word)
          /\ Item # Null => Word = Item /\ Word # NullWord
          /\ Item = Null => Word = NullWord
        BY <1>1, <2>1, WordChars
    <2>3. Len(result) = Len(Word)
        BY <1>1, <1>2, <1>3, <2>1, <2>2 DEF PartRead
    <2>4. result \in Seq(Chars)
        BY <1>3, WordIsText
    <2>5. result = Word
        BY <2>1, <2>2, <2>3, <2>4, AllRead
    <2> QED
        BY <1>6, <2>2, <2>5, Zenon DEF to_output_format
<1> QED
    BY <1>5, <1>6

(* It becomes the key, or the value of the key before it.                  *)
LEMMA ReturnElementReads ==
    ASSUME IInv, SentArray, ArrayReading, ReturnElement
    PROVE  ArrayReading'
<1> DEFINE item == to_output_format(result)
           n == Len(tags)
<1>1. /\ TagsRead /\ KeyRead /\ Len(tags) < Len(row.sent)
      /\ m_parse_progress = "END" /\ BehindElement
      /\ pc' = "has_next"
      /\ UNCHANGED <<row, m_current_position, m_parse_progress>>
    BY DEF ArrayReading, ReturnElement, parser
<1>2. /\ pos' = pos + 1
      /\ pos % 2 = 0 => key' = item /\ tags' = tags
      /\ pos % 2 # 0 => tags' = Append(tags, <<key, item>>) /\ key' = key
    BY Zenon DEF ReturnElement, AddItem
<1>3. item = IF Item = Null THEN <<>> ELSE Item
    BY ElementCopied
<1>4. /\ Item \in Seq(STRING) /\ From \in Nat /\ To \in Nat
      /\ InKey => To + 1 = ValueStart /\ Item # Null
      /\ ~InKey => To + 1 = NextStart
    BY <1>1, ElementThere
<1>5. m_current_position \in {To, To + 1}
    BY <1>1, Zenon DEF BehindElement
<1>6. n \in Nat /\ pos \in Nat /\ key \in Seq(STRING) /\ tags \in Tags /\ Len(row.sent) \in Nat
    BY <1>1, RowsAssumption DEF IInv, TypeOK, PositionsSound, Tags
<1>7. ASSUME TagsRead', KeyRead', From' = To + 1 PROVE ArrayReading'
    <2>1. m_current_position' \in {From' - 1, From'}
        BY <1>1, <1>4, <1>5, <1>7
    <2>2. m_parse_progress' # "NONE"
        BY <1>1
    <2>3. BeforeElement'
        BY <2>1, <2>2, Zenon DEF BeforeElement
    <2> QED
        BY <1>1, <1>7, <2>3 DEF ArrayReading
<1> HIDE DEF item
<1>8. CASE InKey
    <2>1. key' = item /\ tags' = tags /\ pos' = 2 * n + 1
        BY <1>1, <1>2, <1>8, Parity DEF InKey
    <2> HIDE DEF n
    <2>2. item = Key /\ To + 1 = ValueStart
        BY <1>3, <1>4, <1>8 DEF Item
    <2>3. Len(tags)' = n /\ n \in Nat
        BY <1>6, <2>1 DEF n
    <2>4. ~InKey'
        BY <2>1, <2>3 DEF InKey
    <2>5. Key' = Key /\ ValueStart' = ValueStart
        BY <1>1, <2>1 DEF Key, ValueStart, tag
    <2>6. KeyRead'
        BY <1>1, <2>1, <2>2, <2>3, <2>5 DEF KeyRead, n
    <2>7. TagsRead'
        BY <1>1, <2>1 DEF TagsRead, Sent
    <2>8. From' = To + 1
        BY <2>2, <2>4, <2>5, Zenon DEF From
    <2> QED
        BY <1>7, <2>6, <2>7, <2>8
<1>9. CASE ~InKey
    <2>1. tags' = Append(tags, <<key, item>>) /\ pos' = 2 * n + 1 + 1 /\ key = Key
        BY <1>1, <1>2, <1>9, Parity DEF KeyRead
    <2>2. item = (IF Value = Null THEN <<>> ELSE Value) /\ item \in Seq(STRING) /\ To + 1 = NextStart
        BY <1>3, <1>4, <1>9, WordIsText DEF Item
    <2>3. /\ Len(tags') = n + 1 /\ tags'[n + 1] = <<key, item>>
          /\ \A j \in 1..n : tags'[j] = tags[j]
        <3>1. <<key, item>> \in Seq(STRING) \X Seq(STRING)
            BY <1>6, <2>2
        <3> QED
            BY <1>6, <2>1, <3>1, Appended DEF Tags
    <2>4. n + 1 \in DOMAIN row.sent /\ tag = n + 1
        <3>1. row.sent \in Tags
            BY RowsAssumption DEF IInv, PositionsSound, Tags
        <3> QED
            BY <1>1, <1>6, <3>1 DEF tag, Tags
    <2>5. Sent[n + 1] = <<key, item>>
        <3>1. row.driver = "osm2pgsql"
            BY DEF SentArray
        <3>2. Sent[n + 1] = <<row.sent[n + 1][1],
                              IF row.sent[n + 1][2] # Null THEN row.sent[n + 1][2] ELSE <<>>>>
            BY <2>4, <3>1, Zenon DEF Sent
        <3>3. Key = row.sent[n + 1][1] /\ Value = row.sent[n + 1][2]
            BY <2>4, Zenon DEF Key, Value
        <3> QED
            BY <2>1, <2>2, <3>2, <3>3, Zenon
    <2> HIDE DEF n
    <2>6. Sent' = Sent
        BY <1>1 DEF Sent
    <2>7. TagsRead'
        <3>1. Len(tags') <= Len(row.sent')
            BY <1>1, <1>6, <2>3 DEF n
        <3>2. ASSUME NEW j \in 1..Len(tags') PROVE tags'[j] = Sent[j]
            <4>1. CASE j = n + 1
                BY <2>3, <2>5, <4>1
            <4>2. CASE j # n + 1
                <5>1. j \in 1..n
                    BY <1>6, <2>3, <4>2
                <5>2. tags'[j] = tags[j] /\ tags[j] = Sent[j]
                    BY <1>1, <2>3, <5>1 DEF TagsRead, n
                <5> QED
                    BY <5>2
            <4> QED
                BY <4>1, <4>2
        <3> QED
            BY <2>6, <3>1, <3>2, Zenon DEF TagsRead
    <2>8. InKey'
        <3>1. n \in Nat
            BY <1>6
        <3>2. 2 * n + 1 + 1 = 2 * (n + 1)
            BY <3>1
        <3>3. pos' = 2 * Len(tags')
            BY <2>1, <2>3, <3>2, Zenon
        <3> QED
            BY <3>3 DEF InKey
    <2>9. KeyRead'
        BY <2>8, Zenon DEF KeyRead
    <2>10. From' = To + 1
        <3>1. From' = row.starts[n + 1 + 1][1]
            BY <1>1, <2>3, <2>8, Zenon DEF From, KeyStart, tag
        <3> QED
            BY <2>2, <2>4, <3>1, Zenon DEF NextStart
    <2> QED
        BY <1>7, <2>7, <2>9, <2>10
<1> QED
    BY <1>8, <1>9

(* So no step of the array parser reads anything else.                     *)
LEMMA ArrayStepReads ==
    ASSUME IInv, SentArray, ArrayReading, ArrayNext
    PROVE  SentArray' /\ ArrayReading'
<1>1. UNCHANGED row
    BY DEF ArrayNext, ArrayHasNext, BeginElement, QuotedElement, UnquotedElement, BeginCopy,
           CopyChar, ReturnElement
<1>2. SentArray'
    BY <1>1 DEF SentArray
<1> QED
    BY <1>2, ArrayHasNextReads, BeginElementReads, QuotedElementReads, UnquotedElementReads,
       BeginCopyReads, CopyCharReads, ReturnElementReads DEF ArrayNext

-----------------------------------------------------------------------------
(***************************************************************************)
(* The hstore parser reads the tags that were sent.                        *)
(***************************************************************************)

(* The end of the pair that is read now, and the value that is read.       *)
End == NextStart - 2
SentValue == IF Value = Null THEN NullWord ELSE Value

(* Before a pair there may be the comma and the blank behind the last one. *)
(* The distance to the key is what the limit of has_next allows for keys   *)
(* and values that are empty.                                              *)
BeforePair ==
    \/ m_current_position \in {KeyStart - 2, KeyStart - 1}
    \/ m_current_position = 0 /\ KeyStart = 0

BeforeKey ==
    /\ m_current_position \in {KeyStart - 2, KeyStart - 1, KeyStart}
    /\ ~quoted /\ ~backslash /\ m_key_buffer = <<>> /\ m_value_buffer = <<>>

InKeyString ==
    /\ quoted /\ PartRead(m_key_buffer, Key) /\ m_value_buffer = <<>>
    /\ Inside(Key, KeyStart + 1, Len(m_key_buffer) + 1, backslash, m_current_position)

InSeparator ==
    /\ ~quoted /\ ~backslash /\ m_key_buffer = Key /\ m_value_buffer = <<>>
    /\ m_current_position \in {ValueStart - 2, ValueStart - 1, ValueStart}

InValue ==
    /\ m_key_buffer = Key /\ PartRead(m_value_buffer, SentValue)
    /\ quoted => /\ Value # Null
                 /\ Inside(Value, ValueStart + 1, Len(m_value_buffer) + 1, backslash,
                           m_current_position)
    /\ ~quoted => /\ Value = Null /\ ~backslash /\ m_value_buffer # <<>>
                  /\ m_current_position = ValueStart + Len(m_value_buffer)

BehindPair ==
    /\ m_key_buffer = Key /\ m_value_buffer = SentValue
    /\ m_current_position \in {End, End + 1}

HStoreReading ==
    /\ pc # "throw" /\ TagsRead
    /\ pc = "has_next" => BeforePair
    /\ pc = "done" => Len(tags) = Len(row.sent)
    /\ pc = "get_next" =>
        /\ Len(tags) < Len(row.sent)
        /\ m_parse_progress \in {"NONE", "KEY", "SEPARATOR", "VALUE", "END"}
    /\ pc = "get_next" /\ m_parse_progress = "NONE" => BeforeKey
    /\ pc = "get_next" /\ m_parse_progress = "KEY" => InKeyString
    /\ pc = "get_next" /\ m_parse_progress = "SEPARATOR" => InSeparator
    /\ pc = "get_next" /\ m_parse_progress = "VALUE" => InValue
    /\ pc = "get_next" /\ m_parse_progress = "END" => BehindPair

SentHStore == row.driver = "cerepso" /\ row.valid /\ row.text # <<>>

(* A quoted string has at least its quotation marks.                       *)
LEMMA StringInText ==
    ASSUME NEW text, Len(text) \in Nat, NEW from \in Nat, NEW to, NEW string \in Seq(STRING),
           IsQuoted(text, from, to, string)
    PROVE  /\ to \in Nat /\ from + 2 <= to /\ to <= Len(text)
           /\ text[from + 1] = Quote
<1>1. Offset(string, Len(string) + 1) \in Nat
    BY OffsetSteps
<1> QED
    BY <1>1 DEF IsQuoted

(* Where the key and the value of a tag are in an hstore.                  *)
PairAt(text, k, v, e, name, value) ==
    /\ IsQuoted(text, k, v - 2, name)
    /\ text[k + 1] = Quote /\ text[v - 1] = "=" /\ text[v] = ">"
    /\ value = Null => IsPlain(text, v, e, NullWord) /\ text[v + 1] = "N"
    /\ value # Null => IsQuoted(text, v, e, value) /\ text[v + 1] = Quote

(* Where the key and the value of a pair are in the text of an hstore.     *)
LEMMA HStoreLayout ==
    ASSUME row \in Rows, SentHStore, NEW i \in 1..Len(row.sent)
    PROVE  LET text == row.text
               k == row.starts[i][1]
               v == row.starts[i][2]
               e == row.starts[i + 1][1] - 2
           IN  /\ row.sent[i][1] \in Seq(STRING) /\ row.sent[i][2] \in Seq(STRING)
               /\ Len(text) \in Nat /\ k \in Nat /\ v \in Nat /\ e \in Nat
               /\ k + 4 <= v /\ v + 2 <= e /\ e <= Len(text)
               /\ PairAt(text, k, v, e, row.sent[i][1], row.sent[i][2])
               /\ i < Len(row.sent) =>
                    text[e + 1] = Comma /\ text[e + 2] = Blank /\ e + 2 < Len(text)
               /\ i = Len(row.sent) => e = Len(text)
               /\ k = 0 \/ (text[k - 1] = Comma /\ text[k] = Blank)
<1> DEFINE n == Len(row.sent)
           text == row.text
           K(j) == row.starts[j][1]
           V(j) == row.starts[j][2]
           E(j) == row.starts[j + 1][1] - 2
<1>1. /\ n \in Nat /\ Len(text) \in Nat
      /\ \A j \in 1..n : row.sent[j][1] \in Seq(STRING) /\ row.sent[j][2] \in Seq(STRING)
      /\ \A j \in 1..(n + 1) : K(j) \in Nat /\ V(j) \in Nat
    <2>1. /\ row.sent \in Tags /\ row.starts \in Seq(Nat \X Nat)
          /\ Len(row.starts) = Len(row.sent) + 1 /\ row.text \in Seq(STRING)
        BY RowsAssumption DEF Tags
    <2>2. n \in Nat
        BY <2>1 DEF Tags
    <2>3. Len(text) \in Nat
        BY <2>1
    <2>4. \A j \in 1..n : row.sent[j][1] \in Seq(STRING) /\ row.sent[j][2] \in Seq(STRING)
        BY <2>1, Parts DEF Tags
    <2>5. \A j \in 1..(n + 1) : K(j) \in Nat /\ V(j) \in Nat
        BY <2>1, Parts
    <2> QED
        BY <2>2, <2>3, <2>4, <2>5
<1>2. IsHStoreText(text, row.sent, row.starts)
    BY ServerAssumption DEF SentHStore
<1>3. /\ n > 0 /\ n # 0
      /\ \A j \in 1..n : j \in 1..(n + 1) /\ j + 1 \in 1..(n + 1)
      /\ i \in 1..n
    BY <1>1
<1>4. /\ row.starts[n + 1][1] = Len(text) + 2 /\ K(1) = 0
      /\ \A j \in 1..n :
            /\ IsQuoted(text, K(j), V(j) - 2, row.sent[j][1])
            /\ text[V(j) - 1] = "=" /\ text[V(j)] = ">"
            /\ row.sent[j][2] = Null => IsPlain(text, V(j), E(j), NullWord)
            /\ row.sent[j][2] # Null => IsQuoted(text, V(j), E(j), row.sent[j][2])
            /\ j < n => text[E(j) + 1] = Comma /\ text[E(j) + 2] = Blank
    BY <1>2, <1>3, Zenon DEF IsHStoreText
<1>5. ASSUME NEW j \in 1..n
      PROVE  /\ K(j) \in Nat /\ V(j) \in Nat /\ E(j) \in Nat /\ E(j) + 2 = K(j + 1)
             /\ K(j) + 4 <= V(j) /\ V(j) + 2 <= E(j) /\ E(j) <= Len(text)
             /\ PairAt(text, K(j), V(j), E(j), row.sent[j][1], row.sent[j][2])
    <2>1. K(j) \in Nat /\ V(j) \in Nat /\ K(j + 1) \in Nat /\ E(j) = K(j + 1) - 2
        BY <1>1, <1>3, Zenon
    <2>2. /\ row.sent[j][1] \in Seq(STRING) /\ row.sent[j][2] \in Seq(STRING)
          /\ IsQuoted(text, K(j), V(j) - 2, row.sent[j][1])
          /\ text[V(j) - 1] = "=" /\ text[V(j)] = ">"
          /\ row.sent[j][2] = Null => IsPlain(text, V(j), E(j), NullWord)
          /\ row.sent[j][2] # Null => IsQuoted(text, V(j), E(j), row.sent[j][2])
        BY <1>1, <1>4, Zenon
    <2> DEFINE k == K(j)
               v == V(j)
               e == E(j)
               next == K(j + 1)
               string == text
               name == row.sent[j][1]
               value == row.sent[j][2]
    <2>3. /\ k \in Nat /\ v \in Nat /\ next \in Nat /\ e = next - 2 /\ Len(string) \in Nat
          /\ name \in Seq(STRING) /\ value \in Seq(STRING)
          /\ IsQuoted(string, k, v - 2, name)
          /\ string[v - 1] = "=" /\ string[v] = ">"
          /\ value = Null => IsPlain(string, v, e, NullWord)
          /\ value # Null => IsQuoted(string, v, e, value)
        BY <1>1, <2>1, <2>2, Zenon
    <2> HIDE DEF k, v, e, next, string, name, value
    <2>4. k + 4 <= v /\ string[k + 1] = Quote
        <3>1. v - 2 \in Nat /\ k + 2 <= v - 2 /\ string[k + 1] = Quote
            BY <2>3, StringInText
        <3> QED
            BY <2>3, <3>1
    <2>5. CASE value = Null
        <3>1. /\ e = v + Len(NullWord) /\ e <= Len(string)
              /\ \A x \in DOMAIN NullWord : string[v + x] = NullWord[x]
            BY <2>3, <2>5, Zenon DEF IsPlain
        <3>2. 1 \in DOMAIN NullWord /\ NullWord[1] = "N"
            BY DEF NullWord
        <3>3. e = v + 4 /\ e <= Len(string) /\ string[v + 1] = "N"
            BY <3>1, <3>2, WordIsText
        <3>4. e \in Nat /\ v + 2 <= e /\ e + 2 = next
            BY <2>3, <3>3
        <3>5. PairAt(string, k, v, e, name, value)
            BY <2>3, <2>4, <2>5, <3>3, Zenon DEF PairAt
        <3> QED
            BY <2>3, <2>4, <3>3, <3>4, <3>5, Zenon DEF k, v, e, next, string, name, value
    <2>6. CASE value # Null
        <3>1. e \in Nat /\ v + 2 <= e /\ e <= Len(string) /\ string[v + 1] = Quote
            BY <2>3, <2>6, StringInText
        <3>2. e + 2 = next
            BY <2>3, <3>1
        <3>3. PairAt(string, k, v, e, name, value)
            BY <2>3, <2>4, <2>6, <3>1, Zenon DEF PairAt
        <3> QED
            BY <2>3, <2>4, <3>1, <3>2, <3>3, Zenon DEF k, v, e, next, string, name, value
    <2> QED
        BY <2>5, <2>6
<1> HIDE DEF n, text, K, V, E
<1>6. i < n => text[E(i) + 1] = Comma /\ text[E(i) + 2] = Blank /\ E(i) + 2 < Len(text)
    <2> SUFFICES ASSUME i < n PROVE E(i) + 2 < Len(text)
        BY <1>3, <1>4
    <2>1. i + 1 \in 1..n
        BY <1>1, <1>3
    <2> DEFINE k == K(i + 1)
               v == V(i + 1)
               e == E(i + 1)
    <2>2. /\ k \in Nat /\ v \in Nat /\ e \in Nat
          /\ k + 4 <= v /\ v + 2 <= e /\ e <= Len(text)
        BY <1>5, <2>1, Zenon
    <2> HIDE DEF k, v, e
    <2>3. k < Len(text)
        BY <1>1, <2>2
    <2>4. E(i) + 2 = k
        BY <1>3, <1>5, Zenon DEF k
    <2> QED
        BY <2>3, <2>4, Zenon
<1>7. i = n => E(i) = Len(text)
    <2>1. E(n) = row.starts[n + 1][1] - 2
        BY DEF E
    <2> QED
        BY <1>1, <1>4, <2>1
<1>8. K(i) = 0 \/ (text[K(i) - 1] = Comma /\ text[K(i)] = Blank)
    <2>1. CASE i = 1
        BY <1>4, <2>1
    <2>2. CASE i # 1
        <3>1. i - 1 \in 1..n /\ i - 1 + 1 = i /\ i - 1 < n
            BY <1>1, <1>3, <2>2
        <3>2. text[E(i - 1) + 1] = Comma /\ text[E(i - 1) + 2] = Blank
            BY <1>4, <3>1
        <3>3. E(i - 1) + 2 = K(i - 1 + 1) /\ E(i - 1) \in Nat
            BY <1>5, <3>1, Zenon
        <3>4. E(i - 1) + 2 = K(i)
            BY <3>1, <3>3, Zenon
        <3>5. E(i - 1) + 1 = K(i) - 1
            BY <3>3, <3>4
        <3> QED
            BY <3>2, <3>4, <3>5, Zenon
    <2> QED
        BY <2>1, <2>2
<1> QED
    BY <1>1, <1>3, <1>5, <1>6, <1>7, <1>8, Zenon DEF n, text, K, V, E

(* The pair that is read now.                                              *)
LEMMA PairThere ==
    ASSUME IInv, SentHStore, Len(tags) < Len(row.sent)
    PROVE  /\ Key \in Seq(STRING) /\ Value \in Seq(STRING)
           /\ KeyStart \in Nat /\ ValueStart \in Nat /\ End \in Nat /\ NextStart = End + 2
           /\ KeyStart + 4 <= ValueStart /\ ValueStart + 2 <= End /\ End <= m_max_length
           /\ m_max_length \in Nat
           /\ PairAt(row.text, KeyStart, ValueStart, End, Key, Value)
           /\ End < m_max_length => row.text[End + 1] = Comma
           /\ \/ KeyStart = 0
              \/ row.text[KeyStart - 1] = Comma /\ row.text[KeyStart] = Blank
<1>1. row \in Rows /\ Len(tags) \in Nat
    BY DEF IInv, TypeOK, PositionsSound
<1>2. Len(row.sent) \in Nat
    BY <1>1, RowsAssumption
<1>3. tag \in 1..Len(row.sent)
    BY <1>1, <1>2 DEF tag
<1> HIDE DEF tag
<1>4. /\ Key \in Seq(STRING) /\ Value \in Seq(STRING)
      /\ Len(row.text) \in Nat /\ KeyStart \in Nat /\ ValueStart \in Nat /\ End \in Nat
      /\ KeyStart + 4 <= ValueStart /\ ValueStart + 2 <= End /\ End <= Len(row.text)
      /\ PairAt(row.text, KeyStart, ValueStart, End, Key, Value)
      /\ tag < Len(row.sent) => row.text[End + 1] = Comma
      /\ tag = Len(row.sent) => End = Len(row.text)
      /\ KeyStart = 0 \/ (row.text[KeyStart - 1] = Comma /\ row.text[KeyStart] = Blank)
    BY <1>1, <1>3, HStoreLayout, Zenon DEF Key, Value, KeyStart, ValueStart, NextStart, End
<1>5. row.starts \in Seq(Nat \X Nat) /\ Len(row.starts) = Len(row.sent) + 1
    BY <1>1, RowsAssumption
<1>6. NextStart \in Nat
    <2>1. tag + 1 \in 1..Len(row.starts)
        BY <1>2, <1>3, <1>5
    <2> QED
        BY <1>5, <2>1, Parts, Zenon DEF NextStart
<1>7. NextStart = End + 2
    BY <1>4, <1>6 DEF End
<1>8. End < Len(row.text) => row.text[End + 1] = Comma
    <2>1. End < Len(row.text) => tag < Len(row.sent)
        BY <1>2, <1>3, <1>4
    <2> QED
        BY <1>4, <2>1
<1> QED
    BY <1>4, <1>7, <1>8 DEF m_max_length, m_string_repr

(* The pair stays the one that is read.                                    *)
LEMMA SamePair ==
    ASSUME UNCHANGED <<row, tags>>
    PROVE  /\ Key' = Key /\ Value' = Value /\ SentValue' = SentValue
           /\ KeyStart' = KeyStart /\ ValueStart' = ValueStart /\ End' = End
           /\ TagsRead' <=> TagsRead
           /\ Len(tags)' = Len(tags) /\ Len(row.sent)' = Len(row.sent)
<1>1. /\ Key' = Key /\ Value' = Value
      /\ KeyStart' = KeyStart /\ ValueStart' = ValueStart /\ NextStart' = NextStart
    BY DEF Key, Value, KeyStart, ValueStart, NextStart, tag
<1>2. SentValue' = SentValue /\ End' = End
    BY <1>1 DEF SentValue, End
<1>3. TagsRead' <=> TagsRead
    BY DEF TagsRead, Sent
<1> QED
    BY <1>1, <1>2, <1>3

(* The steps of the loop over the text, one for each kind of character.    *)
CharNext ==
    \/ EscapedChar \/ Backslash \/ EqualsSign \/ GreaterSign \/ QuotationMark
    \/ BlankOrComma \/ OtherChar

(* Which step of the hstore parser a character calls for.                  *)
LEMMA WhichChar ==
    ASSUME CharNext
    PROVE  /\ InLoop /\ Advance /\ UNCHANGED <<row, tags>>
           /\ backslash => EscapedChar
           /\ ~backslash /\ Char = "\\" => Backslash
           /\ ~backslash /\ Char = Quote => QuotationMark
           /\ ~backslash /\ Char \in {Blank, Comma} => BlankOrComma
           /\ ~backslash /\ Char = "=" => EqualsSign
           /\ ~backslash /\ Char = ">" => GreaterSign
           /\ ~backslash /\ Char \notin {"\\", "=", ">", Quote, Blank, Comma} => OtherChar
<1>1. /\ EscapedChar => backslash
      /\ Backslash => ~backslash /\ Char = "\\"
      /\ EqualsSign => ~backslash /\ Char = "="
      /\ GreaterSign => ~backslash /\ Char = ">"
      /\ QuotationMark => ~backslash /\ Char = Quote
      /\ BlankOrComma => ~backslash /\ Char \in {Blank, Comma}
      /\ OtherChar => ~backslash /\ Char \notin {"\\", "=", ">", Quote, Blank, Comma}
    BY Zenon DEF EscapedChar, Backslash, EqualsSign, GreaterSign, QuotationMark, BlankOrComma,
                 OtherChar
<1>2. /\ Char = "\\" => Char \notin {"=", ">", Quote, Blank, Comma}
      /\ Char = "=" => Char \notin {"\\", ">", Quote, Blank, Comma}
      /\ Char = ">" => Char \notin {"\\", "=", Quote, Blank, Comma}
      /\ Char = Quote => Char \notin {"\\", "=", ">", Blank, Comma}
      /\ Char \in {Blank, Comma} => Char \notin {"\\", "=", ">", Quote}
    BY CharsDiffer
<1>3. InLoop /\ Advance /\ UNCHANGED <<row, tags>>
    BY Zenon DEF CharNext, EscapedChar, Backslash, EqualsSign, GreaterSign, QuotationMark,
                 BlankOrComma, OtherChar
<1> QED
    BY <1>1, <1>2, <1>3, Zenon DEF CharNext

(* Inside of a quoted key or value, everything but the closing quotation   *)
(* mark and the backslashes before others is added to it.                  *)
LEMMA StringChar ==
    ASSUME CharNext, m_parse_progress \in {"KEY", "VALUE"}, quoted
    PROVE  /\ (backslash /\ Char \in Escapable) \/ (~backslash /\ Char \notin Escapable) =>
                /\ add_to_key_or_value(m_parse_progress, Char) /\ ~backslash' /\ quoted'
                /\ UNCHANGED <<pc, m_parse_progress>>
           /\ ~backslash /\ Char = "\\" =>
                /\ backslash' /\ quoted'
                /\ UNCHANGED <<pc, m_parse_progress, m_key_buffer, m_value_buffer>>
           /\ ~backslash /\ Char = Quote =>
                /\ m_parse_progress' = Successor(m_parse_progress) /\ ~backslash' /\ ~quoted'
                /\ UNCHANGED <<pc, m_key_buffer, m_value_buffer>>
<1>1. InKeyOrValue
    BY DEF InKeyOrValue
<1>2. ASSUME backslash, Char \in Escapable
      PROVE  /\ add_to_key_or_value(m_parse_progress, Char) /\ ~backslash' /\ quoted'
             /\ UNCHANGED <<pc, m_parse_progress>>
    <2>1. EscapedChar
        BY <1>2, WhichChar, Zenon
    <2>2. /\ add_to_key_or_value(m_parse_progress, Char) /\ ~backslash' /\ quoted' = quoted
          /\ UNCHANGED <<pc, m_parse_progress>>
        BY <1>1, <1>2, <2>1, Zenon DEF EscapedChar
    <2> QED
        BY <2>2
<1>3. ASSUME ~backslash, Char \notin Escapable
      PROVE  /\ add_to_key_or_value(m_parse_progress, Char) /\ ~backslash' /\ quoted'
             /\ UNCHANGED <<pc, m_parse_progress>>
    <2>1. Char # "\\" /\ Char # Quote
        BY <1>3 DEF Escapable
    <2>2. EqualsSign \/ GreaterSign \/ BlankOrComma \/ OtherChar
        BY <1>3, <2>1, WhichChar, Zenon
    <2>3. /\ add_to_key_or_value(m_parse_progress, Char) /\ backslash' = backslash
          /\ quoted' = quoted /\ UNCHANGED <<pc, m_parse_progress>>
        <3>1. m_parse_progress # "NONE" /\ m_parse_progress # "SEPARATOR"
            OBVIOUS
        <3>2. CASE EqualsSign
            BY <1>1, <3>1, <3>2, Zenon DEF EqualsSign
        <3>3. CASE GreaterSign
            BY <1>1, <3>1, <3>3, Zenon DEF GreaterSign
        <3>4. CASE BlankOrComma
            BY <1>1, <3>4, Zenon DEF BlankOrComma
        <3>5. CASE OtherChar
            BY <1>1, <3>5, Zenon DEF OtherChar
        <3> QED
            BY <2>2, <3>2, <3>3, <3>4, <3>5
    <2> QED
        BY <1>3, <2>3
<1>4. ASSUME ~backslash, Char = "\\"
      PROVE  /\ backslash' /\ quoted'
             /\ UNCHANGED <<pc, m_parse_progress, m_key_buffer, m_value_buffer>>
    <2>1. Backslash
        BY <1>4, WhichChar, Zenon
    <2>2. /\ backslash' /\ quoted' = quoted
          /\ UNCHANGED <<pc, m_parse_progress, m_key_buffer, m_value_buffer>>
        BY <2>1, Zenon DEF Backslash, buffers
    <2> QED
        BY <2>2
<1>5. ASSUME ~backslash, Char = Quote
      PROVE  /\ m_parse_progress' = Successor(m_parse_progress) /\ ~backslash' /\ ~quoted'
             /\ UNCHANGED <<pc, m_key_buffer, m_value_buffer>>
    <2>1. QuotationMark /\ m_parse_progress \notin {"NONE", "SEPARATOR"}
        BY <1>5, WhichChar
    <2>2. /\ m_parse_progress' = Successor(m_parse_progress) /\ backslash' = backslash /\ ~quoted'
          /\ UNCHANGED <<pc, m_key_buffer, m_value_buffer>>
        BY <2>1, Zenon DEF QuotationMark, increase_parse_progress, buffers
    <2> QED
        BY <1>5, <2>2
<1> QED
    BY <1>2, <1>3, <1>4, <1>5, Zenon

(* How the part of a quoted string that was read grows.                    *)
PartGoesOn(text, from, to, string, part, escaped, p) ==
    /\ p \in Nat /\ to \in Nat /\ p < to
    /\ escaped => text[p + 1] \in Escapable
    /\ escaped \/ text[p + 1] \notin Escapable =>
        /\ PartRead(Append(part, text[p + 1]), string)
        /\ Inside(string, from + 1, Len(Append(part, text[p + 1])) + 1, FALSE, p + 1)
    /\ ~escaped /\ text[p + 1] = "\\" => Inside(string, from + 1, Len(part) + 1, TRUE, p + 1)
    /\ ~escaped /\ text[p + 1] = Quote => p + 1 = to /\ part = string

(* One character of a quoted string, and what is then in the buffer.       *)
LEMMA StringRead ==
    ASSUME NEW text, NEW from \in Nat, NEW to, NEW string \in Seq(STRING),
           IsQuoted(text, from, to, string),
           NEW part \in Seq(STRING), PartRead(part, string),
           NEW escaped \in BOOLEAN, NEW p, Inside(string, from + 1, Len(part) + 1, escaped, p),
           text[p + 1] \in STRING
    PROVE  PartGoesOn(text, from, to, string, part, escaped, p)
<1> DEFINE c == text[p + 1]
           i == Len(part) + 1
<1>1. Len(part) \in Nat /\ Len(string) \in Nat /\ c \in STRING
    OBVIOUS
<1> HIDE DEF i, c
<1>2. GoesOn(text, from, to, string, i, escaped, p)
    BY InsideStep, Zenon DEF i
<1>3. /\ p \in Nat /\ to \in Nat /\ p < to
      /\ escaped => i <= Len(string) /\ c = string[i] /\ c \in Escapable
                    /\ Inside(string, from + 1, i + 1, FALSE, p + 1)
      /\ ~escaped /\ i <= Len(string) =>
            \/ c = "\\" /\ Inside(string, from + 1, i, TRUE, p + 1)
            \/ /\ c = string[i] /\ c \notin Escapable
               /\ Inside(string, from + 1, i + 1, FALSE, p + 1)
      /\ ~escaped /\ i > Len(string) => c = Quote /\ p + 1 = to /\ i = Len(string) + 1
    BY <1>2, Zenon DEF GoesOn, c
<1>4. Quote \in Escapable /\ "\\" \in Escapable /\ Quote # "\\"
    BY CharsDiffer DEF Escapable
<1>5. i <= Len(string) \/ i > Len(string)
    BY <1>1 DEF i
<1>6. escaped \/ c \notin Escapable =>
        i <= Len(string) /\ c = string[i] /\ Inside(string, from + 1, i + 1, FALSE, p + 1)
    BY <1>3, <1>4, <1>5, Zenon
<1>7. i <= Len(string) /\ c = string[i] =>
        PartRead(Append(part, c), string) /\ Len(Append(part, c)) = i
    <2> SUFFICES ASSUME i <= Len(string), c = string[i]
                 PROVE  PartRead(Append(part, c), string) /\ Len(Append(part, c)) = i
        OBVIOUS
    <2>1. Len(part) < Len(string)
        BY <1>1 DEF i
    <2> QED
        BY <1>1, <2>1, PartGrows DEF i
<1>8. ~escaped /\ c = "\\" => Inside(string, from + 1, i, TRUE, p + 1)
    BY <1>3, <1>4, <1>5, Zenon
<1>9. ~escaped /\ c = Quote => p + 1 = to /\ i = Len(string) + 1
    BY <1>3, <1>4, <1>5, Zenon
<1>10. i = Len(string) + 1 => part = string
    <2>1. i = Len(string) + 1 => Len(part) = Len(string)
        BY <1>1 DEF i
    <2> QED
        BY <2>1, AllRead
<1> QED
    BY <1>3, <1>6, <1>7, <1>8, <1>9, <1>10, Zenon DEF PartGoesOn, c, i

(* Facts about a step in the loop that the next lemmas share.              *)
LEMMA PairStep ==
    ASSUME IInv, SentHStore, HStoreReading, CharNext
    PROVE  /\ pc = "get_next" /\ m_parse_progress # "END" /\ TagsRead /\ TagsRead'
           /\ Len(tags) < Len(row.sent) /\ Len(tags)' < Len(row.sent)'
           /\ m_current_position \in Nat /\ m_current_position' = m_current_position + 1
           /\ Char = row.text[m_current_position + 1] /\ Char \in STRING
           /\ m_key_buffer \in Seq(STRING) /\ m_value_buffer \in Seq(STRING)
           /\ Key' = Key /\ Value' = Value /\ SentValue' = SentValue
           /\ KeyStart' = KeyStart /\ ValueStart' = ValueStart /\ End' = End
<1>1. InLoop /\ UNCHANGED <<row, tags>> /\ m_current_position' = m_current_position + 1
    BY WhichChar DEF Advance
<1>2. pc = "get_next" /\ m_parse_progress # "END" /\ m_current_position < m_max_length
    BY <1>1 DEF InLoop
<1>3. TagsRead /\ Len(tags) < Len(row.sent)
    BY <1>2 DEF HStoreReading
<1>4. /\ m_current_position \in Nat /\ row \in Rows
      /\ m_key_buffer \in Seq(STRING) /\ m_value_buffer \in Seq(STRING)
    BY DEF IInv, TypeOK, ParserTypeOK, PositionsSound
<1>5. Char \in STRING
    BY <1>2, <1>4, TextLength DEF Char
<1> QED
    BY <1>1, <1>2, <1>3, <1>4, <1>5, SamePair DEF Char, CharAt, m_string_repr

(* Comma and blank before a pair are skipped; then its key begins.         *)
LEMMA BeforeKeyReads ==
    ASSUME IInv, SentHStore, HStoreReading, CharNext, m_parse_progress = "NONE"
    PROVE  HStoreReading'
<1>1. /\ pc = "get_next" /\ TagsRead' /\ Len(tags)' < Len(row.sent)'
      /\ m_current_position \in Nat /\ m_current_position' = m_current_position + 1
      /\ Char = row.text[m_current_position + 1]
      /\ Key' = Key /\ KeyStart' = KeyStart
    BY PairStep
<1>2. BeforeKey /\ Len(tags) < Len(row.sent)
    BY <1>1, PairStep DEF HStoreReading
<1>3. /\ m_current_position \in {KeyStart - 2, KeyStart - 1, KeyStart}
      /\ ~quoted /\ ~backslash /\ m_key_buffer = <<>> /\ m_value_buffer = <<>>
    BY <1>2, Zenon DEF BeforeKey
<1>4. /\ KeyStart \in Nat /\ Key \in Seq(STRING) /\ row.text[KeyStart + 1] = Quote
      /\ \/ KeyStart = 0
         \/ row.text[KeyStart - 1] = Comma /\ row.text[KeyStart] = Blank
    BY <1>2, PairThere DEF PairAt
<1>5. CASE m_current_position # KeyStart
    <2>1. Char \in {Blank, Comma}
        <3>1. KeyStart # 0
            BY <1>1, <1>3, <1>4, <1>5
        <3>2. m_current_position + 1 \in {KeyStart - 1, KeyStart}
            BY <1>1, <1>3, <1>4, <1>5
        <3> QED
            BY <1>1, <1>4, <3>1, <3>2
    <2>2. BlankOrComma /\ ~InKeyOrValue
        BY <1>3, <2>1, WhichChar DEF InKeyOrValue
    <2>3. UNCHANGED <<pc, m_parse_progress, quoted, backslash, m_key_buffer, m_value_buffer>>
        BY <2>2, Zenon DEF BlankOrComma, buffers
    <2>4. m_current_position' \in {KeyStart - 2, KeyStart - 1, KeyStart}
        BY <1>1, <1>3, <1>4, <1>5
    <2>5. BeforeKey'
        BY <1>1, <1>3, <2>3, <2>4 DEF BeforeKey
    <2> QED
        BY <1>1, <2>3, <2>5 DEF HStoreReading
<1>6. CASE m_current_position = KeyStart
    <2>1. QuotationMark
        BY <1>1, <1>3, <1>4, <1>6, WhichChar
    <2>2. /\ quoted' /\ backslash' = backslash /\ m_parse_progress' = Successor(m_parse_progress)
          /\ UNCHANGED <<pc, m_key_buffer, m_value_buffer>>
        <3>1. ~InKeyOrValue
            BY DEF InKeyOrValue
        <3> QED
            BY <2>1, <3>1, Zenon DEF QuotationMark, increase_parse_progress, buffers
    <2>3. m_parse_progress' = "KEY" /\ ~backslash'
        BY <1>3, <2>2 DEF Successor
    <2>4. /\ Len(<<>>) + 1 = 1 /\ 1 \in 1..(Len(Key) + 1) /\ Offset(Key, 1) = 0
          /\ PartRead(<<>>, Key)
        BY <1>4, OffsetSteps DEF PartRead
    <2>5. m_current_position' = KeyStart + 1 + Offset(Key, 1) + 0
        BY <1>1, <1>4, <1>6, <2>4
    <2>6. Inside(Key, KeyStart + 1, Len(<<>>) + 1, backslash', m_current_position')
        BY <2>3, <2>4, <2>5, Zenon DEF Inside
    <2>7. InKeyString'
        BY <1>1, <1>3, <2>2, <2>4, <2>6, Zenon DEF InKeyString
    <2> QED
        BY <1>1, <2>2, <2>3, <2>7 DEF HStoreReading
<1> QED
    BY <1>5, <1>6

(* The key is read, and ends with its closing quotation mark.              *)
LEMMA KeyReads ==
    ASSUME IInv, SentHStore, HStoreReading, CharNext, m_parse_progress = "KEY"
    PROVE  HStoreReading'
<1>1. /\ pc = "get_next" /\ TagsRead' /\ Len(tags)' < Len(row.sent)'
      /\ m_current_position \in Nat /\ m_current_position' = m_current_position + 1
      /\ Char = row.text[m_current_position + 1] /\ Char \in STRING
      /\ m_key_buffer \in Seq(STRING)
      /\ Key' = Key /\ KeyStart' = KeyStart /\ ValueStart' = ValueStart
    BY PairStep
<1>2. InKeyString /\ Len(tags) < Len(row.sent)
    BY <1>1, PairStep DEF HStoreReading
<1>3. /\ quoted /\ PartRead(m_key_buffer, Key) /\ m_value_buffer = <<>>
      /\ Inside(Key, KeyStart + 1, Len(m_key_buffer) + 1, backslash, m_current_position)
    BY <1>2, Zenon DEF InKeyString
<1>4. /\ KeyStart \in Nat /\ ValueStart \in Nat /\ Key \in Seq(STRING)
      /\ IsQuoted(row.text, KeyStart, ValueStart - 2, Key)
    BY <1>2, PairThere DEF PairAt
<1>5. backslash \in BOOLEAN
    BY Zenon DEF IInv, TypeOK, ParserTypeOK
<1>6. PartGoesOn(row.text, KeyStart, ValueStart - 2, Key, m_key_buffer, backslash, m_current_position)
    BY <1>1, <1>3, <1>4, <1>5, StringRead, Zenon
<1>7. /\ backslash => Char \in Escapable
      /\ backslash \/ Char \notin Escapable =>
            /\ PartRead(Append(m_key_buffer, Char), Key)
            /\ Inside(Key, KeyStart + 1, Len(Append(m_key_buffer, Char)) + 1, FALSE,
                      m_current_position + 1)
      /\ ~backslash /\ Char = "\\" =>
            Inside(Key, KeyStart + 1, Len(m_key_buffer) + 1, TRUE, m_current_position + 1)
      /\ ~backslash /\ Char = Quote => m_current_position + 1 = ValueStart - 2 /\ m_key_buffer = Key
    BY <1>1, <1>6, Zenon DEF PartGoesOn
<1>8. CASE backslash \/ Char \notin Escapable
    <2>1. /\ add_to_key_or_value(m_parse_progress, Char) /\ ~backslash' /\ quoted'
          /\ UNCHANGED <<pc, m_parse_progress>>
        <3>1. (backslash /\ Char \in Escapable) \/ (~backslash /\ Char \notin Escapable)
            BY <1>7, <1>8, Zenon
        <3> QED
            BY <1>3, <3>1, StringChar, Zenon
    <2>2. m_key_buffer' = Append(m_key_buffer, Char) /\ m_value_buffer' = m_value_buffer
        BY <2>1 DEF add_to_key_or_value
    <2>3. Inside(Key, KeyStart + 1, Len(m_key_buffer') + 1, backslash', m_current_position')
        BY <1>1, <1>7, <1>8, <2>1, <2>2, Zenon DEF Inside
    <2>4. InKeyString'
        BY <1>1, <1>3, <1>7, <1>8, <2>1, <2>2, <2>3, Zenon DEF InKeyString
    <2> QED
        BY <1>1, <2>1, <2>4 DEF HStoreReading
<1>9. CASE ~backslash /\ Char = "\\"
    <2>1. /\ backslash' /\ quoted'
          /\ UNCHANGED <<pc, m_parse_progress, m_key_buffer, m_value_buffer>>
        BY <1>3, <1>9, StringChar, Zenon
    <2>2. Inside(Key, KeyStart + 1, Len(m_key_buffer') + 1, backslash', m_current_position')
        BY <1>1, <1>7, <1>9, <2>1, Zenon DEF Inside
    <2>3. InKeyString'
        BY <1>1, <1>3, <2>1, <2>2, Zenon DEF InKeyString
    <2> QED
        BY <1>1, <2>1, <2>3 DEF HStoreReading
<1>10. CASE ~backslash /\ Char = Quote
    <2>1. /\ m_parse_progress' = Successor(m_parse_progress) /\ ~backslash' /\ ~quoted'
          /\ UNCHANGED <<pc, m_key_buffer, m_value_buffer>>
        BY <1>3, <1>10, StringChar, Zenon
    <2>2. m_parse_progress' = "SEPARATOR"
        BY <2>1 DEF Successor
    <2>3. InSeparator'
        BY <1>1, <1>3, <1>7, <1>10, <2>1, Zenon DEF InSeparator
    <2> QED
        BY <1>1, <2>1, <2>2, <2>3 DEF HStoreReading
<1> QED
    BY <1>8, <1>9, <1>10 DEF Escapable

(* Behind the separator a value begins, with a quotation mark or without.  *)
LEMMA SeparatorReads ==
    ASSUME IInv, SentHStore, HStoreReading, CharNext, m_parse_progress = "SEPARATOR"
    PROVE  HStoreReading'
<1>1. /\ pc = "get_next" /\ TagsRead' /\ Len(tags)' < Len(row.sent)'
      /\ m_current_position \in Nat /\ m_current_position' = m_current_position + 1
      /\ Char = row.text[m_current_position + 1]
      /\ Key' = Key /\ Value' = Value /\ SentValue' = SentValue /\ ValueStart' = ValueStart
    BY PairStep
<1>2. InSeparator /\ Len(tags) < Len(row.sent)
    BY <1>1, PairStep DEF HStoreReading
<1>3. /\ ~quoted /\ ~backslash /\ m_key_buffer = Key /\ m_value_buffer = <<>>
      /\ m_current_position \in {ValueStart - 2, ValueStart - 1, ValueStart}
    BY <1>2, Zenon DEF InSeparator
<1>4. /\ ValueStart \in Nat /\ Value \in Seq(STRING)
      /\ row.text[ValueStart - 1] = "=" /\ row.text[ValueStart] = ">"
      /\ Value = Null => row.text[ValueStart + 1] = "N"
      /\ Value # Null => row.text[ValueStart + 1] = Quote
    BY <1>2, PairThere DEF PairAt
<1>5. ~InKeyOrValue
    BY DEF InKeyOrValue
<1>6. CASE m_current_position # ValueStart
    <2>1. Char \in {"=", ">"}
        <3>1. m_current_position + 1 \in {ValueStart - 1, ValueStart}
            BY <1>1, <1>3, <1>4, <1>6
        <3> QED
            BY <1>1, <1>4, <3>1
    <2>2. EqualsSign \/ GreaterSign
        BY <1>3, <2>1, WhichChar
    <2>3. UNCHANGED <<pc, m_parse_progress, quoted, backslash, m_key_buffer, m_value_buffer>>
        <3>1. m_parse_progress # "NONE" /\ m_parse_progress # "KEY" /\ m_parse_progress # "VALUE"
            OBVIOUS
        <3>2. CASE EqualsSign
            BY <1>5, <3>1, <3>2, Zenon DEF EqualsSign, buffers
        <3>3. CASE GreaterSign
            BY <1>5, <3>1, <3>3, Zenon DEF GreaterSign, buffers
        <3> QED
            BY <2>2, <3>2, <3>3
    <2>4. m_current_position' \in {ValueStart - 2, ValueStart - 1, ValueStart}
        BY <1>1, <1>3, <1>4, <1>6
    <2>5. InSeparator'
        BY <1>1, <1>3, <2>3, <2>4 DEF InSeparator
    <2> QED
        BY <1>1, <2>3, <2>5 DEF HStoreReading
<1>7. CASE m_current_position = ValueStart /\ Value # Null
    <2>1. QuotationMark
        BY <1>1, <1>3, <1>4, <1>7, WhichChar
    <2>2. /\ quoted' /\ backslash' = backslash /\ m_parse_progress' = Successor(m_parse_progress)
          /\ UNCHANGED <<pc, m_key_buffer, m_value_buffer>>
        BY <1>5, <2>1, Zenon DEF QuotationMark, increase_parse_progress, buffers
    <2>3. m_parse_progress' = "VALUE" /\ ~backslash'
        BY <1>3, <2>2 DEF Successor
    <2>4. /\ Len(<<>>) + 1 = 1 /\ 1 \in 1..(Len(Value) + 1) /\ Offset(Value, 1) = 0
          /\ PartRead(<<>>, Value)
        BY <1>4, OffsetSteps DEF PartRead
    <2>5. m_current_position' = ValueStart + 1 + Offset(Value, 1) + 0
        BY <1>1, <1>4, <1>7, <2>4
    <2>6. Inside(Value, ValueStart + 1, Len(<<>>) + 1, backslash', m_current_position')
        BY <2>3, <2>4, <2>5, Zenon DEF Inside
    <2>7. SentValue = Value
        BY <1>7 DEF SentValue
    <2>8. InValue'
        BY <1>1, <1>3, <1>7, <2>2, <2>4, <2>6, <2>7, Zenon DEF InValue
    <2> QED
        BY <1>1, <2>2, <2>3, <2>8 DEF HStoreReading
<1>8. CASE m_current_position = ValueStart /\ Value = Null
    <2>1. Char = "N"
        BY <1>1, <1>4, <1>8
    <2>2. OtherChar
        <3>1. Char \notin {"\\", "=", ">", Quote, Blank, Comma}
            BY <2>1, CharsDiffer
        <3> QED
            BY <1>3, <3>1, WhichChar, Zenon
    <2>3. /\ m_parse_progress' = Successor(m_parse_progress)
          /\ add_to_key_or_value(m_parse_progress', "N")
          /\ UNCHANGED <<pc, quoted, backslash>>
        BY <1>5, <2>1, <2>2, Zenon DEF OtherChar, increase_parse_progress
    <2>4. m_parse_progress' = "VALUE"
        BY <2>3 DEF Successor
    <2>5. m_key_buffer' = Key /\ m_value_buffer' = Append(<<>>, "N")
        BY <1>3, <2>3, <2>4 DEF add_to_key_or_value
    <2>6. /\ Append(<<>>, "N") # <<>> /\ Len(Append(<<>>, "N")) = 1
          /\ Append(<<>>, "N")[1] = "N"
        OBVIOUS
    <2>7. PartRead(m_value_buffer', SentValue)
        <3>1. SentValue = NullWord
            BY <1>8 DEF SentValue
        <3>2. NullWord[1] = "N" /\ Len(NullWord) = 4
            BY DEF NullWord
        <3> QED
            BY <2>5, <2>6, <3>1, <3>2 DEF PartRead
    <2>8. m_current_position' = ValueStart + Len(m_value_buffer')
        BY <1>1, <1>8, <2>5, <2>6
    <2>9. ~quoted' /\ ~backslash' /\ m_value_buffer' # <<>>
        BY <1>3, <2>3, <2>5, <2>6
    <2>10. InValue'
        BY <1>1, <1>8, <2>5, <2>7, <2>8, <2>9, Zenon DEF InValue
    <2> QED
        BY <1>1, <2>3, <2>4, <2>10 DEF HStoreReading
<1> QED
    BY <1>6, <1>7, <1>8

(* A NULL that is read without quotation marks.                            *)
LEMMA NullThere ==
    ASSUME IInv, SentHStore, Len(tags) < Len(row.sent), InValue, ~quoted
    PROVE  LET n == Len(m_value_buffer)
           IN  /\ n \in 1..4 /\ End = ValueStart + 4 /\ m_current_position = ValueStart + n
               /\ SentValue = NullWord /\ ~backslash
               /\ n = 4 => m_value_buffer = SentValue
               /\ n < 4 =>
                    /\ row.text[ValueStart + n + 1] = NullWord[n + 1]
                    /\ NullWord[n + 1] \in {"N", "U", "L"}
<1> DEFINE n == Len(m_value_buffer)
<1>1. /\ Value = Null /\ ~backslash /\ m_value_buffer # <<>>
      /\ m_current_position = ValueStart + n /\ PartRead(m_value_buffer, SentValue)
    BY Zenon DEF InValue
<1>2. m_value_buffer \in Seq(STRING)
    BY DEF IInv, TypeOK
<1>3. SentValue = NullWord
    BY <1>1 DEF SentValue
<1>4. n \in 1..4
    <2>1. Len(NullWord) = 4 /\ n <= Len(NullWord)
        BY <1>1, <1>3, WordIsText, Zenon DEF PartRead
    <2>2. n \in Nat /\ n # 0
        BY <1>1, <1>2
    <2>3. n <= 4
        BY <2>1
    <2> HIDE DEF n
    <2> QED
        BY <2>2, <2>3
<1>5. IsPlain(row.text, ValueStart, End, NullWord)
    BY <1>1, PairThere DEF PairAt
<1>6. End = ValueStart + 4 /\ \A i \in 1..4 : row.text[ValueStart + i] = NullWord[i]
    <2>1. \A i \in 1..4 : i \in DOMAIN NullWord
        BY WordIsText
    <2> QED
        BY <1>5, <2>1, WordIsText, Zenon DEF IsPlain
<1>7. n = 4 => m_value_buffer = SentValue
    <2>1. m_value_buffer \in Seq(Chars)
        BY <1>2, WordIsText
    <2> QED
        BY <1>1, <1>3, <2>1, WordIsText, AllRead
<1>8. ValueStart \in Nat
    BY PairThere
<1>9. \A i \in 1..4 : NullWord[i] \in {"N", "U", "L"}
    <2>1. \A i \in 1..4 : i = 1 \/ i = 2 \/ i = 3 \/ i = 4
        OBVIOUS
    <2>2. NullWord[1] = "N" /\ NullWord[2] = "U" /\ NullWord[3] = "L" /\ NullWord[4] = "L"
        BY DEF NullWord
    <2> QED
        BY <2>1, <2>2
<1> HIDE DEF n
<1>10. n < 4 => /\ row.text[ValueStart + n + 1] = NullWord[n + 1]
                /\ NullWord[n + 1] \in {"N", "U", "L"}
    <2> SUFFICES ASSUME n < 4
                 PROVE  /\ row.text[ValueStart + n + 1] = NullWord[n + 1]
                        /\ NullWord[n + 1] \in {"N", "U", "L"}
        OBVIOUS
    <2>1. n + 1 \in 1..4 /\ ValueStart + (n + 1) = ValueStart + n + 1
        BY <1>4, <1>8
    <2> QED
        BY <1>6, <1>9, <2>1
<1> QED
    BY <1>1, <1>3, <1>4, <1>6, <1>7, <1>10, Zenon DEF n

(* A value ends with its quotation mark; NULL with the comma behind it.    *)
LEMMA ValueReads ==
    ASSUME IInv, SentHStore, HStoreReading, CharNext, m_parse_progress = "VALUE"
    PROVE  HStoreReading'
<1>1. /\ pc = "get_next" /\ TagsRead' /\ Len(tags)' < Len(row.sent)'
      /\ m_current_position \in Nat /\ m_current_position' = m_current_position + 1
      /\ Char = row.text[m_current_position + 1] /\ Char \in STRING
      /\ m_key_buffer \in Seq(STRING) /\ m_value_buffer \in Seq(STRING)
      /\ Key' = Key /\ Value' = Value /\ SentValue' = SentValue
      /\ ValueStart' = ValueStart /\ End' = End
    BY PairStep
<1>2. InValue /\ Len(tags) < Len(row.sent)
    BY <1>1, PairStep DEF HStoreReading
<1>3. m_key_buffer = Key /\ PartRead(m_value_buffer, SentValue)
    BY <1>2, Zenon DEF InValue
<1>4. /\ ValueStart \in Nat /\ End \in Nat /\ Value \in Seq(STRING) /\ m_max_length \in Nat
      /\ Value # Null => IsQuoted(row.text, ValueStart, End, Value)
      /\ End < m_max_length => row.text[End + 1] = Comma
    BY <1>2, PairThere DEF PairAt
<1>5. backslash \in BOOLEAN /\ quoted \in BOOLEAN
    BY Zenon DEF IInv, TypeOK, ParserTypeOK
<1>6. CASE quoted
    <2>1. /\ Value # Null /\ SentValue = Value
          /\ Inside(Value, ValueStart + 1, Len(m_value_buffer) + 1, backslash, m_current_position)
        BY <1>2, <1>6, Zenon DEF InValue, SentValue
    <2>2. PartGoesOn(row.text, ValueStart, End, Value, m_value_buffer, backslash, m_current_position)
        BY <1>1, <1>3, <1>4, <1>5, <2>1, StringRead, Zenon
    <2>3. /\ backslash => Char \in Escapable
          /\ backslash \/ Char \notin Escapable =>
                /\ PartRead(Append(m_value_buffer, Char), Value)
                /\ Inside(Value, ValueStart + 1, Len(Append(m_value_buffer, Char)) + 1, FALSE,
                          m_current_position + 1)
          /\ ~backslash /\ Char = "\\" =>
                Inside(Value, ValueStart + 1, Len(m_value_buffer) + 1, TRUE, m_current_position + 1)
          /\ ~backslash /\ Char = Quote => m_current_position + 1 = End /\ m_value_buffer = Value
        BY <1>1, <2>2, Zenon DEF PartGoesOn
    <2>4. CASE backslash \/ Char \notin Escapable
        <3>1. /\ add_to_key_or_value(m_parse_progress, Char) /\ ~backslash' /\ quoted'
              /\ UNCHANGED <<pc, m_parse_progress>>
            <4>1. (backslash /\ Char \in Escapable) \/ (~backslash /\ Char \notin Escapable)
                BY <2>3, <2>4, Zenon
            <4> QED
                BY <1>6, <4>1, StringChar, Zenon
        <3>2. m_value_buffer' = Append(m_value_buffer, Char) /\ m_key_buffer' = m_key_buffer
            BY <3>1 DEF add_to_key_or_value
        <3>3. Inside(Value, ValueStart + 1, Len(m_value_buffer') + 1, backslash', m_current_position')
            BY <1>1, <2>3, <2>4, <3>1, <3>2, Zenon DEF Inside
        <3>4. InValue'
            BY <1>1, <1>3, <2>1, <2>3, <2>4, <3>1, <3>2, <3>3, Zenon DEF InValue
        <3> QED
            BY <1>1, <3>1, <3>4 DEF HStoreReading
    <2>5. CASE ~backslash /\ Char = "\\"
        <3>1. /\ backslash' /\ quoted'
              /\ UNCHANGED <<pc, m_parse_progress, m_key_buffer, m_value_buffer>>
            BY <1>6, <2>5, StringChar, Zenon
        <3>2. Inside(Value, ValueStart + 1, Len(m_value_buffer') + 1, backslash', m_current_position')
            BY <1>1, <2>3, <2>5, <3>1, Zenon DEF Inside
        <3>3. InValue'
            BY <1>1, <1>3, <2>1, <3>1, <3>2, Zenon DEF InValue
        <3> QED
            BY <1>1, <3>1, <3>3 DEF HStoreReading
    <2>6. CASE ~backslash /\ Char = Quote
        <3>1. /\ m_parse_progress' = Successor(m_parse_progress) /\ ~backslash' /\ ~quoted'
              /\ UNCHANGED <<pc, m_key_buffer, m_value_buffer>>
            BY <1>6, <2>6, StringChar, Zenon
        <3>2. m_parse_progress' = "END"
            BY <3>1 DEF Successor
        <3>3. BehindPair'
            BY <1>1, <1>3, <2>1, <2>3, <2>6, <3>1, Zenon DEF BehindPair
        <3> QED
            BY <1>1, <3>1, <3>2, <3>3 DEF HStoreReading
    <2> QED
        BY <2>4, <2>5, <2>6 DEF Escapable
<1>7. CASE ~quoted
    <2> DEFINE n == Len(m_value_buffer)
    <2>1. /\ n \in 1..4 /\ End = ValueStart + 4 /\ m_current_position = ValueStart + n
          /\ SentValue = NullWord /\ ~backslash
          /\ n = 4 => m_value_buffer = SentValue
          /\ n < 4 => /\ row.text[ValueStart + n + 1] = NullWord[n + 1]
                      /\ NullWord[n + 1] \in {"N", "U", "L"}
        BY <1>2, <1>7, NullThere, Zenon
    <2>2. Value = Null
        BY <1>2, <1>7, Zenon DEF InValue
    <2> HIDE DEF n
    <2>3. CASE n < 4
        <3>1. Char = NullWord[n + 1] /\ Char \in {"N", "U", "L"}
            BY <1>1, <2>1, <2>3
        <3>2. OtherChar /\ InKeyOrValue
            <4>1. Char \notin {"\\", "=", ">", Quote, Blank, Comma}
                BY <3>1, CharsDiffer
            <4> QED
                BY <2>1, <4>1, WhichChar, Zenon DEF InKeyOrValue
        <3>3. /\ add_to_key_or_value(m_parse_progress, Char)
              /\ UNCHANGED <<pc, m_parse_progress, quoted, backslash>>
            BY <3>2, Zenon DEF OtherChar
        <3>4. m_value_buffer' = Append(m_value_buffer, Char) /\ m_key_buffer' = Key
            BY <1>3, <3>3 DEF add_to_key_or_value
        <3>5. PartRead(m_value_buffer', SentValue) /\ Len(m_value_buffer') = n + 1
            <4>1. NullWord \in Seq(Chars) /\ n < Len(NullWord)
                BY <2>3, WordIsText
            <4> QED
                BY <1>1, <1>3, <2>1, <3>1, <3>4, <4>1, PartGrows DEF n
        <3>6. m_current_position' = ValueStart + Len(m_value_buffer') /\ m_value_buffer' # <<>>
            <4>1. m_current_position' = ValueStart + (n + 1) /\ n + 1 # 0
                BY <1>1, <1>4, <2>1
            <4>2. Len(<<>>) = 0
                OBVIOUS
            <4> QED
                BY <3>5, <4>1, <4>2, Zenon
        <3>7. ~quoted' /\ ~backslash'
            BY <1>7, <2>1, <3>3
        <3>8. InValue'
            BY <1>1, <2>2, <3>4, <3>5, <3>6, <3>7, Zenon DEF InValue
        <3> QED
            BY <1>1, <3>3, <3>8 DEF HStoreReading
    <2>4. CASE n = 4
        <3>1. m_current_position = End /\ m_value_buffer = SentValue
            BY <2>1, <2>4
        <3>2. Char = Comma
            <4>1. End < m_max_length
                BY <3>1, WhichChar DEF InLoop
            <4> QED
                BY <1>1, <1>4, <3>1, <4>1
        <3>3. BlankOrComma /\ InKeyOrValue
            BY <2>1, <3>2, WhichChar DEF InKeyOrValue
        <3>4. /\ m_parse_progress' = Successor(m_parse_progress)
              /\ UNCHANGED <<pc, m_key_buffer, m_value_buffer>>
            BY <1>7, <3>3, Zenon DEF BlankOrComma, increase_parse_progress, buffers
        <3>5. m_parse_progress' = "END"
            BY <3>4 DEF Successor
        <3>6. BehindPair'
            BY <1>1, <1>3, <3>1, <3>4, Zenon DEF BehindPair
        <3> QED
            BY <1>1, <3>4, <3>5, <3>6 DEF HStoreReading
    <2> QED
        BY <2>1, <2>3, <2>4
<1> QED
    BY <1>6, <1>7

(* The loop over the text ends behind the pair.                            *)
LEMMA PairRead ==
    ASSUME IInv, SentHStore, HStoreReading, pc = "get_next", ~InLoop
    PROVE  /\ m_key_buffer = Key /\ m_value_buffer = SentValue
           /\ m_current_position \in {End, End + 1}
<1>1. /\ Len(tags) < Len(row.sent)
      /\ m_parse_progress \in {"NONE", "KEY", "SEPARATOR", "VALUE", "END"}
      /\ ~(m_current_position < m_max_length) \/ m_parse_progress = "END"
    BY DEF HStoreReading, InLoop
<1>2. /\ KeyStart \in Nat /\ ValueStart \in Nat /\ End \in Nat /\ m_max_length \in Nat
      /\ Key \in Seq(STRING) /\ Value \in Seq(STRING)
      /\ KeyStart + 4 <= ValueStart /\ ValueStart + 2 <= End /\ End <= m_max_length
      /\ IsQuoted(row.text, KeyStart, ValueStart - 2, Key)
      /\ Value # Null => IsQuoted(row.text, ValueStart, End, Value)
    BY <1>1, PairThere DEF PairAt
<1>3. m_current_position \in Nat
    BY DEF IInv, TypeOK, ParserTypeOK
<1>4. backslash \in BOOLEAN /\ quoted \in BOOLEAN
    BY Zenon DEF IInv, TypeOK, ParserTypeOK
<1>5. CASE m_parse_progress = "END"
    BY <1>5, Zenon DEF HStoreReading, BehindPair
<1>6. ASSUME ~(m_current_position < m_max_length) PROVE ~(m_current_position < End)
    BY <1>2, <1>3, <1>6
<1>7. CASE m_parse_progress = "NONE"
    <2>1. m_current_position \in {KeyStart - 2, KeyStart - 1, KeyStart}
        BY <1>7, Zenon DEF HStoreReading, BeforeKey
    <2>2. m_current_position < End
        BY <1>2, <1>3, <2>1
    <2> QED
        BY <1>1, <1>6, <1>7, <2>2
<1>8. CASE m_parse_progress = "KEY"
    <2>1. Inside(Key, KeyStart + 1, Len(m_key_buffer) + 1, backslash, m_current_position)
        BY <1>8, Zenon DEF HStoreReading, InKeyString
    <2>2. GoesOn(row.text, KeyStart, ValueStart - 2, Key, Len(m_key_buffer) + 1, backslash,
                 m_current_position)
        BY <1>2, <1>4, <2>1, InsideStep, Zenon
    <2>3. m_current_position < ValueStart - 2
        BY <2>2, Zenon DEF GoesOn
    <2>4. m_current_position < End
        BY <1>2, <1>3, <2>3
    <2> QED
        BY <1>1, <1>6, <1>8, <2>4
<1>9. CASE m_parse_progress = "SEPARATOR"
    <2>1. m_current_position \in {ValueStart - 2, ValueStart - 1, ValueStart}
        BY <1>9, Zenon DEF HStoreReading, InSeparator
    <2>2. m_current_position < End
        BY <1>2, <1>3, <2>1
    <2> QED
        BY <1>1, <1>6, <1>9, <2>2
<1>10. CASE m_parse_progress = "VALUE"
    <2>1. InValue
        BY <1>10, Zenon DEF HStoreReading
    <2>2. ~(m_current_position < End)
        BY <1>1, <1>6, <1>10
    <2>3. CASE quoted
        <3>1. /\ IsQuoted(row.text, ValueStart, End, Value)
              /\ Inside(Value, ValueStart + 1, Len(m_value_buffer) + 1, backslash,
                        m_current_position)
            BY <1>2, <2>1, <2>3, Zenon DEF InValue
        <3>2. GoesOn(row.text, ValueStart, End, Value, Len(m_value_buffer) + 1, backslash,
                     m_current_position)
            BY <1>2, <1>4, <3>1, InsideStep, Zenon
        <3> QED
            BY <2>2, <3>2, Zenon DEF GoesOn
    <2>4. CASE ~quoted
        <3> DEFINE n == Len(m_value_buffer)
        <3>1. /\ n \in 1..4 /\ End = ValueStart + 4 /\ m_current_position = ValueStart + n
              /\ n = 4 => m_value_buffer = SentValue
            BY <1>1, <2>1, <2>4, NullThere, Zenon
        <3> HIDE DEF n
        <3>2. n = 4 /\ m_current_position = End
            BY <1>2, <2>2, <3>1
        <3>3. m_key_buffer = Key
            BY <2>1, Zenon DEF InValue
        <3> QED
            BY <3>1, <3>2, <3>3
    <2> QED
        BY <2>3, <2>4
<1> QED
    BY <1>1, <1>5, <1>7, <1>8, <1>9, <1>10

(* The pair becomes a tag.                                                 *)
LEMMA ReturnPairReads ==
    ASSUME IInv, SentHStore, HStoreReading, ReturnPair
    PROVE  HStoreReading'
<1> DEFINE n == Len(tags)
<1>1. /\ pc = "get_next" /\ ~InLoop /\ pc' = "has_next"
      /\ UNCHANGED <<row, m_current_position>>
      /\ tags' = Append(tags, <<m_key_buffer, m_value_buffer>>)
    BY DEF ReturnPair, parser
<1>2. TagsRead /\ n < Len(row.sent)
    BY <1>1 DEF HStoreReading
<1>3. /\ m_key_buffer = Key /\ m_value_buffer = SentValue
      /\ m_current_position \in {End, End + 1}
    BY <1>1, PairRead
<1>4. NextStart = End + 2 /\ End \in Nat
    BY <1>2, PairThere
<1>5. /\ n \in Nat /\ tags \in Tags /\ row \in Rows
      /\ m_key_buffer \in Seq(STRING) /\ m_value_buffer \in Seq(STRING)
    BY DEF IInv, TypeOK, PositionsSound, Tags
<1>6. row.sent \in Tags /\ Len(row.sent) \in Nat
    BY <1>5, RowsAssumption DEF Tags
<1>7. /\ Len(tags') = n + 1 /\ tags'[n + 1] = <<Key, SentValue>>
      /\ \A j \in 1..n : tags'[j] = tags[j]
    <2>1. <<m_key_buffer, m_value_buffer>> \in Seq(STRING) \X Seq(STRING)
        BY <1>5
    <2> QED
        BY <1>1, <1>3, <1>5, <2>1, Appended DEF Tags
<1>8. n + 1 \in DOMAIN row.sent /\ tag = n + 1
    BY <1>2, <1>5, <1>6 DEF tag, Tags
<1>9. Sent[n + 1] = <<Key, SentValue>>
    <2>1. row.driver # "osm2pgsql"
        BY DEF SentHStore
    <2>2. Sent[n + 1] = <<row.sent[n + 1][1],
                          IF row.sent[n + 1][2] # Null THEN row.sent[n + 1][2] ELSE NullWord>>
        BY <1>8, <2>1, Zenon DEF Sent
    <2>3. Key = row.sent[n + 1][1] /\ Value = row.sent[n + 1][2]
        BY <1>8, Zenon DEF Key, Value
    <2> QED
        BY <2>2, <2>3, Zenon DEF SentValue
<1> HIDE DEF n
<1>10. Sent' = Sent
    BY <1>1 DEF Sent
<1>11. TagsRead'
    <2>1. Len(tags') <= Len(row.sent')
        BY <1>1, <1>2, <1>5, <1>6, <1>7 DEF n
    <2>2. ASSUME NEW j \in 1..Len(tags') PROVE tags'[j] = Sent[j]
        <3>1. CASE j = n + 1
            BY <1>7, <1>9, <3>1
        <3>2. CASE j # n + 1
            <4>1. j \in 1..n
                BY <1>5, <1>7, <3>2
            <4>2. tags'[j] = tags[j] /\ tags[j] = Sent[j]
                BY <1>2, <1>7, <4>1 DEF TagsRead, n
            <4> QED
                BY <4>2
        <3> QED
            BY <3>1, <3>2
    <2> QED
        BY <1>10, <2>1, <2>2, Zenon DEF TagsRead
<1>12. BeforePair'
    <2>1. KeyStart' = row.starts[n + 1 + 1][1]
        BY <1>1, <1>7, Zenon DEF KeyStart, tag
    <2>2. KeyStart' = NextStart
        BY <1>8, <2>1, Zenon DEF NextStart
    <2>3. m_current_position' \in {KeyStart' - 2, KeyStart' - 1}
        BY <1>1, <1>3, <1>4, <2>2
    <2> QED
        BY <2>3, Zenon DEF BeforePair
<1> QED
    BY <1>1, <1>11, <1>12 DEF HStoreReading

(* has_next sees whether there is another pair.                            *)
LEMMA HStoreHasNextReads ==
    ASSUME IInv, SentHStore, HStoreReading, HStoreHasNext
    PROVE  HStoreReading'
<1>1. /\ pc = "has_next" /\ TagsRead /\ BeforePair
      /\ UNCHANGED <<row, tags, m_current_position>>
    BY DEF HStoreReading, HStoreHasNext
<1>2. /\ row \in Rows /\ m_current_position \in Nat /\ Len(tags) \in Nat
      /\ m_current_position <= m_max_length
    BY DEF IInv, TypeOK, ParserTypeOK, PositionsSound, SentHStore
<1>3. /\ m_max_length \in Nat /\ SizeMax \in Nat /\ m_max_length < SizeMax
      /\ Len(row.sent) \in Nat /\ Len(tags) <= Len(row.sent)
    BY <1>1, <1>2, TextLength, RowsAssumption, SizeAssumption DEF TagsRead
<1>4. TagsRead' /\ KeyStart' = KeyStart /\ Len(tags)' = Len(tags) /\ Len(row.sent)' = Len(row.sent)
    BY <1>1, SamePair
<1>5. Len(tags) < Len(row.sent) => PairExpected
    <2> SUFFICES ASSUME Len(tags) < Len(row.sent) PROVE PairExpected
        OBVIOUS
    <2>1. /\ KeyStart \in Nat /\ ValueStart \in Nat /\ End \in Nat
          /\ KeyStart + 4 <= ValueStart /\ ValueStart + 2 <= End /\ End <= m_max_length
        BY PairThere
    <2>2. KeyStart + 6 <= m_max_length
        BY <1>3, <2>1
    <2>3. \/ m_current_position \in {KeyStart - 2, KeyStart - 1}
          \/ m_current_position = 0 /\ KeyStart = 0
        BY <1>1, Zenon DEF BeforePair
    <2>4. CASE m_max_length = 6
        <3>1. m_current_position = 0
            BY <1>2, <2>1, <2>2, <2>3, <2>4
        <3>2. m_max_length - MIN_KV_PAIR_LENGTH = -1
            BY <2>4 DEF MIN_KV_PAIR_LENGTH
        <3>3. Unsigned(m_max_length - MIN_KV_PAIR_LENGTH) = SizeMax - 1
            BY <1>3, <3>2 DEF Unsigned
        <3> QED
            BY <1>3, <2>4, <3>1, <3>3 DEF PairExpected
    <2>5. CASE m_max_length # 6
        <3>1. m_max_length >= 7 /\ m_current_position <= m_max_length - 7
            BY <1>2, <1>3, <2>1, <2>2, <2>3, <2>5
        <3>2. Unsigned(m_max_length - MIN_KV_PAIR_LENGTH) = m_max_length - 7
            BY <1>3, <3>1 DEF Unsigned, MIN_KV_PAIR_LENGTH
        <3> QED
            BY <1>2, <1>3, <3>1, <3>2 DEF PairExpected
    <2> QED
        BY <2>4, <2>5
<1>6. Len(tags) = Len(row.sent) => ~PairExpected
    <2> SUFFICES ASSUME Len(tags) = Len(row.sent) PROVE ~(m_current_position < m_max_length)
        BY DEF PairExpected
    <2>1. IsHStoreText(row.text, row.sent, row.starts)
        BY <1>2, ServerAssumption DEF SentHStore
    <2>2. KeyStart = m_max_length + 2
        BY <2>1, Zenon DEF IsHStoreText, KeyStart, tag, m_max_length, m_string_repr
    <2>3. \/ m_current_position \in {KeyStart - 2, KeyStart - 1}
          \/ m_current_position = 0 /\ KeyStart = 0
        BY <1>1, Zenon DEF BeforePair
    <2> QED
        BY <1>2, <1>3, <2>2, <2>3
<1>7. CASE PairExpected
    <2>1. /\ pc' = "get_next" /\ m_parse_progress' = "NONE" /\ ~quoted' /\ ~backslash'
          /\ m_key_buffer' = <<>> /\ m_value_buffer' = <<>>
        BY <1>7, Zenon DEF HStoreHasNext, StartGetNext
    <2>2. Len(tags)' < Len(row.sent)'
        <3>1. Len(tags) # Len(row.sent)
            BY <1>6, <1>7
        <3> QED
            BY <1>2, <1>3, <1>4, <3>1
    <2>3. m_current_position' \in {KeyStart' - 2, KeyStart' - 1, KeyStart'}
        <3>1. \/ m_current_position \in {KeyStart - 2, KeyStart - 1}
              \/ m_current_position = 0 /\ KeyStart = 0
            BY <1>1, Zenon DEF BeforePair
        <3> QED
            BY <1>1, <1>4, <3>1
    <2>4. BeforeKey'
        BY <2>1, <2>3, Zenon DEF BeforeKey
    <2> QED
        BY <1>4, <2>1, <2>2, <2>4 DEF HStoreReading
<1>8. CASE ~PairExpected
    <2>1. pc' = "done"
        BY <1>8, Zenon DEF HStoreHasNext
    <2>2. Len(tags) = Len(row.sent)
        BY <1>2, <1>3, <1>5, <1>8
    <2> QED
        BY <1>4, <2>1, <2>2 DEF HStoreReading
<1> QED
    BY <1>7, <1>8

(* An hstore begins with its first pair.                                   *)
LEMMA HStoreBegins == ASSUME Init, SentHStore PROVE HStoreReading
<1>1. /\ row.driver = "cerepso" /\ row.valid /\ row.text # <<>> /\ InitCerepso
      /\ row \in Rows /\ tags = <<>>
    BY DEF Init, InitParser, InitOsm2pgsql, SentHStore
<1>2. pc = "has_next" /\ m_current_position = 0
    BY <1>1 DEF InitCerepso, InitHStore
<1>3. Len(tags) = 0 /\ tag = 1 /\ Len(row.sent) \in Nat
    BY <1>1, RowsAssumption DEF tag
<1>4. IsHStoreText(row.text, row.sent, row.starts)
    BY <1>1, ServerAssumption
<1>5. KeyStart = 0
    <2>1. KeyStart = row.starts[1][1]
        BY <1>3, Zenon DEF KeyStart
    <2>2. IF Len(row.sent) = 0 THEN row.text = <<>> ELSE row.starts[1][1] = 0
        BY <1>4, Zenon DEF IsHStoreText
    <2> QED
        BY <1>1, <2>1, <2>2
<1>6. BeforePair
    BY <1>2, <1>5, Zenon DEF BeforePair
<1>7. TagsRead
    BY <1>3 DEF TagsRead
<1> QED
    BY <1>2, <1>6, <1>7 DEF HStoreReading

(* So no step of the hstore parser reads anything else.                    *)
LEMMA HStoreStepReads ==
    ASSUME IInv, SentHStore, HStoreReading, HStoreNext
    PROVE  SentHStore' /\ HStoreReading'
<1>1. UNCHANGED row
    BY DEF HStoreNext, HStoreHasNext, EscapedChar, Backslash, EqualsSign, GreaterSign, QuotationMark,
           BlankOrComma, OtherChar, ReturnPair
<1>2. SentHStore'
    BY <1>1 DEF SentHStore
<1>3. CASE CharNext
    <2>1. m_parse_progress \in {"NONE", "KEY", "SEPARATOR", "VALUE"}
        <3>1. pc = "get_next" /\ m_parse_progress # "END"
            BY <1>3, PairStep
        <3> QED
            BY <3>1 DEF HStoreReading
    <2> QED
        BY <1>2, <1>3, <2>1, BeforeKeyReads, KeyReads, SeparatorReads, ValueReads
<1> QED
    BY <1>2, <1>3, HStoreHasNextReads, ReturnPairReads DEF HStoreNext, CharNext

-----------------------------------------------------------------------------
(***************************************************************************)
(* What the builder gets.                                                  *)
(***************************************************************************)

(* From an empty text nothing is read.                                     *)
NothingRead == pc \in {"has_next", "done"} /\ tags = <<>>

ReadingInv ==
    /\ IInv
    /\ SentArray => ArrayReading
    /\ SentHStore => HStoreReading
    /\ row.text = <<>> => NothingRead

(* An empty text is sent for no tags only.                                 *)
LEMMA NothingSent ==
    ASSUME row \in Rows, row.valid, row.text = <<>>
    PROVE  Len(row.sent) = 0
<1> DEFINE n == Len(row.sent)
           value == row.starts[n][2]
           next == row.starts[n + 1][1]
           item == row.sent[n][2]
<1>1. /\ n \in Nat /\ Len(row.text) = 0
      /\ row.sent \in Seq(Seq(STRING) \X Seq(STRING)) /\ row.starts \in Seq(Nat \X Nat)
      /\ Len(row.starts) = n + 1
    BY RowsAssumption
<1> SUFFICES ASSUME n # 0 PROVE FALSE
    OBVIOUS
<1>2. n \in 1..n /\ n \in 1..(n + 1) /\ n + 1 \in 1..(n + 1)
    <2>1. n \in Nat
        BY <1>1
    <2> HIDE DEF n
    <2> QED
        BY <2>1
<1>3. value \in Nat /\ next \in Nat /\ item \in Seq(STRING)
    BY <1>1, <1>2, Parts
<1>4. CASE row.sent = <<>>
    BY <1>4
<1>5. CASE IsArrayText(row.text, row.sent, row.starts)
    <2>1. next = Len(row.text) /\ IsArrayItem(row.text, value, next - 1, item)
        BY <1>2, <1>5, Zenon DEF IsArrayText
    <2>2. Len(row.text) \in Nat
        BY <1>1
    <2>3. next - 1 \in Nat
        BY <1>3, <2>1, <2>2, ItemInText
    <2> QED
        BY <1>1, <2>1, <2>3
<1>6. CASE IsHStoreText(row.text, row.sent, row.starts)
    <2> DEFINE at == row.starts[n][1]
               name == row.sent[n][1]
    <2>1. IsQuoted(row.text, at, value - 2, name)
        BY <1>2, <1>6, Zenon DEF IsHStoreText
    <2>2. at \in Nat /\ name \in Seq(STRING) /\ Len(row.text) \in Nat
        BY <1>1, <1>2, Parts
    <2>3. at + 2 <= value - 2 /\ value - 2 <= Len(row.text)
        BY <2>1, <2>2, StringInText
    <2>4. Len(row.text) = 0 /\ value \in Nat
        BY <1>1, <1>3
    <2> HIDE DEF at, name, value
    <2> QED
        BY <2>2, <2>3, <2>4
<1> QED
    BY <1>4, <1>5, <1>6, ServerAssumption

(* In the beginning nothing has been read.                                 *)
LEMMA ReadingBegins == Init => ReadingInv
<1> SUFFICES ASSUME Init PROVE ReadingInv
    OBVIOUS
<1>1. NothingRead
    BY DEF Init, InitParser, InitOsm2pgsql, InitArray, InitCerepso, InitHStore, NothingRead
<1> QED
    BY <1>1, InitSound, ArrayBegins, HStoreBegins DEF ReadingInv

(* For an empty text no parser is made, or it expects no pair.             *)
LEMMA EmptyStays ==
    ASSUME IInv, row.text = <<>>, NothingRead, Next
    PROVE  NothingRead'
<1>1. m_max_length = 0 /\ row \in Rows
    BY DEF m_max_length, m_string_repr, IInv, PositionsSound
<1>2. pc # "get_next" /\ pc # "remove_escape_sequences" /\ ~InLoop
    BY DEF NothingRead, InLoop
<1>3. CASE row.driver = "osm2pgsql" /\ ArrayNext
    <2>1. ArrayHasNext
        BY <1>2, <1>3 DEF ArrayNext, BeginElement, QuotedElement, UnquotedElement, BeginCopy,
                          CopyChar, ReturnElement
    <2>2. m_current_position \in 1..0
        BY <1>1, <1>3, <2>1 DEF ArrayHasNext, IInv, PositionsSound
    <2> QED
        BY <2>2
<1>4. CASE row.driver = "cerepso" /\ HStoreNext
    <2>1. HStoreHasNext
        BY <1>2, <1>4 DEF HStoreNext, EscapedChar, Backslash, EqualsSign, GreaterSign, QuotationMark,
                          BlankOrComma, OtherChar, ReturnPair
    <2>2. ~PairExpected
        BY <1>1 DEF PairExpected, IInv, TypeOK, ParserTypeOK
    <2>3. pc' = "done" /\ UNCHANGED tags
        BY <2>1, <2>2, Zenon DEF HStoreHasNext
    <2> QED
        BY <2>3 DEF NothingRead
<1> QED
    BY <1>3, <1>4 DEF Next

(* What has been read stays right when nothing happens.                    *)
LEMMA ReadingStays ==
    ASSUME UNCHANGED vars, ReadingInv
    PROVE  ReadingInv'
<1>1. /\ UNCHANGED <<row, pc, tags, parser, element, pairing, buffers>>
      /\ UNCHANGED <<m_current_position, m_parse_progress, quoted, backslash>>
      /\ UNCHANGED <<start, end, current_position_src, backslashes_before, result, pos, key>>
      /\ UNCHANGED <<m_key_buffer, m_value_buffer>>
    BY Zenon DEF vars, parser, element, copying, pairing, buffers
<1>2. IInv'
    BY <1>1 DEF ReadingInv, IInv, TypeOK, ParserTypeOK, PositionsSound, m_max_length, m_string_repr
<1>3. (SentArray' <=> SentArray) /\ (SentHStore' <=> SentHStore) /\ (NothingRead' <=> NothingRead)
    BY <1>1 DEF SentArray, SentHStore, NothingRead
<1>4. ArrayReading => ArrayReading'
    <2>1. (BeforeElement' <=> BeforeElement) /\ (InElement' <=> InElement)
        BY <1>1, SameElement, Zenon DEF BeforeElement, InElement
    <2>2. (BehindElement' <=> BehindElement) /\ (Copying' <=> Copying)
        BY <1>1, SameElement, Zenon DEF BehindElement, Copying
    <2> QED
        BY <1>1, <2>1, <2>2, SameElement, Zenon DEF ArrayReading
<1>5. HStoreReading => HStoreReading'
    <2>1. (BeforePair' <=> BeforePair) /\ (BeforeKey' <=> BeforeKey)
        BY <1>1, SamePair, Zenon DEF BeforePair, BeforeKey
    <2>2. (InKeyString' <=> InKeyString) /\ (InSeparator' <=> InSeparator)
        BY <1>1, SamePair, Zenon DEF InKeyString, InSeparator
    <2>3. (InValue' <=> InValue) /\ (BehindPair' <=> BehindPair)
        BY <1>1, SamePair, Zenon DEF InValue, BehindPair
    <2> QED
        BY <1>1, <2>1, <2>2, <2>3, SamePair, Zenon DEF HStoreReading
<1> QED
    BY <1>1, <1>2, <1>3, <1>4, <1>5, Zenon DEF ReadingInv

(* The invariant holds in every behaviour.                                 *)
LEMMA ReadingHolds == Spec => []ReadingInv
<1>1. ReadingInv /\ [Next]_vars => ReadingInv'
    <2> SUFFICES ASSUME ReadingInv, [Next]_vars PROVE ReadingInv'
        OBVIOUS
    <2>1. CASE Next
        <3>1. IInv'
            BY <2>1, ArrayStepSound, HStoreStepSound DEF Next, ReadingInv
        <3>2. UNCHANGED row
            BY <2>1 DEF Next, ArrayNext, ArrayHasNext, BeginElement, QuotedElement, UnquotedElement,
                        BeginCopy, CopyChar, ReturnElement, HStoreNext, HStoreHasNext, EscapedChar,
                        Backslash, EqualsSign, GreaterSign, QuotationMark, BlankOrComma, OtherChar,
                        ReturnPair
        <3>3. ASSUME SentArray' PROVE ArrayReading'
            <4>1. SentArray /\ row.driver = "osm2pgsql"
                BY <3>2, <3>3 DEF SentArray
            <4>2. ArrayNext
                BY <2>1, <4>1 DEF Next
            <4> QED
                BY <4>1, <4>2, ArrayStepReads DEF ReadingInv
        <3>4. ASSUME SentHStore' PROVE HStoreReading'
            <4>1. SentHStore /\ row.driver = "cerepso"
                BY <3>2, <3>4 DEF SentHStore
            <4>2. HStoreNext
                BY <2>1, <4>1 DEF Next
            <4> QED
                BY <4>1, <4>2, HStoreStepReads DEF ReadingInv
        <3>5. row'.text = <<>> => NothingRead'
            BY <2>1, <3>2, EmptyStays DEF ReadingInv
        <3> QED
            BY <3>1, <3>3, <3>4, <3>5 DEF ReadingInv
    <2> QED
        BY <2>1, ReadingStays
<1> QED
    BY ReadingBegins, <1>1, PTL DEF Spec

(* Each row has an array, an hstore or nothing.                            *)
LEMMA WhatIsSent ==
    ASSUME ReadingInv, row.valid
    PROVE  /\ TagsRead /\ pc # "throw"
           /\ pc = "done" => Len(tags) = Len(row.sent)
<1>1. row \in Rows /\ row.driver \in {"cerepso", "osm2pgsql"}
    BY TextLength DEF ReadingInv, IInv, PositionsSound
<1>2. CASE row.text = <<>>
    <2>1. NothingRead /\ Len(row.sent) = 0 /\ Len(tags) = 0
        BY <1>1, <1>2, NothingSent DEF ReadingInv, NothingRead
    <2> QED
        BY <2>1 DEF NothingRead, TagsRead
<1>3. CASE row.text # <<>>
    <2>1. SentArray \/ SentHStore
        BY <1>1, <1>3 DEF SentArray, SentHStore
    <2> QED
        BY <2>1, Zenon DEF ReadingInv, ArrayReading, HStoreReading
<1> QED
    BY <1>2, <1>3

(* Whatever tags are in the database, the builder gets these, tag by tag   *)
(* and in their order, from arrays and from hstores: for any number of     *)
(* tags and keys and values of any length and any characters, those the    *)
(* encodings give a meaning included. It rests on what the server sends,   *)
(* ServerAssumption; a NULL among the values is read as its driver reads   *)
(* it.                                                                     *)
THEOREM TagsAlwaysThoseSent == Spec => []TagsAreThoseSent
<1>1. ReadingInv => TagsAreThoseSent
    <2> SUFFICES ASSUME ReadingInv, row.valid, NEW i \in DOMAIN tags
                 PROVE  i \in DOMAIN row.sent /\ tags[i] = Sent[i]
        BY DEF TagsAreThoseSent
    <2>1. /\ tags \in Tags /\ row.sent \in Tags
        BY RowsAssumption DEF ReadingInv, IInv, TypeOK, PositionsSound, Tags
    <2>2. /\ Len(tags) \in Nat /\ DOMAIN tags = 1..Len(tags)
          /\ Len(row.sent) \in Nat /\ DOMAIN row.sent = 1..Len(row.sent)
        BY <2>1 DEF Tags
    <2>3. Len(tags) <= Len(row.sent) /\ tags[i] = Sent[i]
        BY <2>2, WhatIsSent DEF TagsRead
    <2> QED
        BY <2>2, <2>3
<1> QED
    BY <1>1, ReadingHolds, PTL

(* And none is lost: no text that the server sends for the tags of an      *)
(* object makes a parser throw or stop before its end, or fails an         *)
(* assertion.                                                              *)
THEOREM NoTagEverLost == Spec => []NoTagLost
<1>1. ReadingInv => NoTagLost
    BY WhatIsSent DEF NoTagLost
<1> QED
    BY <1>1, ReadingHolds, PTL
=============================================================================

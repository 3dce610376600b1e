---------------------------- MODULE ArrayParser ----------------------------
(***************************************************************************)
(* ArrayParser<StringConversion>, and tags_from_pg_string_array that calls *)
(* it: the tags of osm2pgsql are a text array with keys and values in      *)
(* turn. One step for each character; the wording of errors is left out.   *)
(***************************************************************************)
EXTENDS PostgresParser

VARIABLES
    start, end,     (* of the element in the text, as get_next has them    *)
    current_position_src, backslashes_before, result,
                    (* of remove_escape_sequences                          *)
    pos, key        (* of tags_from_pg_string_array                        *)

copying == <<current_position_src, backslashes_before, result>>
element == <<start, end, copying>>
pairing == <<pos, key>>

InitElement ==
    /\ start = 0 /\ end = 0 /\ pos = 0 /\ key = <<>>
    /\ current_position_src = 0 /\ backslashes_before = FALSE /\ result = <<>>

InitArrayUnchecked ==  \* mutant of InitArray
    /\ pc = "has_next"
    /\ m_current_position = 1 /\ m_parse_progress = "NONE"
    /\ InitElement

(* A NULL column comes as an empty string, for which no parser is made.    *)
InitArray ==
    /\ pc = IF m_string_repr = <<>> THEN "done" ELSE "has_next"
    /\ m_current_position = 1 /\ m_parse_progress = "NONE"
    /\ InitElement

(* The limit is unsigned: it is none for an empty text.                    *)
BeforeLimit == m_current_position < Unsigned(m_max_length - 1)

ArrayHasNext ==
    /\ pc = "has_next"
    /\ IF BeforeLimit /\ Char # RightBrace
       THEN /\ StartGetNext
            /\ start' = 0 /\ end' = 0
            /\ UNCHANGED <<m_current_position, copying>>
       ELSE pc' = "done" /\ UNCHANGED <<parser, element>>
    /\ UNCHANGED <<row, tags, pairing>>

(* Commas and blanks before an element are skipped.                        *)
BeginElement ==
    /\ InLoop /\ m_parse_progress = "NONE"
    /\ \/ /\ Char = Quote
          /\ quoted' = TRUE
          /\ start' = m_current_position + 1
          /\ m_parse_progress' = "ELEMENT"
       \/ /\ Char \notin {Quote, Comma, Blank}
          /\ start' = m_current_position
          /\ m_parse_progress' = "ELEMENT"
          /\ UNCHANGED quoted
       \/ Char \in {Comma, Blank} /\ UNCHANGED <<start, m_parse_progress, quoted>>
    /\ Advance
    /\ UNCHANGED <<row, pc, tags, backslash, end, copying, pairing>>

QuotedElementNoEscape ==  \* mutant of QuotedElement
    /\ InLoop /\ m_parse_progress = "ELEMENT" /\ quoted
    /\ \/ /\ Char = Quote
          /\ end' = m_current_position - 1
          /\ m_parse_progress' = "END"
       \/ Char # Quote /\ UNCHANGED <<end, m_parse_progress>>
    /\ Advance
    /\ UNCHANGED <<row, pc, tags, quoted, backslash, start, copying, pairing>>

QuotedElement ==
    /\ InLoop /\ m_parse_progress = "ELEMENT" /\ quoted
    /\ \/ /\ backslash /\ Char \in Escapable
          /\ backslash' = FALSE
          /\ UNCHANGED <<pc, end, m_parse_progress>>
       \/ /\ backslash /\ Char \notin Escapable
          /\ Throw
          /\ UNCHANGED <<backslash, end, m_parse_progress>>
       \/ /\ ~backslash /\ Char = "\\"
          /\ backslash' = TRUE
          /\ UNCHANGED <<pc, end, m_parse_progress>>
       \/ /\ ~backslash /\ Char = Quote
          /\ end' = m_current_position - 1
          /\ m_parse_progress' = "END"
          /\ UNCHANGED <<pc, backslash>>
       \/ /\ ~backslash /\ Char \notin Escapable
          /\ UNCHANGED <<pc, backslash, end, m_parse_progress>>
    /\ Advance
    /\ UNCHANGED <<row, tags, quoted, start, copying, pairing>>

(* After a blank the parser goes on to the comma; 0 means that there was   *)
(* none.                                                                   *)
UnquotedElement ==
    /\ InLoop /\ m_parse_progress = "ELEMENT" /\ ~quoted
    /\ m_parse_progress' = IF Char \in {Comma, RightBrace} THEN "END" ELSE m_parse_progress
    /\ end' = IF Char = Blank \/ (Char \in {Comma, RightBrace} /\ end = 0)
              THEN m_current_position - 1 ELSE end
    /\ Advance
    /\ UNCHANGED <<row, pc, tags, quoted, backslash, start, copying, pairing>>

(* remove_escape_sequences: the text from start to end is copied without   *)
(* its escaping backslashes.                                               *)
BeginCopy ==
    /\ pc = "get_next" /\ ~InLoop
    /\ pc' = "remove_escape_sequences"
    /\ current_position_src' = start /\ backslashes_before' = FALSE /\ result' = <<>>
    /\ UNCHANGED <<row, tags, parser, start, end, pairing>>

CopyChar ==
    /\ pc = "remove_escape_sequences" /\ current_position_src <= end
    /\ LET char == CharAt(current_position_src)
       IN  \/ /\ backslashes_before \/ char # "\\"
              /\ backslashes_before => char \in Escapable
              /\ result' = Append(result, char) /\ backslashes_before' = FALSE
              /\ UNCHANGED pc
           \/ /\ backslashes_before /\ char \notin Escapable
              /\ Throw
              /\ UNCHANGED <<backslashes_before, result>>
           \/ /\ ~backslashes_before /\ char = "\\"
              /\ backslashes_before' = TRUE
              /\ UNCHANGED <<pc, result>>
    /\ current_position_src' = current_position_src + 1
    /\ UNCHANGED <<row, tags, parser, start, end, pairing>>

(* return_null_value and to_output_format of StringConversion.             *)
to_output_format(string) ==
    IF ~quoted /\ string = NullWord THEN <<>> ELSE string

(* The first element of two is a key, the second one its value.            *)
AddItem(item) ==
    /\ pos' = pos + 1
    /\ IF pos % 2 = 0
       THEN key' = item /\ UNCHANGED tags
       ELSE tags' = Append(tags, <<key, item>>) /\ UNCHANGED key

(* The end of get_next.                                                    *)
ReturnElement ==
    /\ pc = "remove_escape_sequences" /\ current_position_src > end
    /\ pc' = "has_next"
    /\ AddItem(to_output_format(result))
    /\ UNCHANGED <<row, parser, element>>

ArrayNext ==
    \/ ArrayHasNext \/ BeginElement \/ QuotedElement \/ UnquotedElement
    \/ BeginCopy \/ CopyChar \/ ReturnElement
=============================================================================

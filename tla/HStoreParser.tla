---------------------------- MODULE HStoreParser ----------------------------
(***************************************************************************)
(* HStoreParser, and OSMVectorTileImpl::add_tags that calls it: the tags   *)
(* of Cerepso are an hstore. One step for each character; the wording of   *)
(* errors is left out.                                                     *)
(***************************************************************************)
EXTENDS PostgresParser

VARIABLES m_key_buffer, m_value_buffer

buffers == <<m_key_buffer, m_value_buffer>>

MIN_KV_PAIR_LENGTH == 7

InitHStore ==
    /\ pc = "has_next"
    /\ m_current_position = 0 /\ m_parse_progress = "NONE"
    /\ m_key_buffer = <<>> /\ m_value_buffer = <<>>

(* Nothing shorter than "k"=>"v" is expected. The difference is unsigned.  *)
PairExpectedOneLess ==  \* mutant of PairExpected
    /\ m_current_position < Unsigned(m_max_length - MIN_KV_PAIR_LENGTH)
    /\ m_current_position < m_max_length

PairExpected ==
    /\ m_current_position <= Unsigned(m_max_length - MIN_KV_PAIR_LENGTH)
    /\ m_current_position < m_max_length

HStoreHasNext ==
    /\ pc = "has_next"
    /\ \/ PairExpected /\ StartGetNext /\ m_key_buffer' = <<>> /\ m_value_buffer' = <<>>
       \/ ~PairExpected /\ pc' = "done" /\ UNCHANGED <<m_parse_progress, quoted, backslash, buffers>>
    /\ UNCHANGED <<row, tags, m_current_position>>

(* operator++ of HStoreParts.                                              *)
Successor(progress) ==
    CASE progress = "NONE" -> "KEY"
      [] progress = "KEY" -> "SEPARATOR"
      [] progress = "SEPARATOR" -> "VALUE"
      [] progress = "VALUE" -> "END"

increase_parse_progress == m_parse_progress' = Successor(m_parse_progress)

add_to_key_or_value(progress, character) ==
    /\ m_key_buffer' = IF progress = "KEY" THEN Append(m_key_buffer, character) ELSE m_key_buffer
    /\ m_value_buffer' =
        IF progress = "VALUE" THEN Append(m_value_buffer, character) ELSE m_value_buffer

InKeyOrValue == m_parse_progress \in {"KEY", "VALUE"}

(* Adding to anything else fails an assertion.                             *)
EscapedChar ==
    /\ InLoop /\ backslash
    /\ \/ /\ Char \in Escapable /\ InKeyOrValue
          /\ add_to_key_or_value(m_parse_progress, Char)
          /\ backslash' = FALSE
          /\ UNCHANGED pc
       \/ /\ Char \notin Escapable \/ ~InKeyOrValue
          /\ Throw
          /\ UNCHANGED <<buffers, backslash>>
    /\ Advance
    /\ UNCHANGED <<row, tags, m_parse_progress, quoted>>

Backslash ==
    /\ InLoop /\ ~backslash /\ Char = "\\"
    /\ backslash' = TRUE
    /\ Advance
    /\ UNCHANGED <<row, pc, tags, m_parse_progress, quoted, buffers>>

EqualsSign ==
    /\ InLoop /\ ~backslash /\ Char = "="
    /\ \/ /\ quoted /\ InKeyOrValue
          /\ add_to_key_or_value(m_parse_progress, Char)
          /\ UNCHANGED <<pc, m_parse_progress>>
       \/ /\ ~quoted /\ m_parse_progress = "KEY"
          /\ increase_parse_progress
          /\ UNCHANGED <<pc, buffers>>
       \/ /\ m_parse_progress = "NONE" \/ (~quoted /\ m_parse_progress = "VALUE")
          /\ Throw
          /\ UNCHANGED <<m_parse_progress, buffers>>
       \/ /\ m_parse_progress = "SEPARATOR"
          /\ UNCHANGED <<pc, m_parse_progress, buffers>>
    /\ Advance
    /\ UNCHANGED <<row, tags, quoted, backslash>>

GreaterSign ==
    /\ InLoop /\ ~backslash /\ Char = ">"
    /\ \/ /\ quoted /\ InKeyOrValue
          /\ add_to_key_or_value(m_parse_progress, Char)
          /\ UNCHANGED pc
       \/ /\ m_parse_progress = "NONE" \/ (~quoted /\ InKeyOrValue)
          /\ Throw
          /\ UNCHANGED buffers
       \/ m_parse_progress = "SEPARATOR" /\ UNCHANGED <<pc, buffers>>
    /\ Advance
    /\ UNCHANGED <<row, tags, m_parse_progress, quoted, backslash>>

QuotationMark ==
    /\ InLoop /\ ~backslash /\ Char = Quote
    /\ \/ m_parse_progress \in {"NONE", "SEPARATOR"} /\ quoted' = TRUE
       \/ InKeyOrValue /\ quoted' = FALSE
    /\ increase_parse_progress
    /\ Advance
    /\ UNCHANGED <<row, pc, tags, backslash, buffers>>

BlankOrCommaStays ==  \* mutant of BlankOrComma
    /\ InLoop /\ ~backslash /\ Char \in {Blank, Comma}
    /\ \/ /\ InKeyOrValue /\ quoted
          /\ add_to_key_or_value(m_parse_progress, Char)
          /\ Advance
          /\ UNCHANGED m_parse_progress
       \/ /\ InKeyOrValue /\ ~quoted
          /\ increase_parse_progress
          /\ Advance
          /\ UNCHANGED buffers
       \/ ~InKeyOrValue /\ UNCHANGED <<m_current_position, m_parse_progress, buffers>>
    /\ UNCHANGED <<row, pc, tags, quoted, backslash>>

(* Between key and value, and between two pairs, they are skipped.         *)
BlankOrComma ==
    /\ InLoop /\ ~backslash /\ Char \in {Blank, Comma}
    /\ \/ /\ InKeyOrValue /\ quoted
          /\ add_to_key_or_value(m_parse_progress, Char)
          /\ UNCHANGED m_parse_progress
       \/ /\ InKeyOrValue /\ ~quoted
          /\ increase_parse_progress
          /\ UNCHANGED buffers
       \/ ~InKeyOrValue /\ UNCHANGED <<m_parse_progress, buffers>>
    /\ Advance
    /\ UNCHANGED <<row, pc, tags, quoted, backslash>>

OtherChar ==
    /\ InLoop /\ ~backslash /\ Char \notin {"\\", "=", ">", Quote, Blank, Comma}
    /\ \/ /\ InKeyOrValue
          /\ add_to_key_or_value(m_parse_progress, Char)
          /\ UNCHANGED m_parse_progress
       \/ /\ ~InKeyOrValue
          /\ increase_parse_progress
          /\ add_to_key_or_value(m_parse_progress', Char)
    /\ Advance
    /\ UNCHANGED <<row, pc, tags, quoted, backslash>>

(* The end of get_next, and add_tag with what it returns.                  *)
ReturnPair ==
    /\ pc = "get_next" /\ ~InLoop
    /\ tags' = Append(tags, <<m_key_buffer, m_value_buffer>>)
    /\ pc' = "has_next"
    /\ UNCHANGED <<row, parser, buffers>>

HStoreNext ==
    \/ HStoreHasNext \/ EscapedChar \/ Backslash \/ EqualsSign \/ GreaterSign
    \/ QuotationMark \/ BlankOrComma \/ OtherChar \/ ReturnPair
=============================================================================

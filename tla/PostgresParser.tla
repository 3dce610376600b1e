--------------------------- MODULE PostgresParser ---------------------------
(***************************************************************************)
(* What the parsers of pg_array_hstore_parser have in common: a text the   *)
(* server has sent for the tags of an object, the position in it, and the  *)
(* tags read so far. Texts are sequences of characters; the program counts *)
(* them from 0.                                                            *)
(***************************************************************************)
EXTENDS Integers, Sequences, PgText

CONSTANTS
    Rows,       (* rows with tags: the input driver, whether the text is   *)
                (* one the server sends, the tags in the database, the     *)
                (* text, and where their keys and values start in it       *)
    SizeMax     (* the values of size_t are 0..(SizeMax - 1)               *)

ASSUME RowsAssumption ==
    \A r \in Rows :
        /\ r.driver \in {"cerepso", "osm2pgsql"} /\ r.valid \in BOOLEAN
        /\ r.text \in Seq(STRING)
        /\ Len(r.text) < SizeMax
        /\ r.sent \in Seq(Seq(STRING) \X Seq(STRING))
        /\ r.starts \in Seq(Nat \X Nat) /\ Len(r.starts) = Len(r.sent) + 1

(* A column that is NULL, or an hstore without tags, comes as an empty     *)
(* text; no key is NULL.                                                   *)
ASSUME ServerAssumption ==
    \A r \in Rows : r.valid =>
        /\ \/ r.text = <<>> /\ r.sent = <<>>
           \/ r.driver = "osm2pgsql" /\ IsArrayText(r.text, r.sent, r.starts)
           \/ r.driver = "cerepso" /\ IsHStoreText(r.text, r.sent, r.starts)
        /\ \A i \in DOMAIN r.sent : r.sent[i][1] # Null

ASSUME SizeAssumption == SizeMax \in Nat

VARIABLES
    row, pc, tags,
    m_current_position, m_parse_progress,
    quoted,         (* quoted_element, quoted_string                       *)
    backslash       (* backslashes_before, accumulated_backslashes         *)

parser == <<m_current_position, m_parse_progress, quoted, backslash>>

m_string_repr == row.text
m_max_length == Len(m_string_repr)

Unsigned(n) == IF n < 0 THEN n + SizeMax ELSE n

(* m_string_repr.at(i), if there is such a character.                      *)
HasChar(i) == i \in 0..(m_max_length - 1)
CharAt(i) == m_string_repr[i + 1]
Char == CharAt(m_current_position)

InitParser ==
    /\ row \in Rows
    /\ tags = <<>>
    /\ quoted = FALSE /\ backslash = FALSE

StartGetNext ==
    /\ pc' = "get_next"
    /\ m_parse_progress' = "NONE"
    /\ quoted' = FALSE /\ backslash' = FALSE

(* The condition of the loop of both get_next functions.                   *)
InLoop ==
    /\ pc = "get_next"
    /\ m_current_position < m_max_length
    /\ m_parse_progress # "END"

Advance == m_current_position' = m_current_position + 1

(* An exception or a failed assertion: nobody catches it.                  *)
Throw == pc' = "throw"

(* The type invariant of the common part.                                  *)
ParserTypeOK ==
    /\ pc \in {"has_next", "get_next", "remove_escape_sequences", "done", "throw"}
    /\ m_current_position \in Nat /\ m_current_position <= m_max_length + 1
    /\ quoted \in BOOLEAN /\ backslash \in BOOLEAN
=============================================================================

------------------------------ MODULE TagColumn ------------------------------
(***************************************************************************)
(* The tags of an object on their way from a row of the database to the    *)
(* tile: whichever driver and whichever of the two encodings it uses, the  *)
(* builder gets the tags that are in the database.                         *)
(***************************************************************************)
EXTENDS ArrayParser, HStoreParser

vars == <<row, pc, tags, parser, element, pairing, buffers>>

InitOsm2pgsql == row.driver = "osm2pgsql" /\ InitArray /\ m_key_buffer = <<>> /\ m_value_buffer = <<>>

InitCerepso == row.driver = "cerepso" /\ InitHStore /\ InitElement

Init == InitParser /\ (InitOsm2pgsql \/ InitCerepso)

Next ==
    \/ row.driver = "osm2pgsql" /\ ArrayNext /\ UNCHANGED buffers
    \/ row.driver = "cerepso" /\ HStoreNext /\ UNCHANGED <<element, pairing>>

(* The calls are made in a loop that nothing interrupts.                   *)
Spec == Init /\ [][Next]_vars /\ WF_vars(Next)

-----------------------------------------------------------------------------
TypeOK ==
    /\ ParserTypeOK
    /\ m_parse_progress \in {"NONE", "ELEMENT", "KEY", "SEPARATOR", "VALUE", "END"}
    /\ start \in Nat /\ start <= m_max_length
    /\ end \in Nat /\ (end = 0 \/ end < m_max_length)
    /\ current_position_src \in Nat /\ backslashes_before \in BOOLEAN /\ result \in Seq(STRING)
    /\ pos \in Nat /\ key \in Seq(STRING)
    /\ tags \in Seq(Seq(STRING) \X Seq(STRING))
    /\ m_key_buffer \in Seq(STRING) /\ m_value_buffer \in Seq(STRING)

(* has_next and remove_escape_sequences, which are called outside of the   *)
(* loop over the text, read no character before or after it, nor is more   *)
(* written into the result than was reserved: whatever the text is, a      *)
(* valid array, the empty text of a NULL or anything else.                 *)
NeverOutOfRange ==
    row.driver = "osm2pgsql" =>
        /\ pc = "has_next" /\ BeforeLimit => HasChar(m_current_position)
        /\ pc = "remove_escape_sequences" /\ current_position_src <= end =>
            HasChar(current_position_src) /\ Len(result) <= end - start

(* The tags of the row in its driver's reading: a value that is NULL is    *)
(* empty in an array, and the word in an hstore.                           *)
Sent ==
    [i \in DOMAIN row.sent |->
        <<row.sent[i][1],
          IF row.sent[i][2] # Null THEN row.sent[i][2]
          ELSE IF row.driver = "osm2pgsql" THEN <<>> ELSE NullWord>>]

(* Tag by tag the builder gets what is in the database: keys and values    *)
(* are never taken for each other, split, joined or cut off, ...           *)
TagsAreThoseSent ==
    row.valid => \A i \in DOMAIN tags : i \in DOMAIN row.sent /\ tags[i] = Sent[i]

(* ... and in the end none is missing: what the server sends is never      *)
(* rejected as invalid, and the parser does not stop before its end.       *)
NoTagLost ==
    row.valid => pc # "throw" /\ (pc = "done" => Len(tags) = Len(row.sent))

(* Every text comes to an end: no parser stands still at a character.      *)
ParsingEnds == <>(pc \in {"done", "throw"})
=============================================================================

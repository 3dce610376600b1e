----------------------------- MODULE MCTagColumn -----------------------------
(***************************************************************************)
(* Up to two tags. Alone they have keys and values of up to two characters *)
(* from all that are special to one of the encodings, and the word NULL;   *)
(* two of them have up to one. A column may be NULL. And all texts of up   *)
(* to three characters that no server sends.                                *)
(***************************************************************************)
EXTENDS TagColumn, SequencesExt

Characters == {"a", "\"", "\\", ",", "=", ">", " ", "}"}
Words(n) == UNION {[1..l -> Characters] : l \in 0..n}
Keys == Words(2) \union {NullWord}
ShortKeys == Words(1)
Values(keys) == keys \union {Null}

TagLists ==
    {<<>>}
    \union {<<<<k, v>>>> : k \in Keys, v \in Values(ShortKeys) \union {NullWord}}
    \union {<<<<k, v>>>> : k \in ShortKeys, v \in Values(Keys)}
    \union {<<<<k, v>>, <<l, w>>>> :
                k \in ShortKeys, v \in Values({<<>>, <<"a">>, <<"\\">>}),
                l \in ShortKeys, w \in Values({<<>>, <<"a">>, <<"\"">>})}

(* The texts of a server that quotes only where it has to.                 *)
Quoted(string) ==
    <<"\"">> \o FlattenSeq([i \in DOMAIN string |->
                    IF string[i] \in Escapable THEN <<"\\", string[i]>> ELSE <<string[i]>>])
             \o <<"\"">>

ArrayItem(item) ==
    IF item = Null THEN NullWord ELSE IF NeedsQuotes(item) THEN Quoted(item) ELSE item

HStoreValue(value) == IF value = Null THEN NullWord ELSE Quoted(value)

(* A text of pairs, each a key, what follows it, a value and what follows  *)
(* that; the first key starts behind the opening brace or at once.         *)
Written(open, pairs, Key(_), between, Value(_), behind, close) ==
    LET AddPair(w, pair) ==
            LET value == w.next + Len(Key(pair[1]) \o between)
                next == value + Len(Value(pair[2]) \o behind)
            IN  [ text |-> w.text \o Key(pair[1]) \o between \o Value(pair[2]) \o behind,
                  starts |-> Append(w.starts, <<w.next, value>>), next |-> next ]
        all == FoldLeft(AddPair, [text |-> open, starts |-> <<>>, next |-> Len(open)], pairs)
        text == SubSeq(all.text, 1, Len(all.text) - Len(behind)) \o close
    IN  IF pairs = <<>> THEN [text |-> open \o close, starts |-> <<<<2, 2>>>>]
        ELSE [text |-> text, starts |-> Append(all.starts, <<all.next, all.next>>)]

Row(driver, sent, w) ==
    [driver |-> driver, valid |-> TRUE, sent |-> sent, text |-> w.text, starts |-> w.starts]

MCRows ==
    {Row("osm2pgsql", l, Written(<<"{">>, l, ArrayItem, <<",">>, ArrayItem, <<",">>, <<"}">>)) :
        l \in TagLists}
    \union {Row("cerepso", l,
                Written(<<>>, l, Quoted, <<"=", ">">>, HStoreValue, <<",", " ">>, <<>>)) :
                l \in TagLists}
    \union {Row(d, <<>>, [text |-> <<>>, starts |-> <<<<0, 0>>>>]) : d \in {"cerepso", "osm2pgsql"}}
    \union {[driver |-> d, valid |-> FALSE, sent |-> <<>>, text |-> t, starts |-> <<<<0, 0>>>>] :
                d \in {"cerepso", "osm2pgsql"}, t \in Words(3) \ {<<>>}}
=============================================================================

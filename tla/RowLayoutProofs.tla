-------------------------- MODULE RowLayoutProofs --------------------------
(***************************************************************************)
(* Whatever the style file and the metadata fields: the parsers read the   *)
(* values of a row at the offsets of the columns its statement selects,    *)
(* and the statement selects columns its table has. And these columns are  *)
(* those the style file asks for.                                          *)
(***************************************************************************)
EXTENDS RowLayout, FiniteSetTheorems, WellFoundedInduction, TLAPS

(* The columns a statement selects.                                        *)
SelectedBy(s) == IF s \in MemberStatements THEN SelectMembers(s) ELSE SelectObjects(s)

(* Columns are only looked at by their number and names.                   *)
AreColumns(cols) == \E C : cols \in Seq(C)

LayoutInv ==
    /\ metadata \in SUBSET Fields /\ m_untagged_nodes_geom \in BOOLEAN
    /\ AreColumns(m_point_columns) /\ AreColumns(m_line_columns)
    /\ statement \in Statements \union {""}
    /\ statement # "" => pc = "parsed" /\ row = SelectedBy(statement)
    /\ object.parsed => row # <<>>
    /\ row # <<>> => statement # ""

-----------------------------------------------------------------------------
(***************************************************************************)
(* Sequences.                                                              *)
(***************************************************************************)

(* The elements of one sequence behind another.                            *)
LEMMA Joined ==
    ASSUME NEW S, NEW a \in Seq(S), NEW b \in Seq(S)
    PROVE  /\ a \o b \in Seq(S) /\ Len(a \o b) = Len(a) + Len(b)
           /\ Len(a) \in Nat /\ Len(b) \in Nat
           /\ \A i \in 1..Len(a) : (a \o b)[i] = a[i]
           /\ \A i \in 1..Len(b) : (a \o b)[Len(a) + i] = b[i]
  OBVIOUS

(* Nothing, one thing and two things.                                      *)
LEMMA Short ==
    ASSUME NEW S, NEW a \in S, NEW b \in S
    PROVE  /\ <<>> \in Seq(S) /\ Len(<<>>) = 0
           /\ <<a>> \in Seq(S) /\ Len(<<a>>) = 1 /\ <<a>>[1] = a
           /\ <<a, b>> \in Seq(S) /\ Len(<<a, b>>) = 2 /\ <<a, b>>[1] = a /\ <<a, b>>[2] = b
  OBVIOUS

(* Two things and three.                                                   *)
LEMMA TwoThings ==
    ASSUME NEW s, NEW a, NEW b, s = <<a, b>>
    PROVE  Len(s) = 2 /\ s[1] = a /\ s[2] = b
  OBVIOUS

(* A sequence of three things, one by one.                                 *)
LEMMA ThreeThings ==
    ASSUME NEW s, NEW a, NEW b, NEW c, s = <<a, b, c>>
    PROVE  Len(s) = 3 /\ s[1] = a /\ s[2] = b /\ s[3] = c
  OBVIOUS

(* Two sequences of one thing each.                                        *)
LEMMA OneWordMore ==
    ASSUME NEW a, NEW b
    PROVE  <<a>> \o <<b>> = <<a, b>>
  <1> DEFINE S == {a, b}
             s == <<a>> \o <<b>>
             t == <<a, b>>
  <1>1. <<a>> \in Seq(S) /\ <<b>> \in Seq(S) /\ Len(<<a>>) = 1 /\ Len(<<b>>) = 1
            /\ <<a>>[1] = a /\ <<b>>[1] = b
    BY Short
  <1>2. s \in Seq(S) /\ Len(s) = 2 /\ s[1] = a /\ s[2] = b
    <2>1. s \in Seq(S) /\ Len(s) = Len(<<a>>) + Len(<<b>>)
      BY <1>1, Joined
    <2>2. s[1] = <<a>>[1] /\ s[Len(<<a>>) + 1] = <<b>>[1]
      BY <1>1, Joined
    <2> QED
      BY <1>1, <2>1, <2>2
  <1>3. t \in Seq(S) /\ Len(t) = 2 /\ t[1] = a /\ t[2] = b
    BY Short
  <1> HIDE DEF s, t, S
  <1>4. \A i \in 1..2 : s[i] = t[i]
    BY <1>2, <1>3
  <1>5. s = t
    BY <1>2, <1>3, <1>4
  <1> QED
    BY <1>5 DEF s, t

(* A sequence of some things is one of more.                               *)
LEMMA Wider ==
    ASSUME NEW S, NEW T, S \subseteq T, NEW a \in Seq(S)
    PROVE  a \in Seq(T)
  OBVIOUS

(* One more column leaves columns.                                         *)
LEMMA OneColumnMore ==
    ASSUME NEW cols, AreColumns(cols), NEW c
    PROVE  AreColumns(Append(cols, c))
  <1>1. PICK C : cols \in Seq(C)
    BY DEF AreColumns
  <1>2. cols \in Seq(C \union {c})
    BY <1>1
  <1>3. Append(cols, c) \in Seq(C \union {c})
    BY <1>2
  <1> QED
    BY <1>3 DEF AreColumns

(* The names of columns.                                                   *)
LEMMA NamesOfColumns ==
    ASSUME NEW cols, AreColumns(cols)
    PROVE  /\ Len(Names(cols)) = Len(cols) /\ Len(cols) \in Nat
           /\ DOMAIN cols = 1..Len(cols) /\ DOMAIN Names(cols) = 1..Len(cols)
           /\ \A k \in 1..Len(cols) : Names(cols)[k] = cols[k].name
           /\ Names(cols) \in Seq({cols[k].name : k \in DOMAIN cols})
           /\ ToSet(Names(cols)) = {cols[k].name : k \in DOMAIN cols}
  <1>1. PICK C : cols \in Seq(C)
    BY DEF AreColumns
  <1>2. Len(cols) \in Nat /\ DOMAIN cols = 1..Len(cols)
    BY <1>1
  <1>3. Names(cols) \in Seq({cols[k].name : k \in DOMAIN cols})
    BY <1>2 DEF Names
  <1>4. DOMAIN Names(cols) = 1..Len(cols) /\ \A k \in 1..Len(cols) : Names(cols)[k] = cols[k].name
    BY <1>2 DEF Names
  <1>5. Len(Names(cols)) = Len(cols)
    BY <1>2, <1>3, <1>4
  <1>6. ToSet(Names(cols)) = {cols[k].name : k \in DOMAIN cols}
    BY <1>2, <1>4 DEF ToSet
  <1> QED
    BY <1>2, <1>3, <1>4, <1>5, <1>6

-----------------------------------------------------------------------------
(***************************************************************************)
(* The metadata fields.                                                    *)
(***************************************************************************)

(* The selected of the fields in K, in some order.                         *)
Covers(s, K) ==
    /\ s \in Seq(K \intersect metadata)
    /\ \A f \in K \intersect metadata : \E i \in 1..Len(s) : s[i] = f

(* A field is asked about.                                                 *)
LEMMA FieldTaken ==
    ASSUME NEW K, NEW s, Covers(s, K), NEW f
    PROVE  Covers(s \o (IF f \in metadata THEN <<f>> ELSE <<>>), K \union {f})
  <1> DEFINE L == K \union {f}
  <1>1. s \in Seq(L \intersect metadata)
    BY DEF Covers
  <1>2. CASE f \notin metadata
    <2>1. s \o <<>> = s
      BY <1>1
    <2>2. L \intersect metadata = K \intersect metadata
      BY <1>2
    <2> QED
      BY <1>2, <2>1, <2>2 DEF Covers
  <1>3. CASE f \in metadata
    <2>1. <<f>> \in Seq(L \intersect metadata) /\ Len(<<f>>) = 1 /\ <<f>>[1] = f
      BY <1>3
    <2>2. /\ s \o <<f>> \in Seq(L \intersect metadata)
          /\ Len(s \o <<f>>) = Len(s) + 1 /\ Len(s) \in Nat
          /\ \A i \in 1..Len(s) : (s \o <<f>>)[i] = s[i]
          /\ (s \o <<f>>)[Len(s) + 1] = f
      BY <1>1, <2>1, Joined
    <2>3. \A g \in L \intersect metadata : \E i \in 1..(Len(s) + 1) : (s \o <<f>>)[i] = g
      BY <2>2 DEF Covers
    <2> QED
      BY <1>3, <2>2, <2>3 DEF Covers
  <1> QED
    BY <1>2, <1>3

(* The list of the fields has all that are asked for.                      *)
LEMMA FieldsSelected ==
    ASSUME metadata \in SUBSET Fields
    PROVE  /\ SelectedFields \in Seq(Fields) /\ count \in Nat
           /\ \A i \in 1..count : SelectedFields[i] \in metadata
           /\ \A f \in metadata : \E i \in 1..count : SelectedFields[i] = f
  <1> DEFINE Selected(f) == IF f \in metadata THEN <<f>> ELSE <<>>
             s2 == Selected("osm_user") \o Selected("osm_uid")
             s3 == s2 \o Selected("osm_version")
             s4 == s3 \o Selected("osm_lastmodified")
             s5 == s4 \o Selected("osm_changeset")
  <1>1. Covers(Selected("osm_user"), {"osm_user"})
    <2>1. CASE "osm_user" \in metadata
      <3>1. <<"osm_user">> \in Seq({"osm_user"} \intersect metadata)
              /\ Len(<<"osm_user">>) = 1 /\ <<"osm_user">>[1] = "osm_user"
        BY <2>1
      <3>2. Covers(<<"osm_user">>, {"osm_user"})
        BY <3>1 DEF Covers
      <3> QED
        BY <2>1, <3>2
    <2>2. CASE "osm_user" \notin metadata
      <3>1. <<>> \in Seq({"osm_user"} \intersect metadata)
              /\ {"osm_user"} \intersect metadata = {}
        BY <2>2
      <3>2. Covers(<<>>, {"osm_user"})
        BY <3>1 DEF Covers
      <3> QED
        BY <2>2, <3>2
    <2> QED
      BY <2>1, <2>2
  <1>2. Covers(s2, {"osm_user"} \union {"osm_uid"})
    <2> HIDE DEF Covers
    <2> QED
      BY <1>1, FieldTaken
  <1> HIDE DEF s2
  <1>3. Covers(s3, ({"osm_user"} \union {"osm_uid"}) \union {"osm_version"})
    BY <1>2, FieldTaken
  <1> HIDE DEF s3
  <1>4. Covers(s4, (({"osm_user"} \union {"osm_uid"}) \union {"osm_version"})
                    \union {"osm_lastmodified"})
    BY <1>3, FieldTaken
  <1> HIDE DEF s4
  <1>5. Covers(s5, Fields)
    <2>1. Covers(s5, ((({"osm_user"} \union {"osm_uid"}) \union {"osm_version"})
                        \union {"osm_lastmodified"}) \union {"osm_changeset"})
      BY <1>4, FieldTaken
    <2>2. ((({"osm_user"} \union {"osm_uid"}) \union {"osm_version"})
            \union {"osm_lastmodified"}) \union {"osm_changeset"} = Fields
      BY DEF Fields
    <2> QED
      BY <2>1, <2>2
  <1>6. SelectedFields = s5
    BY DEF SelectedFields, s4, s3, s2
  <1>7. SelectedFields \in Seq(Fields) /\ count \in Nat
    BY <1>5, <1>6 DEF Covers, count
  <1>8. /\ \A f \in metadata : \E i \in 1..count : SelectedFields[i] = f
        /\ \A i \in 1..count : SelectedFields[i] \in metadata
    <2>1. Fields \intersect metadata = metadata
      OBVIOUS
    <2>2. s5 \in Seq(metadata) /\ \A f \in metadata : \E i \in 1..Len(s5) : s5[i] = f
      BY <1>5, <2>1 DEF Covers
    <2> HIDE DEF s5
    <2>3. \A i \in 1..Len(s5) : s5[i] \in metadata
      BY <2>2
    <2> QED
      BY <1>6, <2>2, <2>3 DEF count
  <1> QED
    BY <1>7, <1>8

-----------------------------------------------------------------------------
(***************************************************************************)
(* A row.                                                                  *)
(***************************************************************************)

(* The parts of a selected row of objects.                                 *)
MetadataPart == [k \in DOMAIN SelectedFields |-> <<SelectedFields[k]>>]
IdPart(s) == IF s \in ById THEN <<>> ELSE << <<"osm_id">> >>
TagsPart(s) == IF s = Without THEN <<>> ELSE << <<"tags">> >>
LocationPart(s) == IF s \in NodeStatements THEN LocationColumns(s) ELSE <<>>
StylePart(s) == IF s \in NodeStatements \ {Without} THEN Names(m_point_columns) ELSE <<>>

(* Where the parts are; places count from 1, those of PQgetvalue from 0.   *)
LEMMA RowOfObjects ==
    ASSUME LayoutInv, NEW s \in Statements
    PROVE  LET r == SelectObjects(s)
               id == IF s \in ById THEN count ELSE count + 1
               tag == IF s = Without THEN id ELSE id + 1
               place == IF s \in NodeStatements THEN tag + 2 ELSE tag
               names == Len(m_point_columns)
           IN  /\ count \in Nat /\ names \in Nat
               /\ Len(r) = IF s \in NodeStatements \ {Without} THEN place + names ELSE place
               /\ DOMAIN r = 1..Len(r)
               /\ \A k \in 1..count : r[k] = <<SelectedFields[k]>>
               /\ s \notin ById => r[id] = <<"osm_id">>
               /\ s # Without => r[tag] = <<"tags">>
               /\ s \in NodeStatements => r[tag + 1] = LocationColumns(s)[1]
               /\ s \in NodeStatements => r[tag + 2] = LocationColumns(s)[2]
               /\ s \in NodeStatements \ {Without} =>
                    \A j \in 1..names : r[place + j] = m_point_columns[j].name
  <1> DEFINE M == MetadataPart
             I == IdPart(s)
             T == TagsPart(s)
             L == LocationPart(s)
             N == StylePart(s)
             U == {<<f>> : f \in Fields} \union {<<"osm_id">>, <<"tags">>}
                    \union {LocationColumns(s)[1], LocationColumns(s)[2]}
                    \union {m_point_columns[k].name : k \in DOMAIN m_point_columns}
  <1>1. SelectObjects(s) = (((M \o I) \o T) \o L) \o N
    BY DEF SelectObjects, MetadataPart, IdPart, TagsPart, LocationPart, StylePart
  <1>2. /\ SelectedFields \in Seq(Fields) /\ count \in Nat /\ DOMAIN SelectedFields = 1..count
    <2>1. SelectedFields \in Seq(Fields) /\ count \in Nat
      BY FieldsSelected DEF LayoutInv
    <2> QED
      BY <2>1 DEF count
  <1>3. /\ M \in Seq(U) /\ Len(M) = count /\ \A k \in 1..count : M[k] = <<SelectedFields[k]>>
    BY <1>2 DEF MetadataPart
  <1> DEFINE l1 == LocationColumns(s)[1]
             l2 == LocationColumns(s)[2]
  <1>18. /\ <<"osm_id">> \in U /\ <<"tags">> \in U /\ l1 \in U /\ l2 \in U
         /\ LocationColumns(s) = <<l1, l2>>
    BY DEF LocationColumns
  <1>4. /\ I \in Seq(U) /\ (s \in ById => Len(I) = 0)
        /\ (s \notin ById => Len(I) = 1 /\ I[1] = <<"osm_id">>)
    <2> HIDE DEF U
    <2> QED
      BY <1>18, Short DEF IdPart
  <1>5. /\ T \in Seq(U) /\ (s = Without => Len(T) = 0)
        /\ (s # Without => Len(T) = 1 /\ T[1] = <<"tags">>)
    <2> HIDE DEF U
    <2> QED
      BY <1>18, Short DEF TagsPart
  <1>6. /\ L \in Seq(U) /\ (s \notin NodeStatements => Len(L) = 0)
        /\ s \in NodeStatements => Len(L) = 2 /\ L[1] = l1 /\ L[2] = l2
    <2> HIDE DEF U, l1, l2
    <2> QED
      BY <1>18, Short DEF LocationPart
  <1>7. /\ Len(m_point_columns) \in Nat
        /\ N \in Seq(U) /\ (s \notin NodeStatements \ {Without} => Len(N) = 0)
        /\ s \in NodeStatements \ {Without} =>
            /\ Len(N) = Len(m_point_columns)
            /\ \A j \in 1..Len(m_point_columns) : N[j] = m_point_columns[j].name
    <2>1. /\ Names(m_point_columns) \in Seq(U) /\ Len(Names(m_point_columns)) = Len(m_point_columns)
          /\ Len(m_point_columns) \in Nat
          /\ \A k \in 1..Len(m_point_columns) : Names(m_point_columns)[k] = m_point_columns[k].name
      <3> DEFINE V == {m_point_columns[k].name : k \in DOMAIN m_point_columns}
      <3>1. V \subseteq U
        OBVIOUS
      <3>2. Names(m_point_columns) \in Seq(V)
        BY NamesOfColumns DEF LayoutInv
      <3> HIDE DEF U, V
      <3>3. Names(m_point_columns) \in Seq(U)
        BY <3>1, <3>2, Wider
      <3> QED
        BY <3>3, NamesOfColumns DEF LayoutInv
    <2> HIDE DEF U
    <2>2. <<>> \in Seq(U) /\ Len(<<>>) = 0
      OBVIOUS
    <2> QED
      BY <2>1, <2>2 DEF StylePart
  <1> HIDE DEF M, I, T, L, N, U, l1, l2
  <1>8. /\ M \o I \in Seq(U) /\ Len(M \o I) = count + Len(I)
        /\ \A i \in 1..count : (M \o I)[i] = <<SelectedFields[i]>>
        /\ s \notin ById => (M \o I)[count + 1] = <<"osm_id">>
    BY <1>3, <1>4, Joined
  <1> DEFINE A == M \o I
             B == A \o T
             C == B \o L
             R == C \o N
             id == IF s \in ById THEN count ELSE count + 1
             tag == IF s = Without THEN id ELSE id + 1
             place == IF s \in NodeStatements THEN tag + 2 ELSE tag
             names == Len(m_point_columns)
  <1>9. /\ A \in Seq(U) /\ Len(A) = id /\ count <= id /\ id \in Nat
        /\ \A i \in 1..count : A[i] = <<SelectedFields[i]>>
        /\ s \notin ById => A[id] = <<"osm_id">> /\ id \in 1..id
    <2> HIDE DEF A
    <2>0. /\ A \in Seq(U) /\ Len(A) = count + Len(I)
          /\ \A i \in 1..count : A[i] = <<SelectedFields[i]>>
          /\ s \notin ById => A[count + 1] = <<"osm_id">>
      BY <1>8 DEF A
    <2>1. CASE s \in ById
      BY <1>2, <1>4, <2>0, <2>1
    <2>2. CASE s \notin ById
      <3>1. id = count + 1 /\ Len(A) = count + 1
        BY <1>4, <2>0, <2>2
      <3> HIDE DEF id
      <3>2. count <= id /\ id \in Nat /\ id \in 1..id
        BY <1>2, <3>1
      <3> QED
        BY <2>0, <2>2, <3>1, <3>2
    <2> QED
      BY <2>1, <2>2
  <1> HIDE DEF A, id
  <1>10. /\ B \in Seq(U) /\ Len(B) = tag /\ id <= tag /\ tag \in Nat
         /\ \A i \in 1..id : B[i] = A[i]
         /\ s # Without => B[tag] = <<"tags">> /\ tag \in 1..tag
    <2> HIDE DEF B
    <2>1. /\ B \in Seq(U) /\ Len(B) = Len(A) + Len(T)
          /\ \A i \in 1..Len(A) : B[i] = A[i]
          /\ \A i \in 1..Len(T) : B[Len(A) + i] = T[i]
      BY <1>5, <1>9, Joined DEF B
    <2>2. Len(A) = id /\ id \in Nat
      BY <1>9
    <2>3. CASE s = Without
      <3>1. Len(T) = 0
        BY <1>5, <2>3
      <3>2. tag = id
        BY <2>3
      <3> HIDE DEF tag
      <3> QED
        BY <2>1, <2>2, <2>3, <3>1, <3>2
    <2>4. CASE s # Without
      <3>1. Len(T) = 1 /\ T[1] = <<"tags">>
        BY <1>5, <2>4
      <3>2. tag = id + 1
        BY <2>4
      <3> HIDE DEF tag
      <3> QED
        BY <2>1, <2>2, <2>4, <3>1, <3>2
    <2> QED
      BY <2>3, <2>4
  <1> HIDE DEF B, tag
  <1>11. /\ C \in Seq(U) /\ Len(C) = place /\ tag <= place /\ place \in Nat
         /\ \A i \in 1..tag : C[i] = B[i]
         /\ s \in NodeStatements => /\ C[tag + 1] = l1 /\ C[tag + 2] = l2
                                    /\ place = tag + 2
    <2> HIDE DEF C
    <2>1. /\ C \in Seq(U) /\ Len(C) = Len(B) + Len(L)
          /\ \A i \in 1..Len(B) : C[i] = B[i]
          /\ \A i \in 1..Len(L) : C[Len(B) + i] = L[i]
      BY <1>6, <1>10, Joined DEF C
    <2>2. Len(B) = tag /\ tag \in Nat
      BY <1>10
    <2>3. CASE s \in NodeStatements
      <3>1. Len(L) = 2 /\ L[1] = l1 /\ L[2] = l2
        BY <1>6, <2>3
      <3>2. place = tag + 2
        BY <2>3
      <3> HIDE DEF place
      <3> QED
        BY <2>1, <2>2, <2>3, <3>1, <3>2
    <2>4. CASE s \notin NodeStatements
      <3>1. Len(L) = 0
        BY <1>6, <2>4
      <3>2. place = tag
        BY <2>4
      <3> HIDE DEF place
      <3> QED
        BY <2>1, <2>2, <2>4, <3>1, <3>2
    <2> QED
      BY <2>3, <2>4
  <1> HIDE DEF C, place
  <1>12. /\ Len(R) = IF s \in NodeStatements \ {Without} THEN place + names ELSE place
         /\ DOMAIN R = 1..Len(R)
         /\ \A i \in 1..place : R[i] = C[i]
         /\ s \in NodeStatements \ {Without} =>
                \A j \in 1..names : R[place + j] = m_point_columns[j].name
    <2>1. /\ Len(R) = place + Len(N) /\ Len(N) \in Nat /\ DOMAIN R = 1..Len(R)
          /\ \A i \in 1..place : R[i] = C[i]
          /\ \A j \in 1..Len(N) : R[place + j] = N[j]
      <3>1. C \in Seq(U) /\ N \in Seq(U)
        BY <1>7, <1>11
      <3>2. /\ Len(R) = Len(C) + Len(N) /\ Len(N) \in Nat /\ R \in Seq(U)
            /\ \A i \in 1..Len(C) : R[i] = C[i]
            /\ \A j \in 1..Len(N) : R[Len(C) + j] = N[j]
        BY <3>1, Joined
      <3>3. Len(C) = place
        BY <1>11
      <3> HIDE DEF R
      <3>4. DOMAIN R = 1..Len(R)
        BY <3>2
      <3> QED
        BY <3>2, <3>3, <3>4
    <2> HIDE DEF R
    <2>2. CASE s \in NodeStatements \ {Without}
      BY <1>7, <2>1, <2>2
    <2>3. CASE s \notin NodeStatements \ {Without}
      BY <1>7, <1>11, <2>1, <2>3
    <2> QED
      BY <2>2, <2>3
  <1>13. SelectObjects(s) = R
    BY <1>1 DEF A, B, C
  <1> HIDE DEF R
  <1>14. \A i \in 1..count : R[i] = <<SelectedFields[i]>>
    BY <1>2, <1>9, <1>10, <1>11, <1>12
  <1>15. s \notin ById => R[id] = <<"osm_id">>
    BY <1>2, <1>9, <1>10, <1>11, <1>12
  <1>16. s # Without => R[tag] = <<"tags">>
    BY <1>9, <1>10, <1>11, <1>12
  <1>17. s \in NodeStatements => R[tag + 1] = l1 /\ R[tag + 2] = l2
    BY <1>9, <1>10, <1>11, <1>12
  <1> QED
    BY <1>2, <1>7, <1>12, <1>13, <1>14, <1>15, <1>16, <1>17 DEF id, tag, place, l1, l2

-----------------------------------------------------------------------------
(***************************************************************************)
(* The offsets of the parsers.                                             *)
(***************************************************************************)

(* A value inside of a row.                                                *)
LEMMA ValueInside ==
    ASSUME NEW k \in Nat, Len(row) \in Nat, 1 <= k, k <= Len(row)
    PROVE  PQgetvalue(k - 1) = row[k]
  <1>1. k - 1 \in 0..(Len(row) - 1) /\ (k - 1) + 1 = k
    OBVIOUS
  <1> QED
    BY <1>1 DEF PQgetvalue

(* What the values common to all objects are.                              *)
CommonAgrees ==
    /\ Common.id = <<"osm_id">>
    /\ Common.tags = IF statement = Without THEN NULL ELSE <<"tags">>
    /\ \A f \in Fields \ {"osm_user"} :
        /\ f \in metadata \ {"osm_changeset"} => Common.metadata[f] = <<f>>
        /\ f \notin metadata => Common.metadata[f] = NULL

(* The place of a field among the selected ones, from 0.                   *)
LEMMA FieldFound ==
    ASSUME LayoutInv, NEW f \in metadata
    PROVE  /\ fieldIndex(f) \in 0..(count - 1) /\ SelectedFields[fieldIndex(f) + 1] = f
           /\ count \in Nat /\ fieldIndex(f) # unavailable
  <1>1. count \in Nat /\ \E i \in 1..count : SelectedFields[i] = f
    BY FieldsSelected DEF LayoutInv
  <1> DEFINE at == CHOOSE i \in 1..count : SelectedFields[i] = f
  <1>2. at \in 1..count /\ SelectedFields[at] = f
    BY <1>1
  <1>3. fieldIndex(f) = at - 1
    BY DEF fieldIndex
  <1> HIDE DEF at
  <1>4. (at - 1) + 1 = at /\ at - 1 \in 0..(count - 1)
    BY <1>1, <1>2
  <1> QED
    BY <1>1, <1>2, <1>3, <1>4 DEF unavailable

(* The parsers read them from the columns that hold them.                  *)
LEMMA CommonRead ==
    ASSUME LayoutInv, statement \in Statements \ MemberStatements
    PROVE  CommonAgrees
  <1> DEFINE id == IF statement \in ById THEN count ELSE count + 1
             tag == IF statement = Without THEN id ELSE id + 1
             place == IF statement \in NodeStatements THEN tag + 2 ELSE tag
             names == Len(m_point_columns)
  <1>0. row = SelectObjects(statement) /\ statement \in Statements
    BY DEF LayoutInv, SelectedBy, Statements, TableOf
  <1>1. /\ count \in Nat /\ Len(row) \in Nat /\ tag <= Len(row)
        /\ \A k \in 1..count : row[k] = <<SelectedFields[k]>>
        /\ statement \notin ById => row[id] = <<"osm_id">>
        /\ statement # Without => row[tag] = <<"tags">>
    <2>1. /\ count \in Nat /\ names \in Nat
          /\ Len(row) = IF statement \in NodeStatements \ {Without}
                        THEN place + names ELSE place
          /\ \A k \in 1..count : row[k] = <<SelectedFields[k]>>
          /\ statement \notin ById => row[id] = <<"osm_id">>
          /\ statement # Without => row[tag] = <<"tags">>
      BY <1>0, RowOfObjects
    <2>2. id \in Nat /\ tag \in Nat
      BY <2>1
    <2> HIDE DEF id, tag, names
    <2>3. place \in Nat /\ tag <= place
      BY <2>2
    <2> HIDE DEF place
    <2>4. Len(row) \in Nat /\ place <= Len(row)
      BY <2>1, <2>3
    <2>5. tag <= Len(row)
      BY <2>2, <2>3, <2>4
    <2> QED
      BY <2>1, <2>4, <2>5
  <1>2. id \in Nat /\ count <= id /\ tag \in Nat /\ id <= tag
    BY <1>1
  <1>3. Common.id = <<"osm_id">>
    <2>1. CASE statement \in ById
      BY <2>1 DEF Common
    <2>2. CASE statement \notin ById
      <3>1. id = count + 1
        BY <2>2
      <3> HIDE DEF id, tag
      <3>2. PQgetvalue(id - 1) = row[id] /\ id - 1 = count
        BY <1>1, <1>2, <3>1, ValueInside
      <3> QED
        BY <1>1, <2>2, <3>2 DEF Common
    <2> QED
      BY <2>1, <2>2
  <1>4. Common.tags = IF statement = Without THEN NULL ELSE <<"tags">>
    <2>1. CASE statement = Without
      BY <2>1 DEF Common
    <2>2. CASE statement # Without
      <3>1. tag = id + 1 /\ tags_field_offset = id
        BY <2>2 DEF tags_field_offset
      <3> HIDE DEF id, tag
      <3>2. PQgetvalue(tag - 1) = row[tag] /\ tag - 1 = id /\ 1 <= tag
        BY <1>1, <1>2, <3>1, ValueInside
      <3> QED
        BY <1>1, <2>2, <3>1, <3>2 DEF Common
    <2> QED
      BY <2>1, <2>2
  <1> HIDE DEF id, tag, place, names
  <1>5. ASSUME NEW f \in Fields \ {"osm_user"}, f \in metadata, f # "osm_changeset"
        PROVE  Common.metadata[f] = <<f>>
    <2>1. /\ fieldIndex(f) \in 0..(count - 1) /\ SelectedFields[fieldIndex(f) + 1] = f
          /\ fieldIndex(f) # unavailable
      BY <1>5, FieldFound
    <2>2. Common.metadata[f] = PQgetvalue(fieldIndex(f))
      BY <1>5, <2>1 DEF Common
    <2>3. \A k \in 1..count : PQgetvalue(k - 1) = <<SelectedFields[k]>>
      <3> TAKE k \in 1..count
      <3>1. k \in Nat /\ 1 <= k /\ k <= Len(row)
        BY <1>1, <1>2
      <3> QED
        BY <1>1, <3>1, ValueInside
    <2>4. fieldIndex(f) + 1 \in 1..count /\ (fieldIndex(f) + 1) - 1 = fieldIndex(f)
      BY <1>1, <2>1
    <2>5. PQgetvalue(fieldIndex(f)) = <<f>>
      BY <2>1, <2>3, <2>4
    <2> QED
      BY <2>2, <2>5
  <1>6. ASSUME NEW f \in Fields \ {"osm_user"}, f \notin metadata
        PROVE  Common.metadata[f] = NULL
    BY <1>6 DEF Common, fieldIndex
  <1> QED
    BY <1>3, <1>4, <1>5, <1>6 DEF CommonAgrees

-----------------------------------------------------------------------------
(***************************************************************************)
(* The columns of the tables.                                              *)
(***************************************************************************)

(* The names of columns, in any order.                                     *)
NameSet(cols) == {cols[k].name : k \in DOMAIN cols}

(* Columns behind columns.                                                 *)
LEMMA ColumnsJoined ==
    ASSUME NEW a, NEW b, AreColumns(a), AreColumns(b)
    PROVE  /\ AreColumns(a \o b)
           /\ NameSet(a \o b) = NameSet(a) \union NameSet(b)
           /\ Len(a) \in Nat /\ Len(b) \in Nat /\ Len(a \o b) = Len(a) + Len(b)
           /\ DOMAIN (a \o b) = 1..(Len(a) + Len(b))
           /\ \A i \in 1..Len(a) : (a \o b)[i] = a[i]
           /\ \A i \in 1..Len(b) : (a \o b)[Len(a) + i] = b[i]
  <1>1. PICK A, B : a \in Seq(A) /\ b \in Seq(B)
    BY DEF AreColumns
  <1> DEFINE C == A \union B
  <1>2. a \in Seq(C) /\ b \in Seq(C)
    BY <1>1, Wider
  <1> HIDE DEF C
  <1>3. /\ a \o b \in Seq(C) /\ Len(a \o b) = Len(a) + Len(b)
        /\ Len(a) \in Nat /\ Len(b) \in Nat
        /\ \A i \in 1..Len(a) : (a \o b)[i] = a[i]
        /\ \A i \in 1..Len(b) : (a \o b)[Len(a) + i] = b[i]
    BY <1>2, Joined
  <1>4. /\ DOMAIN a = 1..Len(a) /\ DOMAIN b = 1..Len(b)
        /\ DOMAIN (a \o b) = 1..Len(a \o b)
    BY <1>2, <1>3
  <1> DEFINE c == a \o b
  <1>5. ASSUME NEW k \in DOMAIN c
        PROVE  c[k].name \in NameSet(a) \union NameSet(b)
    <2>1. CASE k <= Len(a)
      BY <1>3, <1>4, <1>5, <2>1 DEF NameSet
    <2>2. CASE k > Len(a)
      <3>1. k - Len(a) \in 1..Len(b) /\ Len(a) + (k - Len(a)) = k
        BY <1>3, <1>4, <1>5, <2>2
      <3>2. c[k] = b[k - Len(a)]
        BY <1>3, <3>1
      <3> QED
        BY <1>4, <3>1, <3>2 DEF NameSet
    <2> QED
      BY <1>3, <1>4, <1>5, <2>1, <2>2
  <1>6. NameSet(a) \subseteq NameSet(c)
    <2> SUFFICES ASSUME NEW k \in DOMAIN a PROVE a[k].name \in NameSet(c)
      BY DEF NameSet
    <2>1. k \in DOMAIN c /\ c[k] = a[k]
      BY <1>3, <1>4
    <2> QED
      BY <2>1 DEF NameSet
  <1>7. NameSet(b) \subseteq NameSet(c)
    <2> SUFFICES ASSUME NEW k \in DOMAIN b PROVE b[k].name \in NameSet(c)
      BY DEF NameSet
    <2>1. Len(a) + k \in DOMAIN c /\ c[Len(a) + k] = b[k]
      BY <1>3, <1>4
    <2> QED
      BY <2>1 DEF NameSet
  <1>8. NameSet(c) \subseteq NameSet(a) \union NameSet(b)
    BY <1>5 DEF NameSet
  <1>9. AreColumns(c)
    BY <1>3 DEF AreColumns
  <1> QED
    BY <1>3, <1>4, <1>6, <1>7, <1>8, <1>9

(* No columns.                                                             *)
LEMMA NoColumns ==
    AreColumns(<<>>) /\ NameSet(<<>>) = {} /\ Len(<<>>) = 0 /\ DOMAIN <<>> = {}
  <1>1. <<>> \in Seq({})
    OBVIOUS
  <1>2. AreColumns(<<>>)
    BY <1>1 DEF AreColumns
  <1>3. DOMAIN <<>> = {} /\ Len(<<>>) = 0
    OBVIOUS
  <1> QED
    BY <1>2, <1>3 DEF NameSet

(* One column.                                                             *)
LEMMA OneColumn ==
    ASSUME NEW c
    PROVE  /\ AreColumns(<<c>>) /\ NameSet(<<c>>) = {c.name}
           /\ Len(<<c>>) = 1 /\ <<c>>[1] = c
  <1>1. <<c>> \in Seq({c}) /\ DOMAIN <<c>> = {1} /\ <<c>>[1] = c /\ Len(<<c>>) = 1
    OBVIOUS
  <1> QED
    BY <1>1 DEF AreColumns, NameSet

(* Two columns.                                                            *)
LEMMA TwoColumns ==
    ASSUME NEW c, NEW d
    PROVE  /\ AreColumns(<<c, d>>) /\ NameSet(<<c, d>>) = {c.name, d.name}
           /\ Len(<<c, d>>) = 2 /\ <<c, d>>[1] = c
  <1>1. <<c, d>> \in Seq({c, d}) /\ DOMAIN <<c, d>> = {1, 2} /\ Len(<<c, d>>) = 2
    OBVIOUS
  <1>2. <<c, d>>[1] = c /\ <<c, d>>[2] = d
    OBVIOUS
  <1> QED
    BY <1>1, <1>2 DEF AreColumns, NameSet

(* Columns of the metadata fields in K, none of them a geometry.           *)
MetadataOf(s, K) ==
    /\ AreColumns(s)
    /\ NameSet(s) = {<<f>> : f \in K \intersect metadata}
    /\ \A k \in DOMAIN s : s[k].type # "POINT"

(* The column of a field, if it is asked for.                              *)
LEMMA MetadataColumnTaken ==
    ASSUME NEW K, NEW s, MetadataOf(s, K), NEW f, NEW t, t # "POINT"
    PROVE  MetadataOf(s \o (IF f \in metadata THEN <<Column(f, t)>> ELSE <<>>), K \union {f})
  <1> DEFINE n == IF f \in metadata THEN <<Column(f, t)>> ELSE <<>>
  <1>1. /\ AreColumns(n) /\ NameSet(n) = {<<g>> : g \in {f} \intersect metadata}
        /\ Len(n) \in Nat /\ \A k \in 1..Len(n) : n[k].type # "POINT"
    <2>1. CASE f \in metadata
      <3>1. n = <<Column(f, t)>> /\ Column(f, t).name = <<f>> /\ Column(f, t).type = t
        BY <2>1 DEF Column
      <3>2. AreColumns(n) /\ NameSet(n) = {<<f>>} /\ Len(n) = 1 /\ n[1] = Column(f, t)
        BY <3>1, OneColumn
      <3> QED
        BY <2>1, <3>1, <3>2
    <2>2. CASE f \notin metadata
      <3>1. n = <<>>
        BY <2>2
      <3>2. AreColumns(n) /\ NameSet(n) = {} /\ Len(n) = 0
        BY <3>1, NoColumns
      <3> QED
        BY <2>2, <3>2
    <2> QED
      BY <2>1, <2>2
  <1> HIDE DEF n
  <1>2. AreColumns(s) /\ DOMAIN s = 1..Len(s) /\ \A k \in DOMAIN s : s[k].type # "POINT"
    BY NamesOfColumns DEF MetadataOf
  <1>3. /\ AreColumns(s \o n) /\ NameSet(s \o n) = NameSet(s) \union NameSet(n)
        /\ Len(s) \in Nat /\ DOMAIN (s \o n) = 1..(Len(s) + Len(n))
        /\ \A i \in 1..Len(s) : (s \o n)[i] = s[i]
        /\ \A i \in 1..Len(n) : (s \o n)[Len(s) + i] = n[i]
    BY <1>1, <1>2, ColumnsJoined
  <1>4. NameSet(s \o n) = {<<g>> : g \in (K \union {f}) \intersect metadata}
    BY <1>1, <1>3 DEF MetadataOf
  <1>5. ASSUME NEW k \in DOMAIN (s \o n) PROVE (s \o n)[k].type # "POINT"
    <2>1. CASE k <= Len(s)
      BY <1>2, <1>3, <1>5, <2>1
    <2>2. CASE k > Len(s)
      <3>1. k - Len(s) \in 1..Len(n) /\ Len(s) + (k - Len(s)) = k
        BY <1>1, <1>3, <1>5, <2>2
      <3>2. (s \o n)[k] = n[k - Len(s)]
        BY <1>3, <3>1
      <3> QED
        BY <1>1, <3>1, <3>2
    <2> QED
      BY <1>3, <1>5, <2>1, <2>2
  <1> QED
    BY <1>3, <1>4, <1>5 DEF MetadataOf, n

(* Columns has a column for each field asked for, as MetadataFields has.   *)
LEMMA MetadataColumnsTaken ==
    ASSUME metadata \in SUBSET Fields
    PROVE  MetadataOf(MetadataColumns(metadata), Fields)
  <1> DEFINE Selected(f, t) == IF f \in metadata THEN <<Column(f, t)>> ELSE <<>>
             s1 == Selected("osm_user", "TEXT")
             s2 == s1 \o Selected("osm_uid", "BIGINT")
             s3 == s2 \o Selected("osm_version", "INT")
             s4 == s3 \o Selected("osm_lastmodified", "TEXT")
             s5 == s4 \o Selected("osm_changeset", "BIGINT")
  <1>0. MetadataOf(<<>>, {})
    BY NoColumns DEF MetadataOf
  <1>1. MetadataOf(s1, {"osm_user"})
    <2>1. MetadataOf(<<>> \o s1, {} \union {"osm_user"})
      BY <1>0, MetadataColumnTaken
    <2>2. <<>> \o s1 = s1 /\ {} \union {"osm_user"} = {"osm_user"}
      OBVIOUS
    <2> QED
      BY <2>1, <2>2
  <1> HIDE DEF s1
  <1>2. MetadataOf(s2, {"osm_user"} \union {"osm_uid"})
    BY <1>1, MetadataColumnTaken
  <1> HIDE DEF s2
  <1>3. MetadataOf(s3, ({"osm_user"} \union {"osm_uid"}) \union {"osm_version"})
    BY <1>2, MetadataColumnTaken
  <1> HIDE DEF s3
  <1>4. MetadataOf(s4, (({"osm_user"} \union {"osm_uid"}) \union {"osm_version"})
                        \union {"osm_lastmodified"})
    BY <1>3, MetadataColumnTaken
  <1> HIDE DEF s4
  <1>5. MetadataOf(s5, ((({"osm_user"} \union {"osm_uid"}) \union {"osm_version"})
                        \union {"osm_lastmodified"}) \union {"osm_changeset"})
    BY <1>4, MetadataColumnTaken
  <1>6. ((({"osm_user"} \union {"osm_uid"}) \union {"osm_version"})
            \union {"osm_lastmodified"}) \union {"osm_changeset"} = Fields
    BY DEF Fields
  <1>7. MetadataColumns(metadata) = s5
    BY DEF MetadataColumns, s4, s3, s2, s1
  <1> QED
    BY <1>5, <1>6, <1>7

(* The columns only one type of table has.                                 *)
LEMMA OwnColumnsOf ==
    /\ \A table : AreColumns(OwnColumns(table))
    /\ OwnColumns("POINT")[1] = Column("geom", "POINT") /\ Len(OwnColumns("POINT")) = 2
    /\ {<<"geom">>, <<"tags">>} \subseteq NameSet(OwnColumns("POINT"))
    /\ {<<"x">>, <<"y">>} \subseteq NameSet(OwnColumns("UNTAGGED_POINT"))
    /\ <<"tags">> \in NameSet(OwnColumns("WAYS_LINEAR"))
    /\ <<"tags">> \in NameSet(OwnColumns("RELATION_OTHER"))
    /\ {<<"node_id">>, <<"position">>} \subseteq NameSet(OwnColumns("NODE_WAYS"))
    /\ \A table \in MemberTables \ {"NODE_WAYS"} :
        {<<"member_id">>, <<"role">>, <<"position">>} \subseteq NameSet(OwnColumns(table))
  <1>1. ASSUME NEW c1, NEW c2, NEW c3
        PROVE  /\ AreColumns(<<c1, c2, c3>>)
               /\ {c1.name, c2.name, c3.name} \subseteq NameSet(<<c1, c2, c3>>)
    <2>1. <<c1, c2, c3>> \in Seq({c1, c2, c3}) /\ DOMAIN <<c1, c2, c3>> = {1, 2, 3}
      OBVIOUS
    <2>2. <<c1, c2, c3>>[1] = c1 /\ <<c1, c2, c3>>[2] = c2 /\ <<c1, c2, c3>>[3] = c3
      OBVIOUS
    <2> QED
      BY <2>1, <2>2 DEF AreColumns, NameSet
  <1>2. ASSUME NEW c1, NEW c2, NEW c3, NEW c4
        PROVE  /\ AreColumns(<<c1, c2, c3, c4>>)
               /\ {c1.name, c2.name, c3.name, c4.name} \subseteq NameSet(<<c1, c2, c3, c4>>)
    <2>1. <<c1, c2, c3, c4>> \in Seq({c1, c2, c3, c4})
            /\ DOMAIN <<c1, c2, c3, c4>> = {1, 2, 3, 4}
      OBVIOUS
    <2>2. /\ <<c1, c2, c3, c4>>[1] = c1 /\ <<c1, c2, c3, c4>>[2] = c2
          /\ <<c1, c2, c3, c4>>[3] = c3 /\ <<c1, c2, c3, c4>>[4] = c4
      OBVIOUS
    <2> QED
      BY <2>1, <2>2 DEF AreColumns, NameSet
  <1>3. \A word, t : Column(word, t).name = <<word>>
    BY DEF Column
  <1>4. /\ OwnColumns("POINT") = << Column("geom", "POINT"), Column("tags", "HSTORE") >>
        /\ OwnColumns("UNTAGGED_POINT") = << Column("x", "INT"), Column("y", "INT") >>
        /\ OwnColumns("WAYS_LINEAR") = << Column("geom", "LINESTRING"), Column("tags", "HSTORE") >>
        /\ OwnColumns("RELATION_OTHER") =
                << Column("geom_points", "MULTIPOINT"), Column("geom_lines", "MULTILINESTRING"),
                   Column("tags", "HSTORE") >>
        /\ OwnColumns("NODE_WAYS") =
                << Column("way_id", "BIGINT"), Column("node_id", "BIGINT"),
                   Column("position", "SMALLINT") >>
    BY DEF OwnColumns
  <1>5. \A table : table \notin ObjectTables \union {"NODE_WAYS"} =>
            OwnColumns(table) = MemberColumns
    BY DEF OwnColumns, ObjectTables
  <1>6. /\ AreColumns(MemberColumns)
        /\ {<<"member_id">>, <<"role">>, <<"position">>} \subseteq NameSet(MemberColumns)
    <2>1. /\ AreColumns(MemberColumns)
          /\ {Column("member_id", "BIGINT").name, Column("relation_id", "BIGINT").name,
              Column("position", "SMALLINT").name, Column("role", "TEXT").name}
                \subseteq NameSet(MemberColumns)
      BY <1>2 DEF MemberColumns
    <2> QED
      BY <1>3, <2>1
  <1>7. /\ AreColumns(OwnColumns("RELATION_OTHER")) /\ AreColumns(OwnColumns("NODE_WAYS"))
        /\ <<"tags">> \in NameSet(OwnColumns("RELATION_OTHER"))
        /\ {<<"node_id">>, <<"position">>} \subseteq NameSet(OwnColumns("NODE_WAYS"))
    BY <1>1, <1>3, <1>4
  <1>8. /\ AreColumns(OwnColumns("POINT")) /\ AreColumns(OwnColumns("UNTAGGED_POINT"))
        /\ AreColumns(OwnColumns("WAYS_LINEAR"))
        /\ {<<"geom">>, <<"tags">>} \subseteq NameSet(OwnColumns("POINT"))
        /\ {<<"x">>, <<"y">>} \subseteq NameSet(OwnColumns("UNTAGGED_POINT"))
        /\ <<"tags">> \in NameSet(OwnColumns("WAYS_LINEAR"))
        /\ OwnColumns("POINT")[1] = Column("geom", "POINT") /\ Len(OwnColumns("POINT")) = 2
    <2>1. /\ AreColumns(OwnColumns("POINT"))
          /\ NameSet(OwnColumns("POINT")) =
                {Column("geom", "POINT").name, Column("tags", "HSTORE").name}
          /\ OwnColumns("POINT")[1] = Column("geom", "POINT") /\ Len(OwnColumns("POINT")) = 2
      BY <1>4, TwoColumns
    <2>2. /\ AreColumns(OwnColumns("UNTAGGED_POINT"))
          /\ NameSet(OwnColumns("UNTAGGED_POINT")) =
                {Column("x", "INT").name, Column("y", "INT").name}
      BY <1>4, TwoColumns
    <2>3. /\ AreColumns(OwnColumns("WAYS_LINEAR"))
          /\ NameSet(OwnColumns("WAYS_LINEAR")) =
                {Column("geom", "LINESTRING").name, Column("tags", "HSTORE").name}
      BY <1>4, TwoColumns
    <2> QED
      BY <1>3, <2>1, <2>2, <2>3
  <1>9. \A table : AreColumns(OwnColumns(table))
    BY <1>5, <1>6, <1>7, <1>8 DEF ObjectTables
  <1>10. \A table \in MemberTables \ {"NODE_WAYS"} :
            table \notin ObjectTables \union {"NODE_WAYS"}
    BY DEF MemberTables, ObjectTables
  <1> QED
    BY <1>5, <1>6, <1>7, <1>8, <1>9, <1>10

(* The columns of a table, and the name of its geometry.                   *)
LEMMA TableColumns ==
    ASSUME LayoutInv, NEW table
    PROVE  LET names == ToSet(Names(build_table(table)))
           IN  /\ NameSet(OwnColumns(table)) \subseteq names
               /\ table \in ObjectTables =>
                    <<"osm_id">> \in names /\ \A f \in metadata : <<f>> \in names
               /\ table = "POINT" =>
                    NameSet(m_point_columns) \subseteq names /\ geom_column_name = <<"geom">>
  <1> DEFINE M == MetadataColumns(metadata)
             one == <<Column("osm_id", "BIGINT")>>
             first == IF table \in ObjectTables THEN one \o M ELSE <<>>
             own == OwnColumns(table)
             style == CASE table = "POINT" -> m_point_columns
                        [] table \in {"WAYS_LINEAR", "RELATION_OTHER"} -> m_line_columns
                        [] OTHER -> <<>>
             cols == (first \o own) \o style
  <1>1. build_table(table) = cols
    BY DEF build_table, init
  <1>2. AreColumns(M) /\ NameSet(M) = {<<f>> : f \in metadata}
            /\ \A k \in DOMAIN M : M[k].type # "POINT"
    <2>1. metadata \in SUBSET Fields
      BY DEF LayoutInv
    <2>2. MetadataOf(M, Fields) /\ Fields \intersect metadata = metadata
      BY <2>1, MetadataColumnsTaken
    <2> QED
      BY <2>2 DEF MetadataOf
  <1>3. /\ AreColumns(one) /\ NameSet(one) = {<<"osm_id">>}
        /\ Len(one) = 1 /\ one[1].type # "POINT"
    <2>1. /\ Column("osm_id", "BIGINT").name = <<"osm_id">>
          /\ Column("osm_id", "BIGINT").type = "BIGINT"
      BY DEF Column
    <2> QED
      BY <2>1, OneColumn
  <1> HIDE DEF M, one
  <1>4. /\ AreColumns(one \o M) /\ NameSet(one \o M) = NameSet(one) \union NameSet(M)
        /\ Len(one \o M) \in Nat
        /\ \A k \in 1..Len(one \o M) : (one \o M)[k].type # "POINT"
    <2>1. /\ AreColumns(one \o M) /\ NameSet(one \o M) = NameSet(one) \union NameSet(M)
          /\ Len(M) \in Nat /\ Len(one \o M) = 1 + Len(M)
          /\ (one \o M)[1] = one[1]
          /\ \A i \in 1..Len(M) : (one \o M)[1 + i] = M[i]
      <3>1. /\ AreColumns(one \o M) /\ NameSet(one \o M) = NameSet(one) \union NameSet(M)
            /\ Len(M) \in Nat /\ Len(one \o M) = Len(one) + Len(M)
            /\ \A i \in 1..Len(one) : (one \o M)[i] = one[i]
            /\ \A i \in 1..Len(M) : (one \o M)[Len(one) + i] = M[i]
        <4>1. AreColumns(one) /\ AreColumns(M)
          BY <1>2, <1>3
        <4> QED
          BY <4>1, ColumnsJoined
      <3>2. 1 \in 1..Len(one)
        BY <1>3
      <3> QED
        BY <1>3, <3>1, <3>2
    <2>2. DOMAIN M = 1..Len(M)
      BY <1>2, NamesOfColumns
    <2>3. ASSUME NEW k \in 1..Len(one \o M) PROVE (one \o M)[k].type # "POINT"
      <3>1. CASE k = 1
        BY <1>3, <2>1, <3>1
      <3>2. CASE k # 1
        <4>1. k - 1 \in 1..Len(M) /\ 1 + (k - 1) = k
          BY <2>1, <2>3, <3>2
        <4> QED
          BY <1>2, <2>1, <2>2, <4>1
      <3> QED
        BY <3>1, <3>2
    <2> QED
      BY <2>1, <2>3
  <1>5. /\ AreColumns(first) /\ Len(first) \in Nat
        /\ table \in ObjectTables => NameSet(first) = {<<"osm_id">>} \union {<<f>> : f \in metadata}
        /\ \A k \in 1..Len(first) : first[k].type # "POINT"
    <2>1. CASE table \in ObjectTables
      BY <1>2, <1>3, <1>4, <2>1
    <2>2. CASE table \notin ObjectTables
      BY <2>2, NoColumns
    <2> QED
      BY <2>1, <2>2
  <1>6. AreColumns(own)
    BY OwnColumnsOf
  <1>7. AreColumns(style) /\ (table = "POINT" => style = m_point_columns)
    <2>1. AreColumns(m_point_columns) /\ AreColumns(m_line_columns) /\ AreColumns(<<>>)
      BY NoColumns DEF LayoutInv
    <2> QED
      BY <2>1
  <1> HIDE DEF first, own, style
  <1>8. /\ AreColumns(first \o own)
        /\ NameSet(first \o own) = NameSet(first) \union NameSet(own)
        /\ Len(own) \in Nat /\ Len(first \o own) = Len(first) + Len(own)
        /\ \A i \in 1..Len(first) : (first \o own)[i] = first[i]
        /\ \A i \in 1..Len(own) : (first \o own)[Len(first) + i] = own[i]
    BY <1>5, <1>6, ColumnsJoined
  <1>9. /\ AreColumns(cols) /\ NameSet(cols) = NameSet(first \o own) \union NameSet(style)
        /\ Len(cols) = Len(first \o own) + Len(style) /\ Len(style) \in Nat
        /\ \A i \in 1..Len(first \o own) : cols[i] = (first \o own)[i]
    BY <1>7, <1>8, ColumnsJoined
  <1> HIDE DEF cols
  <1>10. ToSet(Names(cols)) = NameSet(cols) /\ DOMAIN cols = 1..Len(cols)
    BY <1>9, NamesOfColumns DEF NameSet
  <1>11. table = "POINT" => geom_column_name = <<"geom">>
    <2> SUFFICES ASSUME table = "POINT" PROVE geom_column_name = <<"geom">>
      OBVIOUS
    <2> DEFINE at == Len(first) + 1
               FirstOf(k) == cols[k].type = "POINT" /\ \A j \in 1..(k - 1) : cols[j].type # "POINT"
    <2>1. Len(own) = 2 /\ own[1] = Column("geom", "POINT")
      BY OwnColumnsOf DEF own
    <2>2. at \in DOMAIN cols /\ cols[at] = Column("geom", "POINT")
      <3>1. 1 \in 1..Len(own) /\ at \in 1..Len(first \o own)
        BY <1>5, <1>8, <2>1
      <3>2. cols[at] = own[1]
        BY <1>8, <1>9, <3>1
      <3>3. at \in 1..Len(cols)
        BY <1>5, <1>8, <1>9, <3>1
      <3> QED
        BY <1>10, <2>1, <3>2, <3>3
    <2>3. \A j \in 1..Len(first) : cols[j].type # "POINT"
      <3> TAKE j \in 1..Len(first)
      <3>1. j \in 1..Len(first \o own)
        BY <1>5, <1>8
      <3>2. cols[j] = first[j]
        BY <1>8, <1>9, <3>1
      <3> QED
        BY <1>5, <3>2
    <2>4. at - 1 = Len(first) /\ at \in Nat
      BY <1>5
    <2> HIDE DEF at
    <2>5. FirstOf(at)
      BY <2>2, <2>3, <2>4 DEF Column
    <2>6. ASSUME NEW k \in DOMAIN cols, FirstOf(k) PROVE k = at
      <3>1. k \in Nat /\ k >= 1
        BY <1>5, <1>8, <1>9, <1>10
      <3>2. ~(k < at)
        <4> SUFFICES ASSUME k < at PROVE FALSE
          OBVIOUS
        <4>1. k \in 1..Len(first)
          BY <1>5, <2>4, <3>1
        <4> QED
          BY <2>3, <2>6, <4>1
      <3>3. ~(at < k)
        <4> SUFFICES ASSUME at < k PROVE FALSE
          OBVIOUS
        <4>1. at \in 1..(k - 1)
          BY <1>5, <2>4, <3>1
        <4> QED
          BY <2>5, <2>6, <4>1
      <3> QED
        BY <2>4, <3>1, <3>2, <3>3
    <2>7. geom_column_name = cols[CHOOSE k \in DOMAIN cols : FirstOf(k)].name
      BY <1>1 DEF geom_column_name, get_column_name_by_type
    <2> HIDE DEF FirstOf
    <2>8. (CHOOSE k \in DOMAIN cols : FirstOf(k)) = at
      BY <2>2, <2>5, <2>6
    <2> QED
      <3>1. geom_column_name = cols[at].name
        BY <2>7, <2>8
      <3> QED
        BY <2>2, <3>1 DEF Column
  <1> QED
    BY <1>1, <1>5, <1>7, <1>8, <1>9, <1>10, <1>11 DEF own

(* The tables the statements ask.                                          *)
LEMMA TablesAsked ==
    /\ \A s \in NodeStatements \ {Without} : TableOf[s] = "POINT"
    /\ TableOf[Without] = "UNTAGGED_POINT"
    /\ \A s \in Statements \ MemberStatements : TableOf[s] \in ObjectTables
    /\ \A s \in OtherStatements : TableOf[s] \in {"WAYS_LINEAR", "RELATION_OTHER"}
    /\ TableOf["get_way_nodes"] = "NODE_WAYS"
    /\ \A s \in MemberStatements \ {"get_way_nodes"} : TableOf[s] \in MemberTables \ {"NODE_WAYS"}
    /\ MemberStatements \subseteq Statements /\ NodeStatements \subseteq Statements
    /\ NodeStatements \intersect MemberStatements = {}
  <1>1. /\ TableOf["get_nodes_with_tags"] = "POINT"
        /\ TableOf["get_single_node_with_tags"] = "POINT"
        /\ TableOf["get_single_node_without_tags"] = "UNTAGGED_POINT"
        /\ TableOf["get_ways"] = "WAYS_LINEAR" /\ TableOf["get_single_way"] = "WAYS_LINEAR"
        /\ TableOf["get_relations"] = "RELATION_OTHER"
        /\ TableOf["get_single_relation"] = "RELATION_OTHER"
        /\ TableOf["get_way_nodes"] = "NODE_WAYS"
        /\ TableOf["get_node_members"] = "RELATION_MEMBER_NODES"
        /\ TableOf["get_way_members"] = "RELATION_MEMBER_WAYS"
        /\ TableOf["get_relation_members"] = "RELATION_MEMBER_RELATIONS"
    BY DEF TableOf
  <1>2. Statements = {"get_nodes_with_tags", "get_single_node_with_tags",
                      "get_single_node_without_tags", "get_ways", "get_single_way",
                      "get_relations", "get_single_relation", "get_way_nodes",
                      "get_node_members", "get_way_members", "get_relation_members"}
    BY DEF Statements, TableOf
  <1>3. MemberStatements = {"get_way_nodes", "get_node_members", "get_way_members",
                            "get_relation_members"}
    BY <1>1, <1>2 DEF MemberStatements, MemberTables
  <1> QED
    BY <1>1, <1>2, <1>3 DEF NodeStatements, OtherStatements, Without, ObjectTables, MemberTables

(* A statement asks for columns its table has.                             *)
LEMMA ColumnsThere == LayoutInv => SelectedColumnsExist
  <1> DEFINE table == TableOf[statement]
             names == ToSet(Names(build_table(table)))
             Asked(c) == \E column \in names :
                            c \in {column, <<"ST_X">> \o column, <<"ST_Y">> \o column}
             NoTable == statement = Without /\ m_untagged_nodes_geom
             Prepared == statement # ""
  <1> SUFFICES ASSUME LayoutInv, Prepared, ~NoTable, NEW k \in DOMAIN row
               PROVE  Asked(row[k])
    BY DEF SelectedColumnsExist
  <1> HIDE DEF NoTable, Prepared
  <1>1. statement \in Statements /\ row = SelectedBy(statement)
    BY DEF LayoutInv, Prepared
  <1>2. NameSet(OwnColumns(table)) \subseteq names
    BY TableColumns
  <1>3. CASE statement = "get_way_nodes"
    <2>1. {<<"node_id">>, <<"position">>} \subseteq names
      BY <1>2, <1>3, TablesAsked, OwnColumnsOf
    <2>2. row = << <<"node_id">>, <<"position">> >>
      BY <1>1, <1>3, TablesAsked DEF SelectedBy, SelectMembers, MemberStatements, MemberTables
    <2>3. ASSUME NEW a, NEW b, NEW i \in DOMAIN <<a, b>> PROVE <<a, b>>[i] \in {a, b}
      OBVIOUS
    <2>4. row[k] \in {<<"node_id">>, <<"position">>}
      BY <2>2, <2>3
    <2> QED
      BY <2>1, <2>4
  <1>4. CASE statement \in MemberStatements \ {"get_way_nodes"}
    <2>1. {<<"member_id">>, <<"role">>, <<"position">>} \subseteq names
      BY <1>2, <1>4, TablesAsked, OwnColumnsOf
    <2>2. row = << <<"member_id">>, <<"role">>, <<"position">> >>
      BY <1>1, <1>4 DEF SelectedBy, SelectMembers
    <2>3. ASSUME NEW a, NEW b, NEW c, NEW i \in DOMAIN <<a, b, c>>
          PROVE  <<a, b, c>>[i] \in {a, b, c}
      OBVIOUS
    <2>4. row[k] \in {<<"member_id">>, <<"role">>, <<"position">>}
      BY <2>2, <2>3
    <2> QED
      BY <2>1, <2>4
  <1>5. CASE statement \in Statements \ MemberStatements
    <2> DEFINE id == IF statement \in ById THEN count ELSE count + 1
               tag == IF statement = Without THEN id ELSE id + 1
               place == IF statement \in NodeStatements THEN tag + 2 ELSE tag
               styled == Len(m_point_columns)
    <2>1. row = SelectObjects(statement)
      BY <1>1, <1>5 DEF SelectedBy
    <2>2. /\ count \in Nat /\ styled \in Nat
          /\ Len(row) = IF statement \in NodeStatements \ {Without}
                        THEN place + styled ELSE place
          /\ DOMAIN row = 1..Len(row)
          /\ \A i \in 1..count : row[i] = <<SelectedFields[i]>>
          /\ statement \notin ById => row[id] = <<"osm_id">>
          /\ statement # Without => row[tag] = <<"tags">>
          /\ statement \in NodeStatements => row[tag + 1] = LocationColumns(statement)[1]
          /\ statement \in NodeStatements => row[tag + 2] = LocationColumns(statement)[2]
          /\ statement \in NodeStatements \ {Without} =>
                \A j \in 1..styled : row[place + j] = m_point_columns[j].name
      BY <1>1, <2>1, RowOfObjects
    <2>3. /\ id \in Nat /\ tag \in Nat /\ place \in Nat
          /\ (statement \in ById => id = count) /\ (statement \notin ById => id = count + 1)
          /\ (statement = Without => tag = id) /\ (statement # Without => tag = id + 1)
          /\ (statement \in NodeStatements => place = tag + 2)
          /\ (statement \notin NodeStatements => place = tag)
      <3>1. count \in Nat
        BY <2>2
      <3>2. /\ id \in Nat
            /\ (statement \in ById => id = count) /\ (statement \notin ById => id = count + 1)
        BY <3>1
      <3> HIDE DEF id
      <3>3. /\ tag \in Nat
            /\ (statement = Without => tag = id) /\ (statement # Without => tag = id + 1)
        BY <3>2
      <3> HIDE DEF tag
      <3>4. /\ place \in Nat
            /\ (statement \in NodeStatements => place = tag + 2)
            /\ (statement \notin NodeStatements => place = tag)
        BY <3>3
      <3> QED
        BY <3>2, <3>3, <3>4
    <2> HIDE DEF id, tag, place, styled, Asked, names
    <2>12. /\ k \in Nat /\ 1 <= k
           /\ (statement \in NodeStatements \ {Without} => k <= place + styled)
           /\ (statement \notin NodeStatements \ {Without} => k <= place)
      BY <2>2, <2>3
    <2>4. table \in ObjectTables
      BY <1>5, TablesAsked
    <2>5. <<"osm_id">> \in names /\ \A f \in metadata : <<f>> \in names
      BY <2>4, TableColumns DEF names
    <2>6. CASE k \in 1..count
      <3>1. SelectedFields[k] \in metadata
        BY <2>6, FieldsSelected DEF LayoutInv
      <3> QED
        BY <2>2, <2>5, <2>6, <3>1 DEF Asked
    <2>7. CASE statement \notin ById /\ k = id
      BY <2>2, <2>5, <2>7 DEF Asked
    <2>8. CASE statement # Without /\ k = tag
      <3>1. <<"tags">> \in NameSet(OwnColumns(table))
        <4>1. statement \in NodeStatements \ {Without} \/ statement \in OtherStatements
          BY <1>5, <2>8 DEF OtherStatements
        <4>2. table \in {"POINT", "WAYS_LINEAR", "RELATION_OTHER"}
          BY <4>1, TablesAsked
        <4> QED
          BY <4>2, OwnColumnsOf
      <3> QED
        BY <1>2, <2>2, <2>8, <3>1 DEF Asked
    <2>9. CASE statement \in NodeStatements /\ k \in {tag + 1, tag + 2}
      <3>1. CASE statement # Without
        <4>1. table = "POINT"
          BY <2>9, <3>1, TablesAsked
        <4>2. <<"geom">> \in names /\ geom_column_name = <<"geom">>
          BY <1>2, <4>1, OwnColumnsOf, TableColumns
        <4>3. row[k] \in {<<"ST_X">> \o geom_column_name, <<"ST_Y">> \o geom_column_name}
          BY <2>2, <2>9, <3>1 DEF LocationColumns
        <4> QED
          BY <4>2, <4>3 DEF Asked
      <3>2. CASE statement = Without
        <4>1. {<<"x">>, <<"y">>} \subseteq names
          BY <1>2, <3>2, TablesAsked, OwnColumnsOf
        <4>2. row[k] \in {<<"x">>, <<"y">>}
          BY <2>2, <2>9, <3>2 DEF LocationColumns, NoTable
        <4> QED
          BY <4>1, <4>2 DEF Asked
      <3> QED
        BY <3>1, <3>2
    <2>10. CASE statement \in NodeStatements \ {Without} /\ k > place
      <3>1. k - place \in 1..styled /\ place + (k - place) = k
        <4>1. styled \in Nat /\ place \in Nat
          BY <2>2, <2>3
        <4> QED
          BY <4>1, <2>10, <2>12
      <3>2. row[k] = m_point_columns[k - place].name
        BY <2>2, <2>10, <3>1
      <3>3. NameSet(m_point_columns) \subseteq names
        BY <2>10, TablesAsked, TableColumns DEF names
      <3>4. k - place \in DOMAIN m_point_columns
        BY <3>1, NamesOfColumns DEF LayoutInv, styled
      <3>5. row[k] \in names
        BY <3>2, <3>3, <3>4 DEF NameSet
      <3> QED
        BY <3>5 DEF Asked
    <2>11. \/ k \in 1..count \/ (statement \notin ById /\ k = id)
           \/ (statement # Without /\ k = tag)
           \/ (statement \in NodeStatements /\ k \in {tag + 1, tag + 2})
           \/ (statement \in NodeStatements \ {Without} /\ k > place)
      <3>1. CASE k <= count
        BY <2>12, <3>1, <2>2
      <3>2. CASE k > count /\ k <= id
        BY <2>2, <2>3, <2>12, <3>2
      <3>3. CASE k > id /\ k <= tag
        BY <2>3, <2>12, <3>3
      <3>4. CASE k > tag /\ k <= place
        BY <2>3, <2>12, <3>4
      <3>5. CASE k > place
        BY <2>3, <2>12, <3>5
      <3> QED
        BY <2>2, <2>3, <2>12, <3>1, <3>2, <3>3, <3>4, <3>5
    <2> QED
      BY <2>6, <2>7, <2>8, <2>9, <2>10, <2>11
  <1> QED
    BY <1>1, <1>3, <1>4, <1>5

-----------------------------------------------------------------------------
(***************************************************************************)
(* The steps.                                                              *)
(***************************************************************************)

(* Neither the names nor the number of the fields change.                  *)
LEMMA FieldsKept ==
    ASSUME UNCHANGED <<statement, metadata>>
    PROVE  SelectedFields' = SelectedFields /\ count' = count
  BY DEF SelectedFields, count

(* An object with the values common to all.                                *)
LEMMA ObjectAgrees ==
    ASSUME LayoutInv, statement \in Statements \ MemberStatements,
           UNCHANGED <<statement, metadata>>,
           object'.id = Common.id, object'.tags = Common.tags,
           object'.metadata = Common.metadata,
           statement \in NodeStatements =>
            \/ /\ object'.x = <<"ST_X", "geom">> /\ object'.y = <<"ST_Y", "geom">>
               /\ object'.conversion = "atof"
            \/ /\ object'.x = <<"x">> /\ object'.y = <<"y">>
               /\ object'.conversion = "fix_to_double",
           statement \in NodeStatements \ {Without} =>
            object'.additional_values = object'.columns
    PROVE  OffsetsAgree' /\ FieldsAgree'
  <1>1. CommonAgrees
    BY CommonRead
  <1>2. OffsetsAgree'
    BY <1>1 DEF OffsetsAgree, CommonAgrees, NULL
  <1>3. FieldsAgree'
    BY <1>1, FieldsKept DEF FieldsAgree, CommonAgrees, NULL
  <1> QED
    BY <1>2, <1>3

(* parse_node_query_result: the location follows the tags, if these are    *)
(* selected, and the columns of the style follow the location.             *)
LEMMA NodeParsed ==
    ASSUME LayoutInv, ParseNode
    PROVE  OffsetsAgree' /\ FieldsAgree'
  <1> DEFINE id == IF statement \in ById THEN count ELSE count + 1
             tag == IF statement = Without THEN id ELSE id + 1
             place == tag + 2
             names == Len(m_point_columns)
             values == AdditionalValues(m_point_columns, place)
  <1>1. /\ statement \in NodeStatements /\ statement \in Statements \ MemberStatements
        /\ row = SelectObjects(statement)
    BY TablesAsked DEF ParseNode, LayoutInv, SelectedBy, Statements, TableOf
  <1>2. /\ count \in Nat /\ names \in Nat
        /\ Len(row) = IF statement \in NodeStatements \ {Without} THEN place + names ELSE place
        /\ row[tag + 1] = LocationColumns(statement)[1]
        /\ row[tag + 2] = LocationColumns(statement)[2]
        /\ statement \in NodeStatements \ {Without} =>
                \A j \in 1..names : row[place + j] = m_point_columns[j].name
    BY <1>1, RowOfObjects
  <1>3. id \in Nat /\ tag \in Nat /\ place \in Nat /\ tags_field_offset = id
    <2>1. id \in Nat /\ tags_field_offset = id
      BY <1>2 DEF tags_field_offset
    <2> HIDE DEF id
    <2>2. tag \in Nat
      BY <2>1
    <2> HIDE DEF tag
    <2> QED
      BY <2>1, <2>2
  <1>4. /\ statement # Without => tag = tags_field_offset + 1
        /\ statement = Without => tag = tags_field_offset
    BY <1>3
  <1>5. /\ object'.id = Common.id /\ object'.tags = Common.tags
        /\ object'.metadata = Common.metadata
        /\ object'.x = PQgetvalue(tag) /\ object'.y = PQgetvalue(tag + 1)
        /\ object'.conversion = Conversion
        /\ object'.columns = Names(m_point_columns)
        /\ statement # Without => object'.additional_values = values
        /\ UNCHANGED <<statement, metadata>>
    <2> HIDE DEF tag
    <2>1. PICK C : C = Common
      OBVIOUS
    <2>2. \E p, r, i, t, m, x, y, c, n, a :
            C = [parsed |-> p, id |-> i, tags |-> t, metadata |-> m, x |-> x, y |-> y,
                 conversion |-> c, columns |-> n, additional_values |-> a]
      BY <2>1 DEF Common
    <2>3. PICK X, Y, V, N :
            /\ X = PQgetvalue(tag) /\ Y = PQgetvalue(tag + 1) /\ N = Names(m_point_columns)
            /\ V = IF statement # Without THEN AdditionalValues(m_point_columns, tag + 2) ELSE <<>>
      OBVIOUS
    <2>4. object' = [C EXCEPT !.x = X, !.y = Y, !.conversion = Conversion, !.columns = N,
                              !.additional_values = V]
      BY <1>4, <2>1, <2>3 DEF ParseNode
    <2>5. PICK K : K = Conversion
      OBVIOUS
    <2>6. /\ object'.id = C.id /\ object'.tags = C.tags /\ object'.metadata = C.metadata
          /\ object'.x = X /\ object'.y = Y /\ object'.conversion = K
          /\ object'.columns = N /\ object'.additional_values = V
      BY <2>2, <2>4, <2>5
    <2>7. UNCHANGED <<statement, metadata>>
      BY DEF ParseNode, options
    <2> QED
      BY <2>1, <2>3, <2>5, <2>6, <2>7
  <1> HIDE DEF id, tag
  <1>6. Len(row) \in Nat /\ place <= Len(row)
    BY <1>2, <1>3
  <1>7. /\ object'.x = LocationColumns(statement)[1]
        /\ object'.y = LocationColumns(statement)[2]
    <2>1. PQgetvalue((tag + 1) - 1) = row[tag + 1] /\ PQgetvalue((tag + 2) - 1) = row[tag + 2]
      BY <1>3, <1>6, ValueInside
    <2>2. (tag + 1) - 1 = tag /\ (tag + 2) - 1 = tag + 1
      BY <1>3
    <2> QED
      BY <1>2, <1>5, <2>1, <2>2
  <1>8. geom_column_name = <<"geom">>
    BY TableColumns
  <1>9. \/ /\ object'.x = <<"ST_X", "geom">> /\ object'.y = <<"ST_Y", "geom">>
           /\ object'.conversion = "atof"
        \/ /\ object'.x = <<"x">> /\ object'.y = <<"y">>
           /\ object'.conversion = "fix_to_double"
    <2>1. <<"ST_X">> \o <<"geom">> = <<"ST_X", "geom">>
            /\ <<"ST_Y">> \o <<"geom">> = <<"ST_Y", "geom">>
      BY OneWordMore
    <2> DEFINE Geometry == statement # Without \/ m_untagged_nodes_geom
    <2>2. CASE Geometry
      <3>1. LocationColumns(statement) =
                << <<"ST_X">> \o geom_column_name, <<"ST_Y">> \o geom_column_name >>
        BY <2>2 DEF LocationColumns
      <3>2. Conversion = "atof"
        BY <2>2 DEF Conversion
      <3> HIDE DEF Geometry
      <3> QED
        BY <1>5, <1>7, <1>8, <2>1, <3>1, <3>2
    <2>3. CASE ~Geometry
      <3>1. LocationColumns(statement) = << <<"x">>, <<"y">> >>
        BY <2>3 DEF LocationColumns
      <3>2. Conversion = "fix_to_double"
        BY <2>3 DEF Conversion
      <3> HIDE DEF Geometry
      <3> QED
        BY <1>5, <1>7, <3>1, <3>2
    <2> QED
      BY <2>2, <2>3
  <1>10. statement \in NodeStatements \ {Without} => object'.additional_values = object'.columns
    <2> SUFFICES ASSUME statement \in NodeStatements \ {Without}
                 PROVE  values = Names(m_point_columns)
      BY <1>5
    <2>1. DOMAIN m_point_columns = 1..names
      BY NamesOfColumns DEF LayoutInv
    <2> HIDE DEF names, place
    <2>2. ASSUME NEW j \in DOMAIN m_point_columns
          PROVE  PQgetvalue(place + j - 1) = m_point_columns[j].name
      <3>1. place + j \in Nat /\ 1 <= place + j /\ place + j <= Len(row)
        BY <1>2, <1>3, <2>1, <2>2
      <3>2. PQgetvalue((place + j) - 1) = row[place + j]
        BY <1>6, <3>1, ValueInside
      <3>3. row[place + j] = m_point_columns[j].name
        <4>1. j \in 1..names
          BY <2>1, <2>2
        <4> QED
          BY <1>2, <4>1
      <3>4. place + j - 1 = (place + j) - 1
        BY <1>2, <1>3, <2>1, <2>2
      <3> QED
        BY <3>2, <3>3, <3>4
    <2> QED
      BY <2>2 DEF AdditionalValues, Names
  <1> QED
    BY <1>1, <1>5, <1>9, <1>10, ObjectAgrees

(* parse_way_query_result and parse_relation_query_result.                 *)
LEMMA WayOrRelationParsed ==
    ASSUME LayoutInv, ParseWayOrRelation
    PROVE  OffsetsAgree' /\ FieldsAgree'
  <1>1. /\ statement \in Statements \ MemberStatements /\ statement \notin NodeStatements
        /\ UNCHANGED <<statement, metadata>>
    BY DEF ParseWayOrRelation, OtherStatements, options
  <1>2. /\ object'.id = Common.id /\ object'.tags = Common.tags
        /\ object'.metadata = Common.metadata
    <2>1. PICK C : C = Common
      OBVIOUS
    <2>2. \E p, i, t, m, x, y, c, n, a :
            C = [parsed |-> p, id |-> i, tags |-> t, metadata |-> m, x |-> x, y |-> y,
                 conversion |-> c, columns |-> n, additional_values |-> a]
      BY <2>1 DEF Common
    <2>3. PICK V, N : N = Names(m_polygon_columns)
                        /\ V = AdditionalValues(m_polygon_columns, tags_field_offset + 1)
      OBVIOUS
    <2>4. object' = [C EXCEPT !.columns = N, !.additional_values = V]
      BY <2>1, <2>3 DEF ParseWayOrRelation
    <2>5. object'.id = C.id /\ object'.tags = C.tags /\ object'.metadata = C.metadata
      BY <2>2, <2>4
    <2> QED
      BY <2>1, <2>5
  <1> QED
    BY <1>1, <1>2, ObjectAgrees

(* The nodes of a way and the members of a relation.                       *)
LEMMA MemberParsed ==
    ASSUME LayoutInv, ParseMember
    PROVE  OffsetsAgree' /\ FieldsAgree'
  <1>1. statement \in MemberStatements /\ statement' = statement
    BY DEF ParseMember
  <1>2. row = SelectMembers(statement)
    BY <1>1, TablesAsked DEF LayoutInv, SelectedBy, Statements, TableOf
  <1>3. /\ object'.ref = PQgetvalue(0)
        /\ object'.role = IF statement = "get_way_nodes" THEN NULL ELSE PQgetvalue(1)
        /\ object'.pos = PQgetvalue(IF statement = "get_way_nodes" THEN 1 ELSE 2)
    BY DEF ParseMember
  <1>4. /\ object'.ref \in {<<"node_id">>, <<"member_id">>} /\ object'.pos = <<"position">>
        /\ object'.role \in {<<"role">>, NULL}
    <2>1. CASE statement = "get_way_nodes"
      <3>1. row = << <<"node_id">>, <<"position">> >>
        BY <1>2, <2>1 DEF SelectMembers
      <3>2. Len(row) = 2 /\ row[1] = <<"node_id">> /\ row[2] = <<"position">>
        BY <3>1, TwoThings
      <3>3. PQgetvalue(1 - 1) = row[1] /\ PQgetvalue(2 - 1) = row[2]
        BY <3>2, ValueInside
      <3> QED
        BY <1>3, <2>1, <3>2, <3>3
    <2>2. CASE statement # "get_way_nodes"
      <3>1. row = << <<"member_id">>, <<"role">>, <<"position">> >>
        BY <1>2, <2>2 DEF SelectMembers
      <3>2. /\ Len(row) = 3 /\ row[1] = <<"member_id">> /\ row[2] = <<"role">>
            /\ row[3] = <<"position">>
        BY <3>1, ThreeThings
      <3>3. /\ PQgetvalue(1 - 1) = row[1] /\ PQgetvalue(2 - 1) = row[2]
            /\ PQgetvalue(3 - 1) = row[3]
        BY <3>2, ValueInside
      <3> QED
        BY <1>3, <2>2, <3>2, <3>3
    <2> QED
      BY <2>1, <2>2
  <1> QED
    BY <1>1, <1>4 DEF OffsetsAgree, FieldsAgree, ParsedObject

(* Reading the style adds columns, before any statement is prepared.       *)
LEMMA StyleRead ==
    ASSUME LayoutInv, Parse
    PROVE  LayoutInv'
  <1>1. /\ pc # "parsed" /\ UNCHANGED <<options, statement, row, object>>
    BY DEF Parse, ParseStyle, NoStyle, OpenStyle, OpenStyleFails, GetLine, EndOfStyle,
           SkipBlank, TakeToken, AddColumns, Unsupported
  <1>2. AreColumns(m_point_columns') /\ AreColumns(m_line_columns')
    <2>1. AreColumns(m_point_columns) /\ AreColumns(m_line_columns)
      BY DEF LayoutInv
    <2>2. CASE AddColumns
      <3>1. PICK c : /\ m_point_columns' \in {m_point_columns, Append(m_point_columns, c)}
                     /\ m_line_columns' \in {m_line_columns, Append(m_line_columns, c)}
        BY <2>2 DEF AddColumns
      <3> QED
        BY <2>1, <3>1, OneColumnMore
    <2>3. CASE ~AddColumns
      <3>1. UNCHANGED columns
        BY <2>3 DEF Parse, ParseStyle, NoStyle, OpenStyle, OpenStyleFails, GetLine, EndOfStyle,
                    SkipBlank, TakeToken, Unsupported, ThrowStyle
      <3> QED
        BY <2>1, <3>1 DEF columns
    <2> QED
      BY <2>2, <2>3
  <1>3. statement = "" /\ row = <<>> /\ ~object.parsed
    BY <1>1 DEF LayoutInv
  <1> QED
    BY <1>1, <1>2, <1>3 DEF LayoutInv, options

(* The same columns and options make the same statements.                  *)
LEMMA StatementsKept ==
    ASSUME UNCHANGED <<styleVars, options>>, NEW s
    PROVE  SelectedBy(s)' = SelectedBy(s)
  <1>1. UNCHANGED <<m_point_columns, m_line_columns, metadata, m_untagged_nodes_geom>>
    BY DEF styleVars, columns, options
  <1>2. /\ SelectedFields' = SelectedFields /\ geom_column_name' = geom_column_name
        /\ Names(m_point_columns)' = Names(m_point_columns)
    BY <1>1 DEF SelectedFields, geom_column_name, build_table
  <1>3. LocationColumns(s)' = LocationColumns(s)
    BY <1>1, <1>2 DEF LocationColumns
  <1>4. SelectObjects(s)' = SelectObjects(s) /\ SelectMembers(s)' = SelectMembers(s)
    BY <1>1, <1>2, <1>3 DEF SelectObjects, SelectMembers
  <1> QED
    BY <1>4 DEF SelectedBy

(* A row is what its statement selects.                                    *)
LEMMA StatementRun ==
    ASSUME LayoutInv, RunStatement
    PROVE  LayoutInv' /\ OffsetsAgree' /\ FieldsAgree'
  <1>1. /\ pc = "parsed" /\ row = <<>> /\ statement' \in Statements
        /\ row' = SelectedBy(statement')
        /\ UNCHANGED <<styleVars, options, object>>
    BY DEF RunStatement, SelectedBy
  <1>2. ~object.parsed
    BY <1>1 DEF LayoutInv
  <1>3. OffsetsAgree' /\ FieldsAgree'
    BY <1>1, <1>2 DEF OffsetsAgree, FieldsAgree, ParsedObject
  <1>4. row' = SelectedBy(statement)'
    <2>1. PICK s : s = statement'
      OBVIOUS
    <2>2. SelectedBy(s)' = SelectedBy(s)
      BY <1>1, StatementsKept
    <2>3. SelectedBy(statement)' = SelectedBy(s)'
      BY <2>1
    <2> QED
      BY <1>1, <2>1, <2>2, <2>3
  <1>5. statement' # ""
    BY <1>1 DEF Statements, TableOf
  <1> QED
    BY <1>1, <1>2, <1>3, <1>4, <1>5 DEF LayoutInv, options, styleVars, columns

(* Parsing a row changes neither the row nor its statement.                *)
LEMMA ObjectParsed ==
    ASSUME LayoutInv, UNCHANGED <<styleVars, options, statement, row>>,
           object'.parsed => row # <<>>
    PROVE  LayoutInv'
  <1>1. SelectedBy(statement)' = SelectedBy(statement)
    <2>1. PICK s : s = statement
      OBVIOUS
    <2>2. SelectedBy(s)' = SelectedBy(s)
      BY StatementsKept
    <2>3. SelectedBy(statement)' = SelectedBy(s)'
      BY <2>1
    <2> QED
      BY <2>1, <2>2, <2>3
  <1> QED
    BY <1>1 DEF LayoutInv, options, styleVars, columns

RowInv == LayoutInv /\ OffsetsAgree /\ FieldsAgree

(* At first nothing is parsed.                                             *)
LEMMA LayoutInit == Init => RowInv
  <1> SUFFICES ASSUME Init PROVE RowInv
    OBVIOUS
  <1>1. AreColumns(m_point_columns) /\ AreColumns(m_line_columns)
    BY NoColumns DEF Init, InitStyle
  <1>2. ~object.parsed
    BY DEF Init, NoObject
  <1> QED
    BY <1>1, <1>2 DEF Init, RowInv, LayoutInv, OffsetsAgree, FieldsAgree, ParsedObject

(* Each step leaves objects that agree with the rows they were read from.  *)
LEMMA LayoutStep == RowInv /\ [Next]_vars => RowInv'
  <1> SUFFICES ASSUME RowInv, [Next]_vars PROVE RowInv'
    OBVIOUS
  <1>0. LayoutInv /\ OffsetsAgree /\ FieldsAgree
    BY DEF RowInv
  <1>1. CASE Parse
    <2>1. ~object.parsed /\ object' = object
      BY <1>0, <1>1 DEF LayoutInv, Parse, ParseStyle, NoStyle, OpenStyle, OpenStyleFails,
                        GetLine, EndOfStyle, SkipBlank, TakeToken, AddColumns, Unsupported
    <2>2. OffsetsAgree' /\ FieldsAgree'
      BY <2>1 DEF OffsetsAgree, FieldsAgree, ParsedObject
    <2> QED
      BY <1>0, <1>1, <2>2, StyleRead DEF RowInv
  <1>2. CASE RunStatement
    BY <1>0, <1>2, StatementRun DEF RowInv
  <1>3. CASE ParseNode
    <2>1. row # <<>> /\ UNCHANGED <<styleVars, options, statement, row>>
      BY <1>3 DEF ParseNode
    <2> QED
      BY <1>0, <1>3, <2>1, NodeParsed, ObjectParsed DEF RowInv
  <1>4. CASE ParseWayOrRelation
    <2>1. row # <<>> /\ UNCHANGED <<styleVars, options, statement, row>>
      BY <1>4 DEF ParseWayOrRelation
    <2> QED
      BY <1>0, <1>4, <2>1, WayOrRelationParsed, ObjectParsed DEF RowInv
  <1>5. CASE ParseMember
    <2>1. row # <<>> /\ UNCHANGED <<styleVars, options, statement, row>>
      BY <1>5 DEF ParseMember
    <2> QED
      BY <1>0, <1>5, <2>1, MemberParsed, ObjectParsed DEF RowInv
  <1>6. CASE UNCHANGED vars
    <2>1. UNCHANGED <<styleVars, options, statement, row, object>>
      BY <1>6 DEF vars
    <2>2. OffsetsAgree' /\ FieldsAgree'
      <3>1. UNCHANGED <<statement, metadata, object>>
        BY <2>1 DEF options
      <3> QED
        BY <1>0, <3>1, FieldsKept DEF OffsetsAgree, FieldsAgree, ParsedObject
    <2>3. LayoutInv'
      <3>1. object'.parsed => row # <<>>
        BY <1>0, <2>1 DEF LayoutInv
      <3> QED
        BY <1>0, <2>1, <3>1, ObjectParsed
    <2> QED
      BY <2>2, <2>3 DEF RowInv
  <1> QED
    BY <1>1, <1>2, <1>3, <1>4, <1>5, <1>6 DEF Next

(* So they always do.                                                      *)
LEMMA RowInvariant == Spec => []RowInv
  BY LayoutInit, LayoutStep, PTL DEF Spec

-----------------------------------------------------------------------------
(* Whatever fields are asked for and whether a statement selects the id,   *)
(* the parse_*_query_result functions find id, tags, location, references, *)
(* roles and the columns of the style at the offsets they count.           *)
THEOREM OffsetsAlwaysAgree == Spec => []OffsetsAgree
  <1>1. RowInv => OffsetsAgree
    BY DEF RowInv
  <1> QED
    BY <1>1, RowInvariant, PTL

(* With any fields asked for, user id, version and timestamp are read from *)
(* the columns MetadataFields selects for them, whatever is before these,  *)
(* and what is not asked for stays empty.                                  *)
THEOREM FieldsAlwaysAgree == Spec => []FieldsAgree
  <1>1. RowInv => FieldsAgree
    BY DEF RowInv
  <1> QED
    BY <1>1, RowInvariant, PTL

(* The statements ask no table for a column that Columns does not create.  *)
THEOREM SelectedColumnsAlwaysExist == Spec => []SelectedColumnsExist
  <1>1. RowInv => SelectedColumnsExist
    BY ColumnsThere DEF RowInv
  <1> QED
    BY <1>1, RowInvariant, PTL

-----------------------------------------------------------------------------
(***************************************************************************)
(* The style file. First the words of a line, as the parser finds them.    *)
(***************************************************************************)

(* A set of numbers that is not empty has a least one.                     *)
LEMMA Least ==
    ASSUME NEW T \in SUBSET Nat, T # {}
    PROVE  \E x \in T : \A y \in T : x <= y
  <1> DEFINE R == OpToRel(<, Nat)
  <1>1. IsWellFoundedOn(R, Nat)
    BY NatLessThanWellFounded
  <1> HIDE DEF R
  <1>2. PICK x \in T : \A y \in T : ~(<<y, x>> \in R)
    BY <1>1, WFMin, Zenon
  <1>3. \A y, z \in Nat : y < z => <<y, z>> \in R
    BY Zenon DEF R, OpToRel
  <1>4. ASSUME NEW y \in T PROVE ~(y < x)
    BY <1>2, <1>3, Zenon
  <1> QED
    BY <1>4

(* The first position of a character from another on.                      *)
FirstOf(c, s, from, at) ==
    \/ at = npos /\ \A i \in (from + 1)..Len(s) : s[i] # c
    \/ /\ at \in from..(Len(s) - 1) /\ s[at + 1] = c
       /\ \A i \in (from + 1)..at : s[i] # c

(* It is what find_first_of returns.                                       *)
LEMMA Found ==
    ASSUME NEW s, Len(s) \in Nat, NEW c, NEW from \in Nat
    PROVE  FirstOf(c, s, from, find_first_of(c, s, from))
  <1> DEFINE found == {i \in from..(Len(s) - 1) : s[i + 1] = c}
             at == find_first_of(c, s, from)
             n == Len(s)
  <1>1. CASE found = {}
    <2>1. at = npos
      BY <1>1 DEF find_first_of
    <2>2. ASSUME NEW i \in (from + 1)..n PROVE s[i] # c
      <3>1. i - 1 \in from..(n - 1) /\ i - 1 + 1 = i
        OBVIOUS
      <3> QED
        BY <1>1, <3>1
    <2> QED
      BY <2>1, <2>2 DEF FirstOf
  <1>2. CASE found # {}
    <2>1. found \in SUBSET Nat
      OBVIOUS
    <2>2. \E i \in found : \A j \in found : i <= j
      BY <1>2, <2>1, Least
    <2>3. at = CHOOSE i \in found : \A j \in found : i <= j
      BY <1>2 DEF find_first_of
    <2>4. at \in found /\ \A j \in found : at <= j
      BY <2>2, <2>3, Zenon
    <2>5. ASSUME NEW i \in (from + 1)..at PROVE s[i] # c
      <3>0. at \in Nat /\ at \in from..(n - 1)
        BY <2>4
      <3> HIDE DEF at
      <3>1. i - 1 \in from..(n - 1) /\ i - 1 + 1 = i /\ ~(at <= i - 1)
        BY <3>0
      <3> QED
        BY <2>4, <3>1
    <2>6. at \in from..(Len(s) - 1) /\ s[at + 1] = c
      BY <2>4, Zenon
    <2> QED
      BY <2>5, <2>6, Zenon DEF FirstOf
  <1> QED
    BY <1>1, <1>2

(* A part of a sequence.                                                   *)
LEMMA PartOf ==
    ASSUME NEW S, NEW s \in Seq(S), NEW from \in Nat, NEW to \in Nat, 1 <= from, to <= Len(s),
           from <= to + 1
    PROVE  /\ SubSeq(s, from, to) \in Seq(S) /\ Len(SubSeq(s, from, to)) = to - from + 1
           /\ \A i \in 1..(to - from + 1) : SubSeq(s, from, to)[i] = s[from + i - 1]
  OBVIOUS

(* What is left of a line without its comment.                             *)
TextIs(l, m) ==
    /\ m \in Seq(STRING) /\ Len(m) <= Len(l) /\ \A i \in 1..Len(m) : m[i] = l[i]
    /\ Text(l) = {i \in 1..Len(m) : m[i] # Blank}

(* The parser erases the first hash and all behind it.                     *)
LEMMA CommentGone ==
    ASSUME NEW l \in Seq(STRING)
    PROVE  TextIs(l, WithoutComment(l))
  <1> DEFINE at == find_first_of(Hash, l, 0)
             n == IF at = npos THEN Len(l) ELSE at
             m == WithoutComment(l)
  <1>1. FirstOf(Hash, l, 0, at)
    BY Found
  <1>2. m = SubSeq(l, 1, n)
    BY DEF WithoutComment, substr
  <1>3. /\ n \in Nat /\ n <= Len(l) /\ \A i \in 1..n : l[i] # Hash
        /\ n < Len(l) => l[n + 1] = Hash
    <2>1. Len(l) \in Nat
      OBVIOUS
    <2>2. CASE at = npos
      BY <1>1, <2>1, <2>2 DEF FirstOf, npos
    <2>3. CASE at # npos
      <3>1. at \in 0..(Len(l) - 1) /\ l[at + 1] = Hash /\ \A i \in (0 + 1)..at : l[i] # Hash
        BY <1>1, <2>3, Zenon DEF FirstOf
      <3>2. n = at
        BY <2>3
      <3> HIDE DEF at, n
      <3> QED
        BY <2>1, <3>1, <3>2
    <2> QED
      BY <2>2, <2>3
  <1> HIDE DEF n, at
  <1>4. m \in Seq(STRING) /\ Len(m) = n /\ \A i \in 1..n : m[i] = l[i]
    <2>1. /\ SubSeq(l, 1, n) \in Seq(STRING) /\ Len(SubSeq(l, 1, n)) = n - 1 + 1
          /\ \A i \in 1..(n - 1 + 1) : SubSeq(l, 1, n)[i] = l[1 + i - 1]
      BY <1>3, PartOf
    <2>2. n - 1 + 1 = n /\ \A i \in 1..n : 1 + i - 1 = i
      BY <1>3
    <2> HIDE DEF m
    <2> QED
      BY <1>2, <2>1, <2>2
  <1> HIDE DEF m
  <1>5. ASSUME NEW i \in Text(l) PROVE i \in 1..n /\ l[i] # Blank
    <2>1. i \in 1..Len(l) /\ l[i] # Blank /\ \A j \in 1..i : l[j] # Hash
      BY DEF Text
    <2>2. ASSUME n < i PROVE FALSE
      <3>1. n + 1 \in 1..i /\ n < Len(l)
        BY <1>3, <2>1, <2>2
      <3> QED
        BY <1>3, <2>1, <3>1
    <2> QED
      BY <1>3, <2>1, <2>2
  <1>6. ASSUME NEW i \in 1..n, l[i] # Blank PROVE i \in Text(l)
    <2>1. i \in DOMAIN l /\ \A j \in 1..i : j \in 1..n
      BY <1>3
    <2> QED
      BY <1>3, <1>6, <2>1 DEF Text
  <1>7. Text(l) = {i \in 1..Len(m) : m[i] # Blank}
    BY <1>4, <1>5, <1>6
  <1>8. Len(m) <= Len(l) /\ \A i \in 1..Len(m) : m[i] = l[i]
    BY <1>3, <1>4
  <1> QED
    BY <1>4, <1>7, <1>8, Zenon DEF TextIs, m

-----------------------------------------------------------------------------
(***************************************************************************)
(* Numbering the elements of a finite set.                                 *)
(***************************************************************************)

UpTo(S, n) == {j \in S : j <= n}

(* The number of an element is one, and at most that of all.               *)
LEMMA RankType ==
    ASSUME NEW S \in SUBSET Nat, IsFiniteSet(S), NEW n
    PROVE  /\ IsFiniteSet(UpTo(S, n)) /\ Cardinality(UpTo(S, n)) \in Nat
           /\ Rank(S, n) = Cardinality(UpTo(S, n))
           /\ Rank(S, n) \in Nat /\ Rank(S, n) <= Cardinality(S) /\ Cardinality(S) \in Nat
  <1>1. UpTo(S, n) \subseteq S
    BY DEF UpTo
  <1>2. Rank(S, n) = Cardinality(UpTo(S, n))
    BY DEF Rank, UpTo
  <1> QED
    BY <1>1, <1>2, FS_Subset, FS_CardinalityType

(* The next element has the next number.                                   *)
LEMMA RankNext ==
    ASSUME NEW S \in SUBSET Nat, IsFiniteSet(S), NEW p \in Nat, NEW q \in S, p < q,
           \A j \in S : j <= p \/ q <= j
    PROVE  Rank(S, q) = Cardinality(UpTo(S, p)) + 1
  <1>1. UpTo(S, q) = UpTo(S, p) \union {q} /\ q \notin UpTo(S, p)
    <2>1. ASSUME NEW j \in S PROVE j <= q <=> j <= p \/ j = q
      OBVIOUS
    <2>2. q \in Nat /\ ~(q <= p)
      OBVIOUS
    <2> QED
      BY <2>1, <2>2, Zenon DEF UpTo
  <1>2. Cardinality(UpTo(S, p) \union {q}) = Cardinality(UpTo(S, p)) + 1
    BY <1>1, RankType, FS_AddElement
  <1> QED
    BY <1>1, <1>2, RankType

(* Elements behind others have a greater number.                           *)
LEMMA RankGrows ==
    ASSUME NEW S \in SUBSET Nat, IsFiniteSet(S), NEW p \in Nat, NEW q \in S, p < q
    PROVE  Cardinality(UpTo(S, p)) < Rank(S, q)
  <1>1. UpTo(S, p) \union {q} \subseteq UpTo(S, q) /\ q \notin UpTo(S, p)
    <2>1. ASSUME NEW j \in S PROVE j <= p \/ j = q => j <= q
      OBVIOUS
    <2>2. q \in Nat /\ ~(q <= p)
      OBVIOUS
    <2> QED
      BY <2>1, <2>2, Zenon DEF UpTo
  <1>2. Cardinality(UpTo(S, p) \union {q}) = Cardinality(UpTo(S, p)) + 1
    BY <1>1, RankType, FS_AddElement
  <1>3. Cardinality(UpTo(S, p) \union {q}) <= Cardinality(UpTo(S, q))
    BY <1>1, RankType, FS_Subset
  <1>4. /\ Cardinality(UpTo(S, p)) \in Nat /\ Cardinality(UpTo(S, q)) \in Nat
        /\ Rank(S, q) = Cardinality(UpTo(S, q))
    BY RankType
  <1> QED
    BY <1>2, <1>3, <1>4

(* No two elements have the same number.                                   *)
LEMMA RankUnique ==
    ASSUME NEW S \in SUBSET Nat, IsFiniteSet(S), NEW a \in S, NEW b \in S, Rank(S, a) = Rank(S, b)
    PROVE  a = b
  <1>1. ASSUME NEW p \in S, NEW q \in S, p < q PROVE Rank(S, p) # Rank(S, q)
    <2>1. Cardinality(UpTo(S, p)) < Rank(S, q)
      BY <1>1, RankGrows
    <2>2. Rank(S, p) = Cardinality(UpTo(S, p)) /\ Rank(S, p) \in Nat /\ Rank(S, q) \in Nat
      BY RankType
    <2> QED
      BY <2>1, <2>2
  <1>2. ~(a < b) /\ ~(b < a)
    BY <1>1
  <1> QED
    BY <1>2

-----------------------------------------------------------------------------
(* The starts of the words are positions of the line.                      *)
LEMMA StartsAreNumbers ==
    ASSUME NEW l \in Seq(STRING)
    PROVE  Starts(l) \in SUBSET Nat /\ IsFiniteSet(Starts(l)) /\ 0 \notin Starts(l)
  <1>1. Starts(l) \subseteq 1..Len(l) /\ Len(l) \in Nat
    BY DEF Starts, Text
  <1>2. IsFiniteSet(1..Len(l))
    BY <1>1, FS_Interval
  <1>3. IsFiniteSet(Starts(l))
    BY <1>1, <1>2, FS_Subset
  <1> QED
    BY <1>1, <1>3

(* The word with some number.                                              *)
LEMMA WordAt ==
    ASSUME NEW l \in Seq(STRING), NEW from \in Starts(l), NEW to \in Nat, IsWord(l, from, to)
    PROVE  Word(l, Rank(Starts(l), from)) = SubSeq(l, from, to)
  <1> DEFINE k == Rank(Starts(l), from)
             start == CHOOSE i \in Starts(l) : Rank(Starts(l), i) = k
             end == CHOOSE i \in Text(l) : IsWord(l, start, i)
  <1>1. start \in Starts(l) /\ Rank(Starts(l), start) = k
    OBVIOUS
  <1> HIDE DEF k
  <1>2. start = from
    <2> HIDE DEF start
    <2> QED
      BY <1>1, StartsAreNumbers, RankUnique DEF k
  <1>3. from \in Nat /\ to \in Text(l) /\ from..to \subseteq Text(l) /\ Text(l) \subseteq Nat
    BY StartsAreNumbers DEF IsWord, Text
  <1>4. end \in Text(l) /\ IsWord(l, from, end)
    BY <1>2, <1>3
  <1> HIDE DEF start, end
  <1>5. end = to
    <2>0. end \in Nat
      BY <1>3, <1>4
    <2>1. ASSUME end < to PROVE FALSE
      <3>1. end + 1 \in from..to
        BY <1>3, <1>4, <2>0, <2>1 DEF IsWord
      <3> QED
        BY <1>3, <1>4, <3>1 DEF IsWord
    <2>2. ASSUME to < end PROVE FALSE
      <3>1. to + 1 \in from..end
        BY <1>3, <2>0, <2>2 DEF IsWord
      <3> QED
        BY <1>4, <3>1 DEF IsWord
    <2> QED
      BY <2>0, <2>1, <2>2
  <1>6. Word(l, k) = SubSeq(l, start, end)
    <2>1. ~ \A i \in Starts(l) : Rank(Starts(l), i) # k
      BY DEF k
    <2> QED
      BY <2>1, Zenon DEF Word, start, end
  <1> QED
    BY <1>2, <1>5, <1>6, Zenon DEF k

(* There are as many words as starts.                                      *)
LEMMA NoWord ==
    ASSUME NEW l \in Seq(STRING), NEW k \in Nat, Cardinality(Starts(l)) < k
    PROVE  Word(l, k) = <<>>
  <1>1. ASSUME NEW i \in Starts(l) PROVE Rank(Starts(l), i) # k
    BY StartsAreNumbers, RankType
  <1> QED
    BY <1>1, Zenon DEF Word

(* Two sequences with the same elements.                                   *)
LEMMA SeqEqual ==
    ASSUME NEW S, NEW a \in Seq(S), NEW b \in Seq(S), Len(a) = Len(b),
           \A i \in 1..Len(a) : a[i] = b[i]
    PROVE  a = b
  OBVIOUS

(* The next word behind a position outside of words.                       *)
NextWord(l, m, p, q) ==
    LET k == Cardinality(UpTo(Starts(l), p)) + 1
    IN  /\ SubSeq(m, p + 1, q) = Word(l, k) /\ Word(l, k) # <<>>
        /\ Cardinality(UpTo(Starts(l), q + 1)) = k

(* It is found between two positions that are not in words.                *)
LEMMA WordThere ==
    ASSUME NEW l \in Seq(STRING), NEW m, TextIs(l, m), NEW p \in Nat, NEW q \in Nat, p < q,
           q <= Len(m), p \notin Text(l), q + 1 \notin Text(l),
           \A i \in (p + 1)..q : m[i] # Blank
    PROVE  NextWord(l, m, p, q)
  <1> DEFINE k == Cardinality(UpTo(Starts(l), p)) + 1
             from == p + 1
             word == SubSeq(l, from, q)
  <1>1. /\ m \in Seq(STRING) /\ Len(m) \in Nat /\ Len(l) \in Nat /\ Len(m) <= Len(l)
        /\ \A i \in 1..Len(m) : m[i] = l[i]
    BY DEF TextIs
  <1>2. from \in Nat /\ from <= q /\ 1 <= from /\ from - 1 = p /\ p < from
    OBVIOUS
  <1>3. from..q \subseteq Text(l)
    <2>1. \A i \in from..q : i \in 1..Len(m) /\ m[i] # Blank
      BY <1>1, <1>2
    <2> QED
      BY <2>1, Zenon DEF TextIs
  <1>4. from \in Starts(l)
    <2>1. from \in from..q
      BY <1>2
    <2> QED
      BY <1>2, <1>3, <2>1 DEF Starts
  <1>5. IsWord(l, from, q)
    BY <1>2, <1>3, Zenon DEF IsWord
  <1>6. Starts(l) \in SUBSET Nat /\ IsFiniteSet(Starts(l))
    BY StartsAreNumbers
  <1>7. Rank(Starts(l), from) = k
    <2>1. \A j \in Starts(l) : j <= p \/ from <= j
      BY <1>6
    <2> HIDE DEF from
    <2> QED
      BY <1>2, <1>4, <1>6, <2>1, RankNext
  <1>8. Word(l, k) = word
    <2> HIDE DEF from, k
    <2> QED
      BY <1>4, <1>5, <1>7, WordAt
  <1>9. /\ word \in Seq(STRING) /\ Len(word) = q - from + 1
        /\ \A i \in 1..(q - from + 1) : word[i] = l[from + i - 1]
    <2> HIDE DEF from
    <2> QED
      BY <1>1, <1>2, PartOf
  <1>10. SubSeq(m, from, q) = word
    <2> DEFINE part == SubSeq(m, from, q)
    <2>1. /\ part \in Seq(STRING) /\ Len(part) = q - from + 1
          /\ \A i \in 1..(q - from + 1) : part[i] = m[from + i - 1]
      <3> HIDE DEF from
      <3> QED
        BY <1>1, <1>2, PartOf
    <2>2. \A i \in 1..(q - from + 1) : from + i - 1 \in 1..Len(m)
      BY <1>1, <1>2
    <2>3. \A i \in 1..(q - from + 1) : part[i] = word[i]
      BY <1>1, <1>9, <2>1, <2>2, Zenon
    <2> HIDE DEF part, word, from
    <2>4. part = word
      BY <1>9, <2>1, <2>3, SeqEqual
    <2> QED
      BY <2>4 DEF part
  <1>11. word # <<>>
    <2> HIDE DEF word
    <2>1. Len(word) # 0
      BY <1>2, <1>9
    <2> QED
      BY <2>1
  <1>12. Cardinality(UpTo(Starts(l), q + 1)) = k
    <2>1. ASSUME NEW j \in Starts(l), j <= q + 1, ~(j <= from) PROVE FALSE
      <3>1. j \in Nat
        BY <1>6
      <3>2. j - 1 \in from..q
        BY <1>2, <2>1, <3>1
      <3> QED
        BY <1>3, <3>2 DEF Starts
    <2>2. \A j \in Nat : j <= from => j <= q + 1
      BY <1>2
    <2>3. \A j \in Starts(l) : j <= from <=> j <= q + 1
      BY <1>6, <2>1, <2>2
    <2>4. UpTo(Starts(l), q + 1) = UpTo(Starts(l), from)
      BY <2>3, Zenon DEF UpTo
    <2>5. Rank(Starts(l), from) = Cardinality(UpTo(Starts(l), from))
      BY <1>6, RankType
    <2> QED
      BY <1>7, <2>4, <2>5, Zenon
  <1> QED
    BY <1>8, <1>10, <1>11, <1>12, Zenon DEF NextWord

(* The loop has three cases: one more blank, a token with a blank behind   *)
(* it, and the last token of the line, which is empty when the line ends   *)
(* with a blank. A blank more leaves no word behind.                       *)
LEMMA BlankNext ==
    ASSUME NEW l \in Seq(STRING), NEW m, TextIs(l, m), NEW p \in 0..Len(m), p \notin Text(l),
           find_first_of(Blank, m, p) = p
    PROVE  /\ p + 1 \in 0..Len(m) /\ p + 1 \notin Text(l)
           /\ Cardinality(UpTo(Starts(l), p + 1)) = Cardinality(UpTo(Starts(l), p))
  <1>1. Len(m) \in Nat /\ p \in Nat
    BY DEF TextIs
  <1>2. p \in p..(Len(m) - 1) /\ m[p + 1] = Blank
    <2>1. FirstOf(Blank, m, p, p)
      BY <1>1, Found
    <2>2. p # npos
      BY <1>1 DEF npos
    <2> QED
      BY <2>1, <2>2, Zenon DEF FirstOf
  <1>3. p + 1 \notin Text(l)
    BY <1>2, Zenon DEF TextIs
  <1>4. ASSUME NEW j \in Starts(l), j <= p + 1 PROVE j <= p
    <2>1. j \in Nat /\ j # p + 1
      BY <1>3, StartsAreNumbers DEF Starts
    <2> QED
      BY <1>1, <1>4, <2>1
  <1>5. \A j \in Starts(l) : j <= p => j <= p + 1
    BY <1>1, StartsAreNumbers
  <1>6. UpTo(Starts(l), p + 1) = UpTo(Starts(l), p)
    BY <1>4, <1>5, Zenon DEF UpTo
  <1> QED
    BY <1>1, <1>2, <1>3, <1>6

(* A token with a blank behind it is the next word.                        *)
LEMMA TokenBeforeBlank ==
    ASSUME NEW l \in Seq(STRING), NEW m, TextIs(l, m), NEW p \in 0..Len(m), p \notin Text(l),
           NEW q, q = find_first_of(Blank, m, p), q # p, q # npos
    PROVE  /\ q + 1 \in 0..Len(m) /\ q + 1 \notin Text(l)
           /\ substr(m, p, q) = SubSeq(m, p + 1, q) /\ NextWord(l, m, p, q)
  <1>1. Len(m) \in Nat /\ p \in Nat
    BY DEF TextIs
  <1>2. /\ q \in p..(Len(m) - 1) /\ m[q + 1] = Blank
        /\ \A i \in (p + 1)..q : m[i] # Blank
    <2>1. FirstOf(Blank, m, p, q)
      BY <1>1, Found
    <2> QED
      BY <2>1, Zenon DEF FirstOf
  <1>3. q \in Nat /\ p < q /\ q <= Len(m) /\ q + 1 \in 0..Len(m)
    BY <1>1, <1>2
  <1>4. q + 1 \notin Text(l)
    BY <1>2, Zenon DEF TextIs
  <1>5. NextWord(l, m, p, q)
    BY <1>1, <1>2, <1>3, <1>4, WordThere
  <1> QED
    BY <1>3, <1>4, <1>5 DEF substr

(* Behind the last token there are no words.                               *)
LEMMA LastToken ==
    ASSUME NEW l \in Seq(STRING), NEW m, TextIs(l, m), NEW p \in 0..Len(m), p \notin Text(l),
           find_first_of(Blank, m, p) = npos
    PROVE  LET k == Cardinality(UpTo(Starts(l), p)) + 1
           IN  /\ substr(m, p, npos) = Word(l, k)
               /\ \A j \in Nat : k < j => Word(l, j) = <<>>
  <1> DEFINE k == Cardinality(UpTo(Starts(l), p)) + 1
             n == Len(m)
  <1>1. n \in Nat /\ p \in Nat /\ p <= n /\ n + 1 \in Nat /\ m \in Seq(STRING)
    BY DEF TextIs
  <1>2. \A i \in (p + 1)..n : m[i] # Blank
    <2>1. FirstOf(Blank, m, p, npos)
      BY <1>1, Found
    <2>2. npos \notin p..(Len(m) - 1)
      BY <1>1 DEF npos
    <2> QED
      BY <2>1, <2>2, Zenon DEF FirstOf
  <1>3. substr(m, p, npos) = SubSeq(m, p + 1, n)
    BY DEF substr
  <1>4. Starts(l) \in SUBSET Nat /\ IsFiniteSet(Starts(l)) /\ \A j \in Starts(l) : j \in 1..n
    <2>1. \A j \in Starts(l) : j \in 1..n
      BY Zenon DEF Starts, TextIs
    <2> QED
      BY <2>1, StartsAreNumbers
  <1>5. n + 1 \notin Text(l)
    <2>1. n + 1 \notin 1..n
      BY <1>1
    <2> QED
      BY <2>1, Zenon DEF TextIs
  <1>6. /\ Cardinality(UpTo(Starts(l), p)) \in Nat
        /\ Cardinality(Starts(l)) \in Nat
    BY <1>4, RankType
  <1> HIDE DEF n
  <1>7. \A h \in Nat : n <= h => UpTo(Starts(l), h) = Starts(l)
    <2>1. \A h \in Nat : n <= h => \A j \in Starts(l) : j <= h
      BY <1>1, <1>4
    <2> QED
      BY <2>1, Zenon DEF UpTo
  <1>8. CASE p = n
    <2>1. substr(m, p, npos) = <<>>
      BY <1>1, <1>3, <1>8
    <2>2. Cardinality(Starts(l)) + 1 = k
      <3>1. n \in Nat /\ n <= n
        BY <1>1
      <3>2. UpTo(Starts(l), p) = Starts(l)
        BY <1>7, <1>8, <3>1, Zenon
      <3> QED
        BY <3>2
    <2> HIDE DEF k
    <2>3. \A j \in Nat : k <= j => Word(l, j) = <<>>
      <3>1. \A j \in Nat : k <= j => Cardinality(Starts(l)) < j
        BY <1>6, <2>2
      <3> QED
        BY <3>1, NoWord
    <2>4. k \in Nat /\ k <= k /\ \A j \in Nat : k < j => k <= j
      BY <1>6, <2>2
    <2> QED
      BY <2>1, <2>3, <2>4 DEF k
  <1>9. CASE p # n
    <2>1. NextWord(l, m, p, n)
      BY <1>1, <1>2, <1>5, <1>9, WordThere DEF n
    <2>2. Cardinality(Starts(l)) = k
      <3>1. n <= n + 1
        BY <1>1
      <3>2. UpTo(Starts(l), n + 1) = Starts(l)
        BY <1>1, <1>7, <3>1, Zenon
      <3> QED
        BY <2>1, <3>2, Zenon DEF NextWord
    <2>3. \A j \in Nat : k < j => Word(l, j) = <<>>
      BY <2>2, NoWord
    <2>4. SubSeq(m, p + 1, n) = Word(l, k)
      BY <2>1, Zenon DEF NextWord
    <2> QED
      BY <1>3, <2>3, <2>4, Zenon
  <1> QED
    BY <1>8, <1>9

-----------------------------------------------------------------------------
(* A part of one element.                                                  *)
LEMMA OnePart ==
    ASSUME NEW S, NEW s \in Seq(S), NEW j \in 1..Len(s)
    PROVE  SubSeq(s, j, j) = <<s[j]>>
  <1> DEFINE a == SubSeq(s, j, j)
             b == <<s[j]>>
  <1>1. j \in Nat /\ 1 <= j /\ j <= Len(s) /\ j <= j + 1 /\ s[j] \in S /\ j - j + 1 = 1
        /\ j + 1 - 1 = j
    OBVIOUS
  <1>2. a \in Seq(S) /\ Len(a) = 1 /\ a[1] = s[j]
    <2>1. a \in Seq(S) /\ Len(a) = j - j + 1 /\ \A i \in 1..(j - j + 1) : a[i] = s[j + i - 1]
      BY <1>1, PartOf
    <2> HIDE DEF a
    <2> QED
      BY <1>1, <2>1
  <1>3. b \in Seq(S) /\ Len(b) = 1 /\ b[1] = s[j]
    BY <1>1
  <1> HIDE DEF a, b
  <1>4. a = b
    <2>1. \A i \in 1..Len(a) : a[i] = b[i]
      BY <1>2, <1>3
    <2> QED
      BY <1>2, <1>3, <2>1, SeqEqual
  <1> QED
    BY <1>4 DEF a, b

(* The parts of the flags.                                                 *)
LEMMA FlagFound ==
    ASSUME NEW f \in Seq(STRING), NEW w, w # Comma
    PROVE  <<w>> \in parse_flags(f) <=> IsFlag(f, w)
  <1> DEFINE n == Len(f)
             to(i) == find_first_of(Comma, f, i)
             end(i) == IF to(i) = npos THEN n ELSE to(i)
             part(i) == substr(f, i, to(i))
  <1>1. n \in Nat /\ DOMAIN f = 1..n
    OBVIOUS
  <1>2. \A i \in Nat : FirstOf(Comma, f, i, to(i))
    BY <1>1, Found
  <1>3. \A i : part(i) = SubSeq(f, i + 1, end(i))
    BY DEF substr
  <1>4. <<w>> \in parse_flags(f) <=> \E i \in 0..n : (i = 0 \/ f[i] = Comma) /\ part(i) = <<w>>
    BY Zenon DEF parse_flags
  <1>5. Len(<<w>>) = 1 /\ <<w>>[1] = w
    OBVIOUS
  <1>6. ASSUME NEW i \in 0..n
        PROVE  /\ end(i) \in i..n
               /\ end(i) = n \/ f[end(i) + 1] = Comma
               /\ \A j \in (i + 1)..end(i) : f[j] # Comma
    <2>1. i \in Nat /\ i <= n
      BY <1>1
    <2>2. CASE to(i) = npos
      <3>1. end(i) = n /\ i \notin {npos} /\ npos \notin i..(n - 1)
        BY <2>1, <2>2, <1>1 DEF npos
      <3>2. \A j \in (i + 1)..n : f[j] # Comma
        BY <1>2, <2>1, <2>2, <3>1, Zenon DEF FirstOf
      <3>3. n \in i..n
        BY <1>1, <2>1
      <3> QED
        BY <3>1, <3>2, <3>3, Zenon
    <2>3. CASE to(i) # npos
      <3>1. end(i) = to(i)
        BY <2>3
      <3>2. /\ to(i) \in i..(n - 1) /\ f[to(i) + 1] = Comma
            /\ \A j \in (i + 1)..to(i) : f[j] # Comma
        BY <1>2, <2>1, <2>3, Zenon DEF FirstOf
      <3> DEFINE e == to(i)
      <3>3. e \in i..n
        <4> HIDE DEF e
        <4> SUFFICES ASSUME e \in i..(n - 1) PROVE e \in i..n
          BY <3>2 DEF e
        <4> QED
          BY <1>1
      <3> QED
        BY <3>1, <3>2, <3>3, Zenon
    <2> QED
      BY <2>2, <2>3
  <1> HIDE DEF end, part, to
  <1>7. ASSUME NEW i \in 0..n, end(i) = i + 1 PROVE part(i) = <<f[i + 1]>>
    <2>1. i + 1 \in 1..n
      BY <1>1, <1>6, <1>7
    <2>2. part(i) = SubSeq(f, i + 1, i + 1)
      BY <1>3, <1>7
    <2>3. SubSeq(f, i + 1, i + 1) = <<f[i + 1]>>
      BY <2>1, OnePart
    <2> QED
      BY <2>2, <2>3
  <1>8. ASSUME NEW i \in 0..n, part(i) = <<w>> PROVE end(i) = i + 1
    <2>1. i \in Nat /\ end(i) \in Nat /\ end(i) <= n /\ i <= end(i) /\ 1 <= i + 1
          /\ i + 1 <= end(i) + 1 /\ i + 1 \in Nat
      BY <1>1, <1>6
    <2>2. Len(SubSeq(f, i + 1, end(i))) = end(i) - (i + 1) + 1
      BY <2>1, PartOf
    <2>3. end(i) - (i + 1) + 1 = 1
      BY <1>3, <1>5, <1>8, <2>2
    <2> QED
      BY <2>1, <2>3
  <1>9. ASSUME <<w>> \in parse_flags(f) PROVE IsFlag(f, w)
    <2>1. PICK i \in 0..n : (i = 0 \/ f[i] = Comma) /\ part(i) = <<w>>
      BY <1>4, <1>9
    <2>2. end(i) = i + 1 /\ i + 1 \in 1..n /\ i + 1 - 1 = i /\ (i = 0 => i + 1 = 1)
      BY <1>1, <1>6, <1>8, <2>1
    <2>3. f[i + 1] = w
      BY <1>5, <1>7, <2>1, <2>2
    <2>4. i + 1 = n \/ f[i + 1 + 1] = Comma
      BY <1>6, <2>2
    <2> DEFINE j == i + 1
    <2>5. j \in DOMAIN f /\ f[j] = w
      BY <1>1, <2>2, <2>3, Zenon
    <2>6. j = 1 \/ f[j - 1] = Comma
      <3>1. j - 1 = i /\ (i = 0 => j = 1)
        BY <2>2
      <3> HIDE DEF j
      <3> QED
        BY <2>1, <3>1, Zenon
    <2>7. j = Len(f) \/ f[j + 1] = Comma
      BY <2>4, Zenon
    <2> QED
      BY <2>5, <2>6, <2>7, Zenon DEF IsFlag
  <1>10. ASSUME IsFlag(f, w) PROVE <<w>> \in parse_flags(f)
    <2>1. PICK j \in 1..n : /\ f[j] = w /\ (j = 1 \/ f[j - 1] = Comma)
                            /\ j = n \/ f[j + 1] = Comma
      BY <1>1, <1>10, Zenon DEF IsFlag, n
    <2> DEFINE i == j - 1
    <2>2. i \in 0..n /\ i + 1 = j /\ (j = 1 => i = 0) /\ i \in Nat /\ i < n
      BY <1>1
    <2> HIDE DEF i
    <2>3. end(i) = i + 1
      <3>1. end(i) \in i..n /\ (end(i) = n \/ f[end(i) + 1] = Comma)
            /\ \A h \in (i + 1)..end(i) : f[h] # Comma
        BY <1>6, <2>2
      <3> DEFINE e == end(i)
      <3> HIDE DEF e
      <3>2. e \in i..n /\ (e = n \/ f[e + 1] = Comma) /\ \A h \in (i + 1)..e : f[h] # Comma
        BY <3>1 DEF e
      <3>3. e # i
        BY <2>1, <2>2, <3>2
      <3>4. ASSUME i + 1 < e PROVE FALSE
        <4>1. e \in i..n
          BY <3>2
        <4>2. i + 1 + 1 \in (i + 1)..e /\ i + 1 # n
          <5>1. n \in Nat /\ i \in Nat
            BY <1>1, <2>2
          <5> HIDE DEF n
          <5> QED
            BY <3>4, <4>1, <5>1
        <4>3. f[i + 1 + 1] = Comma
          BY <2>1, <2>2, <4>2, Zenon
        <4> QED
          BY <3>2, <4>2, <4>3, Zenon
      <3>5. e = i + 1
        <4>1. e \in i..n
          BY <3>2
        <4> QED
          BY <1>1, <2>2, <3>3, <3>4, <4>1
      <3> QED
        BY <3>5 DEF e
    <2>4. part(i) = <<w>>
      BY <1>7, <2>1, <2>2, <2>3
    <2>5. i = 0 \/ f[i] = Comma
      BY <2>1, <2>2 DEF i
    <2> QED
      BY <1>4, <2>2, <2>4, <2>5
  <1> QED
    BY <1>9, <1>10

-----------------------------------------------------------------------------
(***************************************************************************)
(* The lines read so far.                                                  *)
(***************************************************************************)

read == Len(m_osm2pgsql_style) - Len(csv_read)
Line == m_osm2pgsql_style[read]

(* The tokens taken are the words up to pos, which is not in a word.       *)
Splitting ==
    /\ pos \in 0..Len(line) /\ pos \notin Text(Line) /\ next = find_first_of(Blank, line, pos)
    /\ Cardinality(UpTo(Starts(Line), pos)) = Len(tokens) /\ Len(tokens) < MaxTokens
    /\ \A k \in 1..Len(tokens) : tokens[k] = Word(Line, k) /\ tokens[k] # <<>>

(* The tokens are the first words, and only the last one may be empty.     *)
Split ==
    /\ \A k \in 1..MaxTokens : Token(k) = Word(Line, k)
    /\ name = <<>> => type = <<>>

(* The columns are those of the first n lines.                             *)
Follow(n) ==
    /\ AreThoseOf(m_point_columns, UpTo(Asking(NodeGeometry), n))
    /\ AreThoseOf(m_line_columns, UpTo(Asking(WayGeometry), n))
    /\ AreThoseOf(m_polygon_columns, UpTo(Asking(WayGeometry), n))

FollowAll == Follow(read)
FollowBefore == Follow(read - 1)

LinesRead ==
    /\ m_osm2pgsql_style \in Seq(Seq(STRING)) /\ csv_read \in Seq(Seq(STRING))
    /\ Len(csv_read) <= Len(m_osm2pgsql_style)
    /\ \A i \in 1..Len(csv_read) : csv_read[i] = m_osm2pgsql_style[read + i]

HaveColumns ==
    AreColumns(m_point_columns) /\ AreColumns(m_line_columns) /\ AreColumns(m_polygon_columns)

LineInWork ==
    read \in DOMAIN m_osm2pgsql_style /\ TextIs(Line, line) /\ tokens \in Seq(Seq(STRING))

StyleInv ==
    /\ LinesRead /\ HaveColumns
    /\ pc \in {"open", "getline", "split", "add_columns", "parsed", "terminated"}
    /\ pc = "open" => csv_read = m_osm2pgsql_style
    /\ pc \in {"open", "getline", "parsed"} => FollowAll
    /\ pc \in {"split", "add_columns"} => LineInWork /\ FollowBefore
    /\ pc = "split" => Splitting
    /\ pc = "add_columns" => Split
    /\ OnlyBadLinesRefused

(* The numbers of lines, and the lines.                                    *)
LEMMA LineNumbers ==
    ASSUME LinesRead
    PROVE  /\ Len(m_osm2pgsql_style) \in Nat /\ DOMAIN m_osm2pgsql_style = 1..Len(m_osm2pgsql_style)
           /\ Len(csv_read) \in Nat /\ read \in 0..Len(m_osm2pgsql_style)
           /\ csv_read = <<>> => read = Len(m_osm2pgsql_style)
           /\ \A i \in DOMAIN m_osm2pgsql_style : m_osm2pgsql_style[i] \in Seq(STRING)
  BY DEF LinesRead, read

(* The lines that ask for a column, too.                                   *)
LEMMA AskingAreNumbers ==
    ASSUME LinesRead, NEW g
    PROVE  Asking(g) \in SUBSET Nat /\ IsFiniteSet(Asking(g))
           /\ Asking(g) \subseteq DOMAIN m_osm2pgsql_style
  <1>1. Asking(g) \subseteq 1..Len(m_osm2pgsql_style) /\ Len(m_osm2pgsql_style) \in Nat
    BY LineNumbers DEF Asking
  <1>2. IsFiniteSet(1..Len(m_osm2pgsql_style))
    BY <1>1, FS_Interval
  <1>3. IsFiniteSet(Asking(g))
    BY <1>1, <1>2, FS_Subset
  <1> QED
    BY <1>1, <1>3, LineNumbers

(* One line more has one column more, if it asks for it.                   *)
LEMMA OneLineMore ==
    ASSUME LinesRead, NEW n \in DOMAIN m_osm2pgsql_style, NEW g, NEW cols, AreColumns(cols),
           AreThoseOf(cols, UpTo(Asking(g), n - 1)),
           NEW c, c.name = Word(m_osm2pgsql_style[n], 2),
           NEW more, more = IF Asks(m_osm2pgsql_style[n], g) THEN Append(cols, c) ELSE cols
    PROVE  AreColumns(more) /\ AreThoseOf(more, UpTo(Asking(g), n))
  <1> DEFINE A == Asking(g)
             old == UpTo(A, n - 1)
             new == UpTo(A, n)
             word(i) == Word(m_osm2pgsql_style[i], 2)
  <1>1. A \in SUBSET Nat /\ IsFiniteSet(A) /\ n \in Nat /\ n - 1 \in Nat
    BY AskingAreNumbers, LineNumbers
  <1>2. n \in A <=> Asks(m_osm2pgsql_style[n], g)
    BY Zenon DEF Asking
  <1>3. /\ old \in SUBSET Nat /\ IsFiniteSet(old) /\ Cardinality(old) \in Nat
        /\ Len(cols) = Cardinality(old)
        /\ \A i \in old : cols[Rank(old, i)].name = word(i)
    <2>1. IsFiniteSet(old) /\ Cardinality(old) \in Nat
      BY <1>1, RankType
    <2>2. old \in SUBSET Nat
      BY <1>1 DEF UpTo
    <2> QED
      BY <2>1, <2>2, Zenon DEF AreThoseOf
  <1> HIDE DEF A, word
  <1>4. CASE ~Asks(m_osm2pgsql_style[n], g)
    <2>1. more = cols
      BY <1>4
    <2>2. \A j \in A : j <= n <=> j <= n - 1
      BY <1>1, <1>2, <1>4
    <2>3. new = old
      BY <2>2, Zenon DEF UpTo
    <2> QED
      BY <2>1, <2>3, Zenon DEF A
  <1>5. CASE Asks(m_osm2pgsql_style[n], g)
    <2>1. more = Append(cols, c)
      BY <1>5
    <2>2. PICK C : cols \in Seq(C)
      BY DEF AreColumns
    <2> DEFINE k == Cardinality(old)
    <2>3. /\ more \in Seq(C \union {c}) /\ Len(more) = k + 1
          /\ \A i \in 1..k : more[i] = cols[i]
          /\ more[k + 1] = c
      <3>1. cols \in Seq(C \union {c}) /\ Len(cols) = k /\ k \in Nat
        BY <1>3, <2>2
      <3> HIDE DEF k
      <3> QED
        BY <2>1, <3>1
    <2>4. \A j \in A : j <= n <=> j <= n - 1 \/ j = n
      BY <1>1
    <2>5. new = old \union {n} /\ n \notin old
      <3>1. n \in A /\ ~(n <= n - 1)
        BY <1>1, <1>2, <1>5
      <3> QED
        BY <2>4, <3>1, Zenon DEF UpTo
    <2>6. Cardinality(new) = k + 1
      BY <1>3, <2>5, FS_AddElement
    <2>7. ASSUME NEW i \in old
          PROVE  Rank(new, i) = Rank(old, i) /\ Rank(old, i) \in 1..k
      <3>1. i \in Nat /\ i <= n - 1
        BY <1>3 DEF UpTo
      <3>2. ~(n <= i)
        BY <1>1, <3>1
      <3>3. {j \in new : j <= i} = {j \in old : j <= i}
        BY <2>5, <3>2, Zenon
      <3>4. Rank(new, i) = Rank(old, i)
        BY <3>3, Zenon DEF Rank
      <3>5. Rank(old, i) \in Nat /\ Rank(old, i) <= k
        BY <1>3, RankType
      <3>6. Rank(old, i) # 0
        <4>1. i \in UpTo(old, i) /\ IsFiniteSet(UpTo(old, i))
          <5>1. i <= i
            BY <3>1
          <5> QED
            BY <1>3, <5>1, RankType DEF UpTo
        <4>2. Cardinality(UpTo(old, i)) # 0
          BY <4>1, FS_EmptySet
        <4> QED
          BY <1>3, <4>2, RankType
      <3> HIDE DEF k
      <3> QED
        BY <3>4, <3>5, <3>6
    <2>8. Rank(new, n) = k + 1
      <3>1. {j \in new : j <= n} = new
        BY DEF UpTo
      <3> QED
        BY <2>6, <3>1, Zenon DEF Rank
    <2> HIDE DEF k, old, new
    <2>9. \A i \in new : more[Rank(new, i)].name = word(i)
      <3>1. ASSUME NEW i \in old PROVE more[Rank(new, i)].name = word(i)
        BY <1>3, <2>3, <2>7
      <3>2. more[Rank(new, n)].name = word(n)
        BY <2>3, <2>8 DEF word
      <3> QED
        BY <2>5, <3>1, <3>2
    <2>10. AreThoseOf(more, new)
      BY <2>3, <2>6, <2>9 DEF AreThoseOf, word
    <2> QED
      BY <2>3, <2>10 DEF AreColumns, new, A
  <1> QED
    BY <1>4, <1>5

(* A line without words asks for nothing.                                  *)
LEMMA NothingAsked ==
    ASSUME NEW l, NEW g \in {NodeGeometry, WayGeometry}, Word(l, 1) = <<>>
    PROVE  ~Asks(l, g)
  <1>1. <<>> \notin g
    BY DEF NodeGeometry, WayGeometry
  <1> QED
    BY <1>1, Zenon DEF Asks

(* A line that asks for nothing changes nothing.                           *)
LEMMA NoLineMore ==
    ASSUME LinesRead, NEW n \in DOMAIN m_osm2pgsql_style, Follow(n - 1), HaveColumns,
           \A g \in {NodeGeometry, WayGeometry} : ~Asks(m_osm2pgsql_style[n], g)
    PROVE  Follow(n)
  <1> DEFINE c == [name |-> Word(m_osm2pgsql_style[n], 2)]
  <1>1. c.name = Word(m_osm2pgsql_style[n], 2)
    OBVIOUS
  <1>2. ASSUME NEW g \in {NodeGeometry, WayGeometry}, NEW cols, AreColumns(cols),
               AreThoseOf(cols, UpTo(Asking(g), n - 1))
        PROVE  AreThoseOf(cols, UpTo(Asking(g), n))
    <2>1. cols = IF Asks(m_osm2pgsql_style[n], g) THEN Append(cols, c) ELSE cols
      OBVIOUS
    <2> HIDE DEF c
    <2> QED
      BY <1>1, <1>2, <2>1, OneLineMore
  <1> QED
    BY <1>2 DEF Follow, HaveColumns

(* Nothing has been read.                                                  *)
LEMMA StyleBegins == ASSUME InitStyle, StylesAssumption PROVE StyleInv
  <1>1. /\ pc = "open" /\ m_osm2pgsql_style \in Seq(Seq(STRING)) /\ csv_read = m_osm2pgsql_style
        /\ m_point_columns = <<>> /\ m_line_columns = <<>> /\ m_polygon_columns = <<>>
    BY DEF InitStyle, StylesAssumption
  <1>2. LinesRead /\ read = 0
    BY <1>1 DEF LinesRead, read
  <1>3. HaveColumns
    <2>1. <<>> \in Seq({})
      OBVIOUS
    <2> QED
      BY <1>1, <2>1 DEF HaveColumns, AreColumns
  <1>4. ASSUME NEW g PROVE UpTo(Asking(g), 0) = {}
    <2>1. \A j \in Asking(g) : ~(j <= 0)
      BY <1>2, AskingAreNumbers, LineNumbers
    <2> QED
      BY <2>1, Zenon DEF UpTo
  <1>5. AreThoseOf(<<>>, {})
    BY FS_EmptySet DEF AreThoseOf
  <1>6. FollowAll
    BY <1>1, <1>2, <1>4, <1>5 DEF Follow, FollowAll
  <1>7. OnlyBadLinesRefused
    BY <1>1 DEF OnlyBadLinesRefused
  <1> QED
    BY <1>1, <1>2, <1>3, <1>6, <1>7 DEF StyleInv

(* What the columns follow does not depend on anything else.               *)
LEMMA SameFollow ==
    ASSUME UNCHANGED <<m_osm2pgsql_style, columns>>
    PROVE  /\ \A n : Follow(n)' <=> Follow(n)
           /\ HaveColumns' <=> HaveColumns
  <1>1. UNCHANGED <<m_point_columns, m_line_columns, m_polygon_columns>>
    BY DEF columns
  <1>2. \A g : Asking(g)' = Asking(g)
    BY DEF Asking
  <1>3. \A cols, lines : AreThoseOf(cols, lines)' <=> AreThoseOf(cols, lines)
    BY DEF AreThoseOf
  <1> QED
    BY <1>1, <1>2, <1>3 DEF Follow, HaveColumns

(* Opening the file or not changes nothing that was read.                  *)
LEMMA OpenKeeps ==
    ASSUME StyleInv, NoStyle \/ OpenStyle \/ OpenStyleFails \/ EndOfStyle
    PROVE  StyleInv'
  <1>1. /\ pc \in {"open", "getline"} /\ pc' \in {"parsed", "getline", "terminated"}
        /\ UNCHANGED <<m_osm2pgsql_style, csv_read, columns>>
        /\ pc' = "terminated" => pc = "open"
    BY DEF NoStyle, OpenStyle, OpenStyleFails, EndOfStyle, ThrowStyle, reading
  <1>2. LinesRead' /\ read' = read
    BY <1>1 DEF StyleInv, LinesRead, read
  <1>3. FollowAll' /\ HaveColumns'
    BY <1>1, <1>2, SameFollow DEF StyleInv, FollowAll
  <1>4. OnlyBadLinesRefused'
    BY <1>1 DEF OnlyBadLinesRefused, StyleInv
  <1> QED
    BY <1>1, <1>2, <1>3, <1>4 DEF StyleInv

(* The next line.                                                          *)
LEMMA LineBegins ==
    ASSUME StyleInv, GetLine
    PROVE  StyleInv'
  <1>1. /\ pc = "getline" /\ csv_read # <<>>
        /\ csv_read' = Tail(csv_read) /\ line' = WithoutComment(Head(csv_read))
        /\ pos' = 0 /\ next' = find_first_of(Blank, line', 0) /\ tokens' = <<>>
        /\ pc' = IF line' = <<>> THEN "getline" ELSE "split"
        /\ UNCHANGED <<m_osm2pgsql_style, columns>>
    BY DEF GetLine
  <1>2. LinesRead /\ Follow(read) /\ HaveColumns
    BY <1>1 DEF StyleInv, FollowAll
  <1>3. /\ Len(csv_read) \in Nat /\ Len(csv_read) > 0
        /\ csv_read' \in Seq(Seq(STRING)) /\ Len(csv_read') = Len(csv_read) - 1
        /\ \A i \in 1..Len(csv_read') : csv_read'[i] = csv_read[i + 1]
        /\ Head(csv_read) = csv_read[1]
    BY <1>1, <1>2 DEF LinesRead
  <1>4. /\ read \in Nat /\ read' = read + 1 /\ Len(m_osm2pgsql_style) \in Nat
        /\ read' \in DOMAIN m_osm2pgsql_style'
    <2>1. Len(m_osm2pgsql_style') = Len(m_osm2pgsql_style)
      BY <1>1
    <2>2. /\ read \in Nat /\ Len(m_osm2pgsql_style) \in Nat
          /\ DOMAIN m_osm2pgsql_style = 1..Len(m_osm2pgsql_style)
      BY <1>2, LineNumbers
    <2>4. read = Len(m_osm2pgsql_style) - Len(csv_read)
      BY DEF read
    <2>3. read' = Len(m_osm2pgsql_style) - Len(csv_read')
      BY <1>1 DEF read
    <2> QED
      BY <1>1, <1>3, <2>2, <2>3, <2>4
  <1>5. Line' = Head(csv_read) /\ Line' \in Seq(STRING)
    <2>1. csv_read[1] = m_osm2pgsql_style[read + 1]
      BY <1>2, <1>3 DEF LinesRead
    <2>2. Line' = m_osm2pgsql_style[read + 1]
      BY <1>1, <1>4 DEF Line
    <2> QED
      BY <1>1, <1>2, <1>3, <1>4, <2>1, <2>2, LineNumbers
  <1>6. LinesRead'
    <2>1. \A i \in 1..Len(csv_read') : csv_read'[i] = m_osm2pgsql_style[read' + i]
      <3>1. ASSUME NEW i \in 1..Len(csv_read') PROVE csv_read'[i] = m_osm2pgsql_style[read' + i]
        <4>0. i \in 1..(Len(csv_read) - 1) /\ Len(csv_read) \in Nat
          BY <1>3
        <4>1. i + 1 \in 1..Len(csv_read) /\ read + (i + 1) = read' + i
          BY <1>4, <4>0
        <4>2. csv_read[i + 1] = m_osm2pgsql_style[read + (i + 1)]
          BY <1>2, <4>1 DEF LinesRead
        <4> QED
          BY <1>3, <4>1, <4>2
      <3> QED
        BY <3>1
    <2>2. Len(csv_read') <= Len(m_osm2pgsql_style)
      BY <1>2, <1>3, <1>4 DEF LinesRead
    <2> QED
      BY <1>1, <1>2, <1>3, <2>1, <2>2 DEF LinesRead
  <1>7. TextIs(Line', line')
    BY <1>1, <1>5, CommentGone
  <1>8. HaveColumns' /\ FollowBefore'
    <2>1. read' - 1 = read
      BY <1>4
    <2>2. HaveColumns' /\ \A i : Follow(i)' <=> Follow(i)
      BY <1>1, <1>2, SameFollow
    <2> DEFINE n == read
    <2>3. read' - 1 = n /\ Follow(n)
      BY <1>2, <2>1
    <2> HIDE DEF n
    <2> QED
      BY <2>2, <2>3 DEF FollowBefore
  <1>9. OnlyBadLinesRefused'
    BY <1>1 DEF OnlyBadLinesRefused
  <1>10. CASE line' = <<>>
    <2>1. Text(Line') = {}
      <3>1. Len(line') = 0 /\ \A i : i \notin 1..0
        BY <1>10
      <3> QED
        BY <1>7, <3>1 DEF TextIs
    <2>2. Starts(Line') = {}
      BY <2>1 DEF Starts
    <2>3. Word(Line', 1) = <<>>
      BY <2>2, Zenon DEF Word
    <2> DEFINE n == read + 1
    <2>4. n \in DOMAIN m_osm2pgsql_style /\ n - 1 = read /\ m_osm2pgsql_style[n] = Line'
      BY <1>1, <1>4 DEF Line
    <2> HIDE DEF n
    <2>5. \A g \in {NodeGeometry, WayGeometry} : ~Asks(m_osm2pgsql_style[n], g)
      BY <2>3, <2>4, NothingAsked
    <2>6. Follow(n)
      BY <1>2, <2>4, <2>5, NoLineMore
    <2>7. FollowAll'
      <3>1. read' = n
        BY <1>4 DEF n
      <3>2. \A i : Follow(i)' <=> Follow(i)
        BY <1>1, SameFollow
      <3> QED
        BY <2>6, <3>1, <3>2 DEF FollowAll
    <2> QED
      BY <1>1, <1>6, <1>8, <1>9, <1>10, <2>7 DEF StyleInv
  <1>11. CASE line' # <<>>
    <2>1. tokens' \in Seq(Seq(STRING)) /\ Len(tokens') = 0
      BY <1>1
    <2>2. LineInWork'
      BY <1>4, <1>7, <2>1 DEF LineInWork
    <2>3. 0 \notin Text(Line') /\ UpTo(Starts(Line'), 0) = {}
      <3>1. 0 \notin Text(Line') /\ \A j \in Starts(Line') : ~(j <= 0)
        BY <1>5, StartsAreNumbers DEF Text
      <3> QED
        BY <3>1, Zenon DEF UpTo
    <2>4. pos' \in 0..Len(line')
      BY <1>1, <1>7 DEF TextIs
    <2>5. Cardinality(UpTo(Starts(Line'), pos')) = 0
      BY <1>1, <2>3, FS_EmptySet
    <2>6. Splitting'
      BY <1>1, <2>1, <2>3, <2>4, <2>5 DEF Splitting, MaxTokens
    <2>7. pc' = "split"
      BY <1>1, <1>11
    <2> QED
      BY <1>6, <1>8, <1>9, <2>2, <2>6, <2>7 DEF StyleInv
  <1> QED
    BY <1>10, <1>11

(* Splitting leaves the lines and the columns alone.                       *)
LEMMA SplitKeeps ==
    ASSUME StyleInv, pc \in {"split", "add_columns"}, UNCHANGED <<reading, line, columns>>
    PROVE  /\ LinesRead' /\ HaveColumns' /\ FollowBefore' /\ Line' = Line
           /\ Line \in Seq(STRING) /\ LineInWork /\ TextIs(Line', line') /\ read' = read
           /\ read' \in DOMAIN m_osm2pgsql_style'
  <1>1. UNCHANGED <<m_osm2pgsql_style, csv_read, line, columns>>
    BY DEF reading
  <1>2. LinesRead /\ LinesRead' /\ read' = read /\ Line' = Line
    BY <1>1 DEF StyleInv, LinesRead, read, Line
  <1>3. LineInWork /\ FollowBefore /\ HaveColumns
    BY DEF StyleInv
  <1>4. Line \in Seq(STRING)
    BY <1>2, <1>3, LineNumbers DEF LineInWork, Line
  <1>5. FollowBefore' /\ HaveColumns'
    BY <1>1, <1>2, <1>3, SameFollow DEF FollowBefore
  <1>6. TextIs(Line', line') /\ read' \in DOMAIN m_osm2pgsql_style'
    BY <1>1, <1>2, <1>3 DEF LineInWork
  <1> QED
    BY <1>2, <1>3, <1>4, <1>5, <1>6

(* One blank more.                                                         *)
LEMMA BlankSkipped ==
    ASSUME StyleInv, SkipBlank
    PROVE  StyleInv'
  <1>1. /\ pc = "split" /\ next = pos /\ pos' = next + 1
        /\ next' = find_first_of(Blank, line, pos')
        /\ UNCHANGED <<pc, reading, line, tokens, columns>>
    BY DEF SkipBlank, Advance
  <1>2. /\ LinesRead' /\ HaveColumns' /\ FollowBefore' /\ Line' = Line
        /\ Line \in Seq(STRING) /\ LineInWork /\ LineInWork'
    BY <1>1, SplitKeeps DEF LineInWork
  <1>3. Splitting
    BY <1>1 DEF StyleInv
  <1>4. /\ pos + 1 \in 0..Len(line) /\ pos + 1 \notin Text(Line)
        /\ Cardinality(UpTo(Starts(Line), pos + 1)) = Cardinality(UpTo(Starts(Line), pos))
    BY <1>1, <1>2, <1>3, BlankNext DEF Splitting, LineInWork
  <1>5. Splitting'
    BY <1>1, <1>2, <1>3, <1>4 DEF Splitting
  <1>6. OnlyBadLinesRefused'
    BY <1>1 DEF OnlyBadLinesRefused
  <1> QED
    BY <1>1, <1>2, <1>5, <1>6 DEF StyleInv

(* One token more.                                                         *)
LEMMA TokenTaken ==
    ASSUME StyleInv, TakeToken
    PROVE  StyleInv'
  <1> DEFINE n == Len(tokens)
             token == substr(line, pos, next)
  <1>1. /\ pc = "split" /\ next # pos /\ tokens' = Append(tokens, token)
        /\ pc' = IF next = npos \/ Len(tokens') = MaxTokens THEN "add_columns" ELSE "split"
        /\ UNCHANGED <<reading, line, columns>>
    BY DEF TakeToken
  <1>2. next # npos => pos' = next + 1 /\ next' = find_first_of(Blank, line, pos')
    BY DEF TakeToken, Advance
  <1>3. /\ LinesRead' /\ HaveColumns' /\ FollowBefore' /\ Line' = Line
        /\ Line \in Seq(STRING) /\ TextIs(Line, line) /\ tokens \in Seq(Seq(STRING))
        /\ TextIs(Line', line') /\ read' \in DOMAIN m_osm2pgsql_style'
    BY <1>1, SplitKeeps DEF LineInWork
  <1>4. Splitting
    BY <1>1 DEF StyleInv
  <1>5. /\ pos \in 0..Len(line) /\ pos \notin Text(Line) /\ next = find_first_of(Blank, line, pos)
        /\ Cardinality(UpTo(Starts(Line), pos)) = n /\ n < 4 /\ n \in Nat
        /\ \A k \in 1..n : tokens[k] = Word(Line, k) /\ tokens[k] # <<>>
    BY <1>3, <1>4 DEF Splitting, MaxTokens
  <1>6. token \in Seq(STRING)
    <2>1. line \in Seq(STRING) /\ Len(line) \in Nat /\ pos \in Nat /\ pos <= Len(line)
      BY <1>3, <1>5 DEF TextIs
    <2>2. CASE next = npos
      <3>1. token = SubSeq(line, pos + 1, Len(line))
        BY <2>2 DEF substr
      <3> HIDE DEF token
      <3> QED
        BY <2>1, <3>1, PartOf
    <2>3. CASE next # npos
      <3>1. next + 1 \in 0..Len(line) /\ next \in pos..(Len(line) - 1)
        <4>1. FirstOf(Blank, line, pos, next)
          BY <1>5, <2>1, Found
        <4>2. next \in pos..(Len(line) - 1)
          BY <2>3, <4>1, Zenon DEF FirstOf
        <4> QED
          BY <2>1, <4>2
      <3>2. token = SubSeq(line, pos + 1, next)
        BY <2>3 DEF substr
      <3> HIDE DEF token
      <3> QED
        BY <2>1, <3>1, <3>2, PartOf
    <2> QED
      BY <2>2, <2>3
  <1> HIDE DEF token
  <1>7. /\ tokens' \in Seq(Seq(STRING)) /\ Len(tokens') = n + 1
        /\ \A k \in 1..n : tokens'[k] = tokens[k]
        /\ tokens'[n + 1] = token
    BY <1>1, <1>3, <1>6
  <1>8. OnlyBadLinesRefused'
    BY <1>1 DEF OnlyBadLinesRefused
  <1>9. LineInWork'
    BY <1>3, <1>7 DEF LineInWork
  <1> HIDE DEF n
  <1>10. ASSUME token = Word(Line, n + 1), pc' = "add_columns",
                \A k \in (n + 2)..4 : Word(Line, k) = <<>>
         PROVE  Split'
    <2>1. \A k \in 1..(n + 1) : tokens'[k] = Word(Line, k)
      <3>1. \A k \in 1..(n + 1) : k \in 1..n \/ k = n + 1
        BY <1>5
      <3> QED
        BY <1>5, <1>7, <1>10, <3>1
    <2>2. ASSUME NEW k \in 1..4 PROVE Token(k)' = Word(Line, k)
      <3>1. CASE k <= n + 1
        BY <1>5, <1>7, <2>1, <3>1 DEF Token
      <3>2. CASE ~(k <= n + 1)
        <4>1. k \in (n + 2)..4
          BY <1>5, <3>2
        <4> QED
          BY <1>7, <1>10, <3>2, <4>1 DEF Token
      <3> QED
        BY <3>1, <3>2
    <2>3. \A k \in 1..MaxTokens : Token(k)' = Word(Line', k)
      BY <1>3, <2>2 DEF MaxTokens
    <2>4. ASSUME name' = <<>> PROVE type' = <<>>
      <3>1. CASE n + 1 < 3
        <4>1. ~(3 <= n + 1)
          BY <1>5, <3>1
        <4> QED
          BY <1>7, <4>1 DEF type, Token
      <3>2. CASE ~(n + 1 < 3)
        <4>1. 2 \in 1..n /\ 2 <= n + 1
          BY <1>5, <3>2
        <4>2. name' = tokens[2]
          BY <1>7, <4>1 DEF name, Token
        <4> QED
          BY <1>5, <2>4, <4>1, <4>2
      <3> QED
        BY <3>1, <3>2
    <2> QED
      BY <2>3, <2>4 DEF Split
  <1>11. CASE next = npos
    <2>1. pc' = "add_columns"
      BY <1>1, <1>11
    <2>2. token = Word(Line, n + 1) /\ \A j \in Nat : n + 1 < j => Word(Line, j) = <<>>
      <3>1. find_first_of(Blank, line, pos) = npos /\ token = substr(line, pos, npos)
        BY <1>5, <1>11 DEF token
      <3>2. /\ substr(line, pos, npos) = Word(Line, Cardinality(UpTo(Starts(Line), pos)) + 1)
            /\ \A j \in Nat : Cardinality(UpTo(Starts(Line), pos)) + 1 < j => Word(Line, j) = <<>>
        BY <1>3, <1>5, <3>1, LastToken
      <3> QED
        BY <1>5, <3>1, <3>2
    <2>3. \A k \in (n + 2)..4 : Word(Line, k) = <<>>
      <3>1. \A k \in (n + 2)..4 : k \in Nat /\ n + 1 < k
        BY <1>5
      <3> QED
        BY <2>2, <3>1
    <2> QED
      BY <1>3, <1>8, <1>9, <1>10, <2>1, <2>2, <2>3 DEF StyleInv
  <1>12. CASE next # npos
    <2>1. /\ next + 1 \in 0..Len(line) /\ next + 1 \notin Text(Line)
          /\ token = SubSeq(line, pos + 1, next) /\ NextWord(Line, line, pos, next)
      BY <1>1, <1>3, <1>5, <1>12, TokenBeforeBlank DEF token
    <2>2. /\ token = Word(Line, n + 1) /\ token # <<>>
          /\ Cardinality(UpTo(Starts(Line), next + 1)) = n + 1
      BY <1>5, <2>1, Zenon DEF NextWord
    <2>3. CASE n + 1 = 4
      <3>1. pc' = "add_columns"
        BY <1>1, <1>7, <2>3 DEF MaxTokens
      <3>2. \A k \in (n + 2)..4 : Word(Line, k) = <<>>
        BY <1>5, <2>3
      <3> QED
        BY <1>3, <1>8, <1>9, <1>10, <2>2, <3>1, <3>2 DEF StyleInv
    <2>4. CASE n + 1 # 4
      <3>1. pc' = "split"
        BY <1>1, <1>7, <1>12, <2>4 DEF MaxTokens
      <3>2. \A k \in 1..(n + 1) : tokens'[k] = Word(Line, k) /\ tokens'[k] # <<>>
        <4>1. \A k \in 1..(n + 1) : k \in 1..n \/ k = n + 1
          BY <1>5
        <4> QED
          BY <1>5, <1>7, <2>2, <4>1
      <3>3. n + 1 < 4
        BY <1>5, <2>4
      <3>4. Splitting'
        BY <1>1, <1>2, <1>3, <1>7, <1>12, <2>1, <2>2, <3>2, <3>3 DEF Splitting, MaxTokens
      <3> QED
        BY <1>3, <1>8, <1>9, <3>1, <3>4 DEF StyleInv
    <2> QED
      BY <2>3, <2>4
  <1> QED
    BY <1>11, <1>12

(* The tokens ask for a column as the words do.                            *)
LEMMA TokensAsk ==
    ASSUME Split, tokens \in Seq(Seq(STRING)), name \in NotRead \/ str_to_column_type(type) # "NONE"
    PROVE  \A g : name \notin NotRead /\ CreateColumn /\ geometry \in g <=> Asks(Line, g)
  <1>1. /\ geometry = Word(Line, 1) /\ name = Word(Line, 2) /\ type = Word(Line, 3)
        /\ flags = Word(Line, 4)
    BY DEF Split, MaxTokens, geometry, name, type, flags
  <1>2. flags \in Seq(STRING)
    <2>1. <<>> \in Seq(STRING)
      OBVIOUS
    <2>2. 4 <= Len(tokens) => tokens[4] \in Seq(STRING)
      OBVIOUS
    <2> QED
      BY <2>1, <2>2, Zenon DEF flags, Token
  <1>3. "delete" # Comma /\ "nocolumn" # Comma
    BY Zenon DEF Comma
  <1>4. /\ <<"delete">> \in parse_flags(flags) <=> IsFlag(flags, "delete")
        /\ <<"nocolumn">> \in parse_flags(flags) <=> IsFlag(flags, "nocolumn")
    BY <1>2, <1>3, FlagFound
  <1>5. name \notin NotRead => name # <<>>
    <2>1. str_to_column_type(<<>>) = "NONE"
      BY DEF str_to_column_type
    <2> QED
      BY <2>1 DEF Split
  <1>6. parse_flags(flags) \intersect {<<"delete">>, <<"nocolumn">>} = {}
            <=> ~IsFlag(flags, "delete") /\ ~IsFlag(flags, "nocolumn")
    BY <1>4
  <1> QED
    BY <1>1, <1>5, <1>6, Zenon DEF CreateColumn, Asks

(* The columns of a line.                                                  *)
LEMMA ColumnsAdded ==
    ASSUME StyleInv, AddColumns
    PROVE  StyleInv'
  <1> DEFINE column == [name |-> name, type |-> str_to_column_type(type)]
             More(vec, g) == IF Asks(Line, g) THEN Append(vec, column) ELSE vec
  <1>1. /\ pc = "add_columns" /\ pc' = "getline" /\ UNCHANGED <<reading, splitting>>
        /\ name \in NotRead \/ str_to_column_type(type) # "NONE"
    BY DEF AddColumns
  <1>2. UNCHANGED <<m_osm2pgsql_style, csv_read, line, tokens>>
    BY <1>1 DEF reading, splitting
  <1>3. Split /\ LineInWork /\ LinesRead /\ FollowBefore /\ HaveColumns
    BY <1>1 DEF StyleInv
  <1>4. \A g : name \notin NotRead /\ CreateColumn /\ geometry \in g <=> Asks(Line, g)
    BY <1>1, <1>3, TokensAsk DEF LineInWork
  <1>5. /\ m_point_columns' = More(m_point_columns, NodeGeometry)
        /\ m_line_columns' = More(m_line_columns, WayGeometry)
        /\ m_polygon_columns' = More(m_polygon_columns, WayGeometry)
    BY <1>4, Zenon DEF AddColumns
  <1>6. column.name = Word(Line, 2)
    BY <1>3 DEF Split, MaxTokens, name
  <1> HIDE DEF column
  <1>7. ASSUME NEW g, NEW cols, AreColumns(cols), AreThoseOf(cols, UpTo(Asking(g), read - 1))
        PROVE  AreColumns(More(cols, g)) /\ AreThoseOf(More(cols, g), UpTo(Asking(g), read))
    BY <1>3, <1>6, <1>7, OneLineMore DEF LineInWork, Line
  <1>8. /\ AreColumns(m_point_columns') /\ AreColumns(m_line_columns')
        /\ AreColumns(m_polygon_columns')
        /\ AreThoseOf(m_point_columns', UpTo(Asking(NodeGeometry), read))
        /\ AreThoseOf(m_line_columns', UpTo(Asking(WayGeometry), read))
        /\ AreThoseOf(m_polygon_columns', UpTo(Asking(WayGeometry), read))
    <2> HIDE DEF More
    <2> QED
      BY <1>3, <1>5, <1>7 DEF FollowBefore, Follow, HaveColumns
  <1>9. read' = read /\ LinesRead'
    BY <1>2, <1>3 DEF read, LinesRead
  <1>10. FollowAll' /\ HaveColumns'
    <2>1. \A g : Asking(g)' = Asking(g)
      BY <1>2 DEF Asking
    <2>2. \A cols, lines : AreThoseOf(cols, lines)' <=> AreThoseOf(cols, lines)
      BY <1>2 DEF AreThoseOf
    <2> QED
      BY <1>8, <1>9, <2>1, <2>2 DEF FollowAll, Follow, HaveColumns
  <1>11. OnlyBadLinesRefused'
    BY <1>1 DEF OnlyBadLinesRefused
  <1> QED
    BY <1>1, <1>9, <1>10, <1>11 DEF StyleInv

(* A line that is refused.                                                 *)
LEMMA LineRefused ==
    ASSUME StyleInv, Unsupported
    PROVE  StyleInv'
  <1>1. /\ pc = "add_columns" /\ pc' = "terminated"
        /\ UNCHANGED <<m_osm2pgsql_style, csv_read, columns>>
        /\ \/ geometry \notin NodeGeometry \union WayGeometry
           \/ name \notin NotRead /\ str_to_column_type(type) = "NONE"
    BY DEF Unsupported, ThrowStyle, reading
  <1>2. Split /\ LinesRead /\ HaveColumns
    BY <1>1 DEF StyleInv
  <1>3. geometry = Word(Line, 1) /\ name = Word(Line, 2) /\ type = Word(Line, 3)
    BY <1>2 DEF Split, MaxTokens, geometry, name, type
  <1>4. LinesRead' /\ HaveColumns'
    BY <1>1, <1>2, SameFollow DEF LinesRead, read
  <1>5. OnlyBadLinesRefused'
    <2>1. Line = m_osm2pgsql_style'[Len(m_osm2pgsql_style') - Len(csv_read')]
      BY <1>1 DEF Line, read
    <2> QED
      BY <1>1, <1>3, <2>1, Zenon DEF OnlyBadLinesRefused
  <1> QED
    BY <1>1, <1>4, <1>5 DEF StyleInv

(* All the steps of the parser.                                            *)
LEMMA StyleStep ==
    ASSUME StyleInv, ParseStyle
    PROVE  StyleInv'
  BY OpenKeeps, LineBegins, BlankSkipped, TokenTaken, ColumnsAdded, LineRefused DEF ParseStyle

(* Nothing else does anything to them.                                     *)
LEMMA StyleStays ==
    ASSUME StyleInv, UNCHANGED styleVars
    PROVE  StyleInv'
  <1>1. UNCHANGED <<pc, m_osm2pgsql_style, csv_read, line, pos, next, tokens, columns>>
    BY DEF styleVars, reading, splitting
  <1>2. read' = read /\ Line' = Line
    BY <1>1 DEF read, Line
  <1>3. /\ HaveColumns' <=> HaveColumns
        /\ FollowAll' <=> FollowAll
        /\ FollowBefore' <=> FollowBefore
    BY <1>1, <1>2, SameFollow DEF FollowAll, FollowBefore
  <1>4. (LinesRead' <=> LinesRead) /\ (LineInWork' <=> LineInWork)
    BY <1>1, <1>2 DEF LinesRead, LineInWork
  <1>5. (Splitting' <=> Splitting) /\ (Split' <=> Split)
    BY <1>1, <1>2 DEF Splitting, Split, name, type, Token
  <1>6. OnlyBadLinesRefused' <=> OnlyBadLinesRefused
    BY <1>1, Zenon DEF OnlyBadLinesRefused
  <1> QED
    BY <1>1, <1>3, <1>4, <1>5, <1>6, Zenon DEF StyleInv

(* Running a statement and parsing its rows leave the columns alone.       *)
LEMMA StyleHolds == Spec => []StyleInv
  <1>1. Init => StyleInv
    BY StylesAssumption, StyleBegins DEF Init
  <1>2. StyleInv /\ [Next]_vars => StyleInv'
    <2> SUFFICES ASSUME StyleInv, [Next]_vars PROVE StyleInv'
      OBVIOUS
    <2>1. ParseStyle \/ UNCHANGED styleVars
      BY DEF Next, Parse, RunStatement, ParseNode, ParseWayOrRelation, ParseMember, vars
    <2> QED
      BY <2>1, StyleStep, StyleStays
  <1> QED
    BY <1>1, <1>2, PTL DEF Spec

(* Whatever is in the style file, blanks, comments, flags and empty lines  *)
(* of any number and length: when it has been read there is a column for   *)
(* each line that asks for one, in the order of the lines and with the     *)
(* name that is its second word, and no other.                             *)
THEOREM ColumnsAlwaysFollowStyle == Spec => []ColumnsFollowStyle
  <1>1. StyleInv => ColumnsFollowStyle
    <2> SUFFICES ASSUME StyleInv, pc = "parsed", csv_read = <<>>
                 PROVE  /\ AreThoseOf(m_point_columns, Asking(NodeGeometry))
                        /\ AreThoseOf(m_line_columns, Asking(WayGeometry))
                        /\ AreThoseOf(m_polygon_columns, Asking(WayGeometry))
      BY DEF ColumnsFollowStyle
    <2>1. LinesRead /\ Follow(read)
      BY DEF StyleInv, FollowAll
    <2>2. ASSUME NEW g PROVE UpTo(Asking(g), read) = Asking(g)
      <3>1. \A i \in Asking(g) : i <= read
        BY <2>1, LineNumbers, AskingAreNumbers
      <3> QED
        BY <3>1, Zenon DEF UpTo
    <2> QED
      BY <2>1, <2>2 DEF Follow
  <1> QED
    BY <1>1, StyleHolds, PTL

(* The parser ends the program only at a line whose first word is no       *)
(* geometry or whose third word is no type, of a style with any lines.     *)
THEOREM GoodLinesNeverRefused == Spec => []OnlyBadLinesRefused
  BY StyleHolds, PTL DEF StyleInv
=============================================================================

---------------------------- MODULE TableProofs ----------------------------
(***************************************************************************)
(* Ownership of connections and the fate of rows, for any number of        *)
(* objects, connections and rows.                                          *)
(***************************************************************************)
EXTENDS Table, TLAPS

(* What the server's answers and the destructor's commands do to the types *)
(* of the connections.                                                     *)
ConnectionsTyped ==
    /\ session \in [Connections -> {"none", "open", "broken", "finished"}]
    /\ copying \subseteq Connections /\ disturbed \subseteq Connections
    /\ txn \in [Connections -> {"idle", "active", "aborted"}]
    /\ where \in [Lines -> {"unsent", "copying", "copied", "saved", "interrupted", "lost"}]
    /\ via \in [Lines -> Connections \union {NULL}]

ObjectsTyped ==
    /\ state \in [Objects -> {"none", "alive", "end_copy", "commit", "finish", "destroyed"}]
    /\ m_name \in [Objects -> BOOLEAN]
    /\ m_copy_mode \in [Objects -> BOOLEAN] /\ m_begin \in [Objects -> BOOLEAN]
    /\ m_database_connection \in [Objects -> Connections \union {NULL}]
    /\ \A o \in Objects : state[o] # "none" => m_database_connection[o] # NULL

(* The answers keep the types.                                             *)
LEMMA AnswersTyped ==
    ASSUME ConnectionsTyped, NEW c \in Connections,
           \/ Answered(c) \/ Interrupted(c) \/ Refused(c) \/ CommitFails(c)
    PROVE  ConnectionsTyped'
<1>1. CASE Answered(c)
    BY <1>1 DEF Answered, server, rows, ConnectionsTyped
<1>2. CASE Interrupted(c)
    BY <1>2 DEF Interrupted, Moved, ConnectionsTyped
<1>3. CASE Refused(c)
    BY <1>3 DEF Refused, Moved, Aborted, ConnectionsTyped
<1>4. CASE CommitFails(c)
    BY <1>4 DEF CommitFails, Dropped, ConnectionsTyped
<1> QED BY <1>1, <1>2, <1>3, <1>4

(* An object that is not absent has its connection.                        *)
LEMMA HasConnection ==
    ASSUME ObjectsTyped, NEW o \in Objects, state[o] # "none"
    PROVE  m_database_connection[o] \in Connections
BY DEF ObjectsTyped

(* COPY and COMMIT that succeed keep the types.                            *)
LEMMA SuccessTyped ==
    ASSUME TypeOK, NEW o \in Objects, NEW c \in Connections,
           CopyEnds(o, c) \/ CommitSucceeds(o, c)
    PROVE  ConnectionsTyped' /\ m_copy_mode' \in [Objects -> BOOLEAN]
            /\ m_begin' \in [Objects -> BOOLEAN]
<1>1. CASE CopyEnds(o, c)
    BY <1>1 DEF CopyEnds, Moved, ConnectionsTyped, TypeOK
<1>2. CASE CommitSucceeds(o, c)
    BY <1>2 DEF CommitSucceeds, Moved, ConnectionsTyped, TypeOK
<1> QED BY <1>1, <1>2

(* Every step keeps the types.                                             *)
LEMMA TypeStep == TypeOK /\ [Next]_vars => TypeOK'
<1> SUFFICES ASSUME TypeOK, [Next]_vars PROVE TypeOK'
    OBVIOUS
<1>0. TypeOK <=> ObjectsTyped /\ ConnectionsTyped /\ terminated \in BOOLEAN
    BY DEF TypeOK, ObjectsTyped, ConnectionsTyped
<1>p. TypeOK' <=> ObjectsTyped' /\ ConnectionsTyped' /\ terminated' \in BOOLEAN
    BY DEF TypeOK, ObjectsTyped, ConnectionsTyped
<1>t. ObjectsTyped /\ ConnectionsTyped /\ terminated \in BOOLEAN
    BY <1>0
<1>u. ASSUME UNCHANGED object PROVE ObjectsTyped'
    BY <1>t, <1>u DEF object, ObjectsTyped
<1>1. ASSUME NEW o \in Objects, Construct(o) PROVE TypeOK'
    <2>1. ObjectsTyped'
        BY <1>1, <1>t, NullAssumption DEF Construct, ObjectsTyped
    <2>2. ConnectionsTyped' /\ UNCHANGED terminated
        BY <1>1, <1>t DEF Construct, ConnectionsTyped, rows
    <2> QED BY <2>1, <2>2, <1>p, <1>t
<1>2. ASSUME NEW o \in Objects, NEW other \in Objects, Move(o, other) PROVE TypeOK'
    <2>1. ObjectsTyped'
        BY <1>2, <1>t DEF Move, Usable, ObjectsTyped
    <2>2. ConnectionsTyped' /\ UNCHANGED terminated
        BY <1>2, <1>t DEF Move, ConnectionsTyped, server, rows
    <2> QED BY <2>1, <2>2, <1>p, <1>t
<1>3. ASSUME NEW o \in Objects, Method(o) PROVE TypeOK'
    <2> DEFINE c == m_database_connection[o]
    <2>c. c \in Connections
        BY <1>3, <1>t, HasConnection
        DEF Method, create_prepared_statement, send_query, start_copy, send_line,
            end_copy, send_begin, commit, intermediate_commit, Usable
    <2>1. ASSUME create_prepared_statement(o) \/ send_query(o) PROVE TypeOK'
        BY <2>1, <2>c, <1>p, <1>t, <1>u, AnswersTyped
        DEF create_prepared_statement, send_query
    <2>2. ASSUME start_copy(o) PROVE TypeOK'
        <3>1. CASE Refused(c) /\ UNCHANGED object
            BY <2>2, <3>1, <2>c, <1>p, <1>t, <1>u, AnswersTyped DEF start_copy
        <3>2. CASE ~(Refused(c) /\ UNCHANGED object)
            <4>1. ObjectsTyped'
                BY <2>2, <3>2, <1>t DEF start_copy, ObjectsTyped
            <4>2. ConnectionsTyped' /\ UNCHANGED terminated
                BY <2>2, <3>2, <2>c, <1>t DEF start_copy, ConnectionsTyped, Moved
            <4> QED BY <4>1, <4>2, <1>p, <1>t
        <3> QED BY <3>1, <3>2
    <2>3. ASSUME send_line(o) PROVE TypeOK'
        <3>1. ConnectionsTyped' /\ UNCHANGED <<object, terminated>>
            BY <2>3, <2>c, <1>t DEF send_line, ConnectionsTyped, server
        <3> QED BY <3>1, <1>p, <1>t, <1>u
    <2>4. ASSUME end_copy(o) PROVE TypeOK'
        <3>1. CASE Refused(c) /\ UNCHANGED object
            BY <2>4, <3>1, <2>c, <1>p, <1>t, <1>u, AnswersTyped DEF end_copy
        <3>2. CASE CopyEnds(o, c) /\ UNCHANGED state
            BY <2>4, <3>2, <2>c, <1>p, <1>t, SuccessTyped
            DEF end_copy, CopyEnds, ObjectsTyped
        <3> QED BY <2>4, <3>1, <3>2 DEF end_copy
    <2>5. ASSUME send_begin(o) PROVE TypeOK'
        <3>1. CASE Refused(c) /\ UNCHANGED object
            BY <2>5, <3>1, <2>c, <1>p, <1>t, <1>u, AnswersTyped DEF send_begin
        <3>2. CASE ~(Refused(c) /\ UNCHANGED object)
            <4>1. ObjectsTyped'
                BY <2>5, <3>2, <1>t DEF send_begin, ObjectsTyped
            <4>2. ConnectionsTyped' /\ UNCHANGED terminated
                BY <2>5, <3>2, <2>c, <1>t DEF send_begin, ConnectionsTyped, rows
            <4> QED BY <4>1, <4>2, <1>p, <1>t
        <3> QED BY <3>1, <3>2
    <2>6. ASSUME commit(o) PROVE TypeOK'
        <3>1. CASE CommitFails(c) /\ UNCHANGED object
            BY <2>6, <3>1, <2>c, <1>p, <1>t, <1>u, AnswersTyped DEF commit
        <3>2. CASE CommitSucceeds(o, c) /\ UNCHANGED state
            BY <2>6, <3>2, <2>c, <1>p, <1>t, SuccessTyped
            DEF commit, CommitSucceeds, ObjectsTyped
        <3> QED BY <2>6, <3>1, <3>2 DEF commit
    <2> QED BY <1>3, <2>1, <2>2, <2>3, <2>4, <2>5, <2>6 DEF Method, intermediate_commit
<1>4. ASSUME NEW o \in Objects, Destructor(o) PROVE TypeOK'
    <2> DEFINE c == m_database_connection[o]
    <2>c. c \in Connections
        BY <1>4, <1>t, HasConnection
        DEF Destructor, Destroy, DestroyEndsCopy, DestroyCommits, Finish, Goto
    <2>1. ASSUME Destroy(o) PROVE TypeOK'
        <3>1. ObjectsTyped'
            BY <2>1, <1>t DEF Destroy, Goto, ObjectsTyped
        <3>2. ConnectionsTyped' /\ UNCHANGED terminated
            BY <2>1, <1>t DEF Destroy, ConnectionsTyped, server, rows
        <3> QED BY <3>1, <3>2, <1>p, <1>t
    <2>2. ASSUME DestroyEndsCopy(o) PROVE TypeOK'
        <3>1. CASE Refused(c) /\ UNCHANGED object /\ terminated' = TRUE
            BY <3>1, <2>c, <1>p, <1>t, <1>u, AnswersTyped
        <3>2. CASE CopyEnds(o, c) /\ Goto(o, "end_copy", "commit") /\ UNCHANGED terminated
            BY <3>2, <2>c, <1>p, <1>t, SuccessTyped DEF CopyEnds, Goto, ObjectsTyped
        <3>3. CASE /\ Goto(o, "end_copy", "commit") /\ UNCHANGED terminated
                   /\ UNCHANGED <<m_name, m_copy_mode, m_begin, m_database_connection, server, rows>>
            <4>1. ObjectsTyped'
                BY <3>3, <1>t DEF Goto, ObjectsTyped
            <4>2. ConnectionsTyped'
                BY <3>3, <1>t DEF ConnectionsTyped, server, rows
            <4> QED BY <4>1, <4>2, <3>3, <1>p, <1>t
        <3> QED BY <2>2, <3>1, <3>2, <3>3 DEF DestroyEndsCopy
    <2>3. ASSUME DestroyCommits(o) PROVE TypeOK'
        <3>1. CASE CommitFails(c) /\ UNCHANGED object /\ terminated' = TRUE
            BY <3>1, <2>c, <1>p, <1>t, <1>u, AnswersTyped
        <3>2. CASE CommitSucceeds(o, c) /\ Goto(o, "commit", "finish") /\ UNCHANGED terminated
            BY <3>2, <2>c, <1>p, <1>t, SuccessTyped DEF CommitSucceeds, Goto, ObjectsTyped
        <3>3. CASE /\ Goto(o, "commit", "finish") /\ UNCHANGED terminated
                   /\ UNCHANGED <<m_name, m_copy_mode, m_begin, m_database_connection, server, rows>>
            <4>1. ObjectsTyped'
                BY <3>3, <1>t DEF Goto, ObjectsTyped
            <4>2. ConnectionsTyped'
                BY <3>3, <1>t DEF ConnectionsTyped, server, rows
            <4> QED BY <4>1, <4>2, <3>3, <1>p, <1>t
        <3> QED BY <2>3, <3>1, <3>2, <3>3 DEF DestroyCommits
    <2>4. ASSUME Finish(o) PROVE TypeOK'
        <3>1. ObjectsTyped'
            BY <2>4, <1>t DEF Finish, Goto, ObjectsTyped
        <3>2. ConnectionsTyped' /\ UNCHANGED terminated
            BY <2>4, <2>c, <1>t DEF Finish, ConnectionsTyped, Dropped
        <3> QED BY <3>1, <3>2, <1>p, <1>t
    <2> QED BY <1>4, <2>1, <2>2, <2>3, <2>4 DEF Destructor
<1>5. ASSUME NEW c \in Connections, ConnectionLost(c) PROVE TypeOK'
    <2>1. ConnectionsTyped' /\ UNCHANGED <<object, terminated>>
        BY <1>5, <1>t DEF ConnectionLost, ConnectionsTyped, Dropped, Aborted
    <2> QED BY <2>1, <1>p, <1>t, <1>u
<1>6. CASE UNCHANGED vars
    BY <1>6 DEF vars, object, server, rows, TypeOK
<1> QED BY <1>1, <1>2, <1>3, <1>4, <1>5, <1>6 DEF Next
-----------------------------------------------------------------------------
(* Ownership.                                                              *)

(* The destructor of an object that was moved from sends nothing.          *)
NamedWhenDestructing ==
    \A o \in Objects : state[o] \in {"end_copy", "commit", "finish"} => m_name[o]

OwnerInv == OneOwner /\ NamedWhenDestructing

(* Who owns a connection depends on these only.                            *)
ownership == <<state, m_name, m_database_connection, session>>

(* No method opens, closes or hands on a connection.                       *)
LEMMA MethodsKeepOwners ==
    ASSUME NEW o \in Objects, Method(o)
    PROVE  UNCHANGED ownership
<1>1. ASSUME NEW c, Answered(c) \/ Interrupted(c) \/ Refused(c) \/ CommitFails(c)
      PROVE  UNCHANGED session
    BY <1>1 DEF Answered, Interrupted, Refused, CommitFails, server
<1>2. CASE create_prepared_statement(o) \/ send_query(o)
    BY <1>1, <1>2 DEF create_prepared_statement, send_query, object, ownership
<1>3. CASE start_copy(o)
    BY <1>1, <1>3 DEF start_copy, object, ownership
<1>4. CASE send_line(o)
    BY <1>4 DEF send_line, object, server, ownership
<1>5. CASE end_copy(o)
    BY <1>1, <1>5 DEF end_copy, CopyEnds, object, ownership
<1>6. CASE send_begin(o)
    BY <1>1, <1>6 DEF send_begin, object, ownership
<1>7. CASE commit(o)
    BY <1>1, <1>7 DEF commit, CommitSucceeds, object, ownership
<1> QED BY <1>2, <1>3, <1>4, <1>5, <1>6, <1>7 DEF Method, intermediate_commit

(* A step that only brings a destructor to its next command, or none.      *)
LEMMA SameOwners ==
    ASSUME OwnerInv, UNCHANGED <<m_name, m_database_connection, session>>,
           \A o \in Objects : Owner(o)' <=> Owner(o),
           NamedWhenDestructing'
    PROVE  OwnerInv'
BY DEF OwnerInv, OneOwner, Owner

(* Ownership is kept by every step.                                        *)
LEMMA OwnerStep == TypeOK /\ OwnerInv /\ [Next]_vars => OwnerInv'
<1> SUFFICES ASSUME TypeOK, OwnerInv, [Next]_vars PROVE OwnerInv'
    OBVIOUS
<1>u. ASSUME UNCHANGED ownership PROVE OwnerInv'
    BY <1>u DEF ownership, OwnerInv, OneOwner, Owner, NamedWhenDestructing
<1>1. ASSUME NEW o \in Objects, Construct(o) PROVE OwnerInv'
    <2> PICK c \in Connections :
            /\ session[c] = "none"
            /\ session' = [session EXCEPT ![c] = "open"]
            /\ m_database_connection' = [m_database_connection EXCEPT ![o] = c]
        BY <1>1 DEF Construct
    <2>0. /\ state[o] = "none"
          /\ state' = [state EXCEPT ![o] = "alive"]
          /\ m_name' = [m_name EXCEPT ![o] = TRUE]
        BY <1>1 DEF Construct
    <2>1. /\ Owner(o)' /\ m_database_connection'[o] = c /\ ~Owner(o)
          /\ \A p \in Objects \ {o} : /\ Owner(p)' <=> Owner(p)
                                      /\ m_database_connection'[p] = m_database_connection[p]
          /\ \A p \in Objects : Owner(p) => m_database_connection[p] # c
        BY <2>0, NullAssumption DEF Owner, TypeOK, OwnerInv, OneOwner
    <2>2. /\ session'[c] = "open"
          /\ \A d \in Connections \ {c} : session'[d] = session[d]
        BY DEF TypeOK
    <2>3. OneOwner'
        <3>1. \A p \in Objects : Owner(p) => m_database_connection[p] \in Connections
            BY DEF TypeOK, Owner
        <3> QED BY <2>1, <2>2, <3>1 DEF OwnerInv, OneOwner
    <2>4. NamedWhenDestructing'
        BY <2>0 DEF TypeOK, OwnerInv, NamedWhenDestructing
    <2> QED BY <2>3, <2>4 DEF OwnerInv
<1>2. ASSUME NEW o \in Objects, NEW other \in Objects, Move(o, other) PROVE OwnerInv'
    <2>0. /\ state[o] = "none" /\ state[other] = "alive" /\ m_name[other]
          /\ state' = [state EXCEPT ![o] = "alive"]
          /\ m_name' = [m_name EXCEPT ![o] = TRUE, ![other] = FALSE]
          /\ m_database_connection' =
                [m_database_connection EXCEPT ![o] = m_database_connection[other]]
          /\ UNCHANGED session
        BY <1>2 DEF Move, Usable, server
    <2>1. /\ o # other /\ Owner(other) /\ ~Owner(other)' /\ Owner(o)' /\ ~Owner(o)
          /\ m_database_connection'[o] = m_database_connection[other]
          /\ \A p \in Objects \ {o, other} :
                /\ Owner(p)' <=> Owner(p)
                /\ m_database_connection'[p] = m_database_connection[p]
        BY <2>0 DEF Owner, TypeOK
    <2>2. OneOwner'
        BY <2>0, <2>1 DEF OwnerInv, OneOwner
    <2>3. NamedWhenDestructing'
        BY <2>0 DEF TypeOK, OwnerInv, NamedWhenDestructing
    <2> QED BY <2>2, <2>3 DEF OwnerInv
<1>3. ASSUME NEW o \in Objects, Method(o) PROVE OwnerInv'
    BY <1>3, <1>u, MethodsKeepOwners
<1>4. ASSUME NEW o \in Objects, Destroy(o) PROVE OwnerInv'
    <2>1. UNCHANGED <<m_name, m_database_connection, session>>
        BY <1>4 DEF Destroy, server
    <2>2. \A p \in Objects : Owner(p)' <=> Owner(p)
        BY <1>4, <2>1 DEF Destroy, Goto, Owner, TypeOK
    <2>3. NamedWhenDestructing'
        BY <1>4, <2>1 DEF Destroy, Goto, TypeOK, OwnerInv, NamedWhenDestructing
    <2> QED BY <2>1, <2>2, <2>3, SameOwners
<1>5. ASSUME NEW o \in Objects, DestroyEndsCopy(o) \/ DestroyCommits(o) PROVE OwnerInv'
    <2>1. UNCHANGED <<m_name, m_database_connection, session>>
        BY <1>5 DEF DestroyEndsCopy, DestroyCommits, CopyEnds, CommitSucceeds, Refused,
                    CommitFails, object, server
    <2>2. \/ UNCHANGED state
          \/ Goto(o, "end_copy", "commit") \/ Goto(o, "commit", "finish")
        BY <1>5 DEF DestroyEndsCopy, DestroyCommits, object
    <2>3. \A p \in Objects : Owner(p)' <=> Owner(p)
        BY <2>1, <2>2 DEF Goto, Owner, TypeOK
    <2>4. NamedWhenDestructing'
        BY <2>1, <2>2 DEF Goto, TypeOK, OwnerInv, NamedWhenDestructing
    <2> QED BY <2>1, <2>3, <2>4, SameOwners
<1>6. ASSUME NEW o \in Objects, Finish(o) PROVE OwnerInv'
    <2> DEFINE c == m_database_connection[o]
    <2>0. /\ state[o] = "finish" /\ state' = [state EXCEPT ![o] = "destroyed"]
          /\ session' = [session EXCEPT ![c] = "finished"]
          /\ UNCHANGED <<m_name, m_database_connection>>
        BY <1>6 DEF Finish, Goto
    <2>1. /\ Owner(o) /\ ~Owner(o)' /\ c \in Connections
          /\ \A p \in Objects \ {o} : Owner(p)' <=> Owner(p)
        BY <2>0 DEF Owner, TypeOK, OwnerInv, NamedWhenDestructing
    <2>2. /\ session'[c] = "finished"
          /\ \A d \in Connections \ {c} : session'[d] = session[d]
        BY <2>0, <2>1 DEF TypeOK
    <2>3. OneOwner'
        <3>1. \A p \in Objects : Owner(p) => m_database_connection[p] \in Connections
            BY DEF TypeOK, Owner
        <3> QED BY <2>0, <2>1, <2>2, <3>1 DEF OwnerInv, OneOwner
    <2>4. NamedWhenDestructing'
        BY <2>0 DEF TypeOK, OwnerInv, NamedWhenDestructing
    <2> QED BY <2>3, <2>4 DEF OwnerInv
<1>7. ASSUME NEW c \in Connections, ConnectionLost(c) PROVE OwnerInv'
    <2>1. UNCHANGED <<state, m_name, m_database_connection>>
        BY <1>7 DEF ConnectionLost, object
    <2>2. \A d \in Connections :
            session'[d] \in {"open", "broken"} <=> session[d] \in {"open", "broken"}
        BY <1>7 DEF ConnectionLost, TypeOK
    <2>3. \A p \in Objects : Owner(p) => m_database_connection[p] \in Connections
        BY DEF TypeOK, Owner
    <2> QED BY <2>1, <2>2, <2>3 DEF OwnerInv, OneOwner, Owner, NamedWhenDestructing
<1>8. CASE UNCHANGED vars
    BY <1>8, <1>u DEF vars, object, server, ownership
<1> QED BY <1>1, <1>2, <1>3, <1>4, <1>5, <1>6, <1>7, <1>8 DEF Next, Destructor
-----------------------------------------------------------------------------
(* COPY, transactions and rows.                                            *)

(* An owner knows what runs on its connection, and its destructor has      *)
(* ended what it has passed.                                               *)
OwnersKnow ==
    \A o \in Objects : Owner(o) =>
        /\ m_database_connection[o] \in copying => m_copy_mode[o]
        /\ txn[m_database_connection[o]] = "active" => m_begin[o]
        /\ state[o] \in {"commit", "finish"} => ~m_copy_mode[o]
        /\ state[o] = "finish" => ~m_begin[o]

(* Nothing runs on a connection that is not open yet.                      *)
NothingRunsUnopened ==
    /\ \A c \in copying : session[c] = "open"
    /\ \A c \in Connections : session[c] = "none" => txn[c] = "idle"

(* A row on its way to a commit is in a COPY or a transaction that goes on *)
(* unless its connection was disturbed.                                    *)
RowsAccounted ==
    /\ \A c \in Connections : txn[c] = "aborted" => c \in disturbed
    /\ \A l \in Lines :
        /\ where[l] = "copying" => via[l] \in copying
        /\ where[l] = "copied" =>
            via[l] \in Connections /\ (txn[via[l]] = "active" \/ via[l] \in disturbed)
    /\ LostOnlyIfDisturbed

RowsInv == OwnersKnow /\ NothingRunsUnopened /\ RowsAccounted

(* What an answer of the server may take away from an object.              *)
LEMMA ServerOnlyEnds ==
    ASSUME TypeOK, OwnersKnow, UNCHANGED object,
           copying' \subseteq copying,
           \A c \in Connections : txn'[c] = "active" => txn[c] = "active"
    PROVE  OwnersKnow'
<1>1. \A o \in Objects : Owner(o) => m_database_connection[o] \in Connections
    BY DEF TypeOK, Owner
<1> QED BY <1>1 DEF OwnersKnow, Owner, object

(* The answers and the failures of the server.                             *)
LEMMA AnswersAccounted ==
    ASSUME TypeOK, NothingRunsUnopened, RowsAccounted, NEW c \in Connections,
           \/ Answered(c) \/ Interrupted(c) \/ Refused(c) \/ CommitFails(c)
           \/ ConnectionLost(c)
    PROVE  /\ NothingRunsUnopened' /\ RowsAccounted'
           /\ copying' \subseteq copying
           /\ \A d \in Connections : txn'[d] = "active" => txn[d] = "active"
<1>1. CASE Answered(c)
    BY <1>1 DEF Answered, server, rows, NothingRunsUnopened, RowsAccounted, LostOnlyIfDisturbed
<1>2. CASE Interrupted(c)
    BY <1>2 DEF Interrupted, Moved, TypeOK, NothingRunsUnopened, RowsAccounted, LostOnlyIfDisturbed
<1>3. CASE Refused(c)
    <2>1. NothingRunsUnopened' /\ copying' \subseteq copying
            /\ \A d \in Connections : txn'[d] = "active" => txn[d] = "active"
        BY <1>3 DEF Refused, Aborted, TypeOK, NothingRunsUnopened
    <2>2. RowsAccounted'
        BY <1>3 DEF Refused, Moved, Aborted, TypeOK, RowsAccounted, LostOnlyIfDisturbed
    <2> QED BY <2>1, <2>2
<1>4. CASE CommitFails(c)
    <2>1. NothingRunsUnopened' /\ copying' \subseteq copying
            /\ \A d \in Connections : txn'[d] = "active" => txn[d] = "active"
        BY <1>4 DEF CommitFails, TypeOK, NothingRunsUnopened
    <2>2. RowsAccounted'
        BY <1>4 DEF CommitFails, Dropped, TypeOK, RowsAccounted, LostOnlyIfDisturbed
    <2> QED BY <2>1, <2>2
<1>5. CASE ConnectionLost(c)
    <2>1. NothingRunsUnopened' /\ copying' \subseteq copying
            /\ \A d \in Connections : txn'[d] = "active" => txn[d] = "active"
        BY <1>5 DEF ConnectionLost, Aborted, TypeOK, NothingRunsUnopened
    <2>2. RowsAccounted'
        BY <1>5 DEF ConnectionLost, Dropped, Aborted, TypeOK, RowsAccounted, LostOnlyIfDisturbed
    <2> QED BY <2>1, <2>2
<1> QED BY <1>1, <1>2, <1>3, <1>4, <1>5

(* An answer after which the object is as before.                          *)
LEMMA AnswersKeepRows ==
    ASSUME TypeOK, RowsInv, NEW c \in Connections, UNCHANGED object,
           \/ Answered(c) \/ Interrupted(c) \/ Refused(c) \/ CommitFails(c)
           \/ ConnectionLost(c)
    PROVE  RowsInv'
<1>1. /\ NothingRunsUnopened' /\ RowsAccounted'
      /\ copying' \subseteq copying
      /\ \A d \in Connections : txn'[d] = "active" => txn[d] = "active"
    BY AnswersAccounted DEF RowsInv
<1> QED BY <1>1, ServerOnlyEnds DEF RowsInv

(* COPY ends well: its rows are saved, or wait for the commit.             *)
LEMMA CopyEndsAccounted ==
    ASSUME TypeOK, OneOwner, RowsInv, NEW o \in Objects, Owner(o),
           CopyEnds(o, m_database_connection[o]),
           UNCHANGED state \/ Goto(o, "end_copy", "commit")
    PROVE  RowsInv'
<1> DEFINE c == m_database_connection[o]
<1>c. c \in Connections
    BY DEF TypeOK, Owner
<1>1. NothingRunsUnopened' /\ RowsAccounted'
    BY <1>c DEF CopyEnds, Moved, TypeOK, RowsInv, NothingRunsUnopened, RowsAccounted,
                LostOnlyIfDisturbed
<1>2. OwnersKnow'
    BY <1>c DEF CopyEnds, Goto, TypeOK, OneOwner, Owner, RowsInv, OwnersKnow
<1> QED BY <1>1, <1>2 DEF RowsInv

(* COMMIT: rows of a transaction that was aborted were disturbed before.   *)
LEMMA CommitAccounted ==
    ASSUME TypeOK, OneOwner, RowsInv, NEW o \in Objects, Owner(o),
           CommitSucceeds(o, m_database_connection[o]),
           UNCHANGED state \/ Goto(o, "commit", "finish")
    PROVE  RowsInv'
<1> DEFINE c == m_database_connection[o]
<1>c. c \in Connections
    BY DEF TypeOK, Owner
<1>1. NothingRunsUnopened' /\ RowsAccounted'
    <2>1. NothingRunsUnopened'
        BY <1>c DEF CommitSucceeds, TypeOK, RowsInv, NothingRunsUnopened
    <2>2. RowsAccounted'
        BY <1>c DEF CommitSucceeds, Moved, TypeOK, RowsInv, RowsAccounted, LostOnlyIfDisturbed
    <2> QED BY <2>1, <2>2
<1>2. OwnersKnow'
    BY <1>c DEF CommitSucceeds, Goto, TypeOK, OneOwner, Owner, RowsInv, OwnersKnow
<1> QED BY <1>1, <1>2 DEF RowsInv
(* An object whose method or destructor runs and that has its name is the  *)
(* owner of its connection.                                                *)
LEMMA UsableOwns ==
    ASSUME NEW o \in Objects, Usable(o)
    PROVE  Owner(o)
BY DEF Usable, Owner

(* Methods keep the rows accounted for.                                    *)
LEMMA MethodsKeepRows ==
    ASSUME TypeOK, OwnerInv, RowsInv, NEW o \in Objects, Method(o)
    PROVE  RowsInv'
<1> DEFINE c == m_database_connection[o]
<1>o. Owner(o)
    BY UsableOwns DEF Method, create_prepared_statement, send_query, start_copy, send_line,
        end_copy, send_begin, commit, intermediate_commit
<1>c. c \in Connections
    BY <1>o DEF TypeOK, Owner
<1>i. OneOwner
    BY DEF OwnerInv
<1>1. ASSUME UNCHANGED object,
             Answered(c) \/ Interrupted(c) \/ Refused(c) \/ CommitFails(c)
      PROVE  RowsInv'
    BY <1>1, <1>c, AnswersKeepRows
<1>2. CASE create_prepared_statement(o) \/ send_query(o)
    BY <1>1, <1>2 DEF create_prepared_statement, send_query
<1>3. CASE start_copy(o)
    <2>1. CASE Refused(c) /\ UNCHANGED object
        BY <1>1, <2>1
    <2>2. CASE ~(Refused(c) /\ UNCHANGED object)
        <3>0. /\ session[c] = "open"
              /\ copying' = copying \union {c}
              /\ m_copy_mode' = [m_copy_mode EXCEPT ![o] = TRUE]
              /\ where' = Moved(c, "copying", "interrupted")
              /\ disturbed' = disturbed
              /\ UNCHANGED <<session, txn, via, state, m_name, m_begin, m_database_connection>>
            BY <1>3, <2>2 DEF start_copy
        <3>1. NothingRunsUnopened' /\ RowsAccounted'
            BY <3>0, <1>c DEF Moved, TypeOK, RowsInv, NothingRunsUnopened, RowsAccounted,
                              LostOnlyIfDisturbed
        <3>2. state[o] = "alive"
            BY <1>3 DEF start_copy, Usable
        <3>3. OwnersKnow'
            BY <3>0, <3>2, <1>c, <1>i, <1>o
            DEF TypeOK, OneOwner, Owner, RowsInv, OwnersKnow
        <3> QED BY <3>1, <3>3 DEF RowsInv
    <2> QED BY <2>1, <2>2
<1>4. CASE send_line(o)
    <2>1. PICK l \in Lines :
            /\ where' = [where EXCEPT ![l] = "copying"]
            /\ via' = [via EXCEPT ![l] = c]
        BY <1>4 DEF send_line
    <2>2. /\ c \in copying
          /\ UNCHANGED <<object, server, disturbed>>
        BY <1>4 DEF send_line
    <2>3. NothingRunsUnopened' /\ RowsAccounted'
        BY <2>1, <2>2 DEF server, TypeOK, RowsInv, NothingRunsUnopened, RowsAccounted,
                          LostOnlyIfDisturbed
    <2>4. OwnersKnow'
        BY <2>2, ServerOnlyEnds DEF server, RowsInv
    <2> QED BY <2>3, <2>4 DEF RowsInv
<1>5. CASE end_copy(o)
    BY <1>1, <1>5, <1>i, <1>o, CopyEndsAccounted DEF end_copy
<1>6. CASE send_begin(o)
    <2>1. CASE Refused(c) /\ UNCHANGED object
        BY <1>1, <2>1
    <2>2. CASE ~(Refused(c) /\ UNCHANGED object)
        <3>0. /\ session[c] = "open" /\ txn[c] # "aborted"
              /\ txn' = [txn EXCEPT ![c] = "active"]
              /\ m_begin' = [m_begin EXCEPT ![o] = TRUE]
              /\ UNCHANGED <<session, copying, rows, state, m_name, m_copy_mode,
                             m_database_connection>>
            BY <1>6, <2>2 DEF send_begin
        <3>1. NothingRunsUnopened' /\ RowsAccounted'
            BY <3>0, <1>c DEF rows, TypeOK, RowsInv, NothingRunsUnopened, RowsAccounted,
                              LostOnlyIfDisturbed
        <3>2. state[o] = "alive"
            BY <1>6 DEF send_begin, Usable
        <3>3. OwnersKnow'
            BY <3>0, <3>2, <1>c, <1>i, <1>o
            DEF TypeOK, OneOwner, Owner, RowsInv, OwnersKnow
        <3> QED BY <3>1, <3>3 DEF RowsInv
    <2> QED BY <2>1, <2>2
<1>7. CASE commit(o)
    BY <1>1, <1>7, <1>i, <1>o, CommitAccounted DEF commit
<1> QED BY <1>2, <1>3, <1>4, <1>5, <1>6, <1>7 DEF Method, intermediate_commit

(* The destructor keeps the rows accounted for: when it finishes the       *)
(* connection neither a COPY nor a transaction is left.                    *)
LEMMA DestructorKeepsRows ==
    ASSUME TypeOK, OwnerInv, RowsInv, NEW o \in Objects, Destructor(o)
    PROVE  RowsInv'
<1> DEFINE c == m_database_connection[o]
<1>i. OneOwner
    BY DEF OwnerInv
<1>s. ASSUME state[o] \in {"end_copy", "commit", "finish"}
      PROVE  Owner(o) /\ c \in Connections
    BY <1>s DEF TypeOK, OwnerInv, NamedWhenDestructing, Owner
<1>q. ASSUME UNCHANGED <<m_name, m_copy_mode, m_begin, m_database_connection, server, rows>>,
             OwnersKnow'
      PROVE  RowsInv'
    BY <1>q DEF server, rows, RowsInv, NothingRunsUnopened, RowsAccounted, LostOnlyIfDisturbed
<1>1. CASE Destroy(o)
    <2>1. OwnersKnow'
        BY <1>1 DEF Destroy, Goto, server, TypeOK, Owner, RowsInv, OwnersKnow
    <2> QED BY <1>1, <2>1, <1>q DEF Destroy
<1>2. CASE DestroyEndsCopy(o)
    <2>0. state[o] = "end_copy"
        BY <1>2 DEF DestroyEndsCopy, Goto
    <2>1. CASE Refused(c) /\ UNCHANGED object
        BY <2>0, <2>1, <1>s, AnswersKeepRows
    <2>2. CASE Goto(o, "end_copy", "commit") /\ CopyEnds(o, c)
        BY <2>0, <2>2, <1>s, <1>i, CopyEndsAccounted
    <2>3. CASE /\ Goto(o, "end_copy", "commit") /\ ~m_copy_mode[o]
               /\ UNCHANGED <<m_name, m_copy_mode, m_begin, m_database_connection, server, rows>>
        <3>1. OwnersKnow'
            BY <2>3 DEF Goto, server, TypeOK, Owner, RowsInv, OwnersKnow
        <3> QED BY <2>3, <3>1, <1>q
    <2> QED BY <1>2, <2>1, <2>2, <2>3 DEF DestroyEndsCopy
<1>3. CASE DestroyCommits(o)
    <2>0. state[o] = "commit"
        BY <1>3 DEF DestroyCommits, Goto
    <2>1. CASE CommitFails(c) /\ UNCHANGED object
        BY <2>0, <2>1, <1>s, AnswersKeepRows
    <2>2. CASE Goto(o, "commit", "finish") /\ CommitSucceeds(o, c)
        BY <2>0, <2>2, <1>s, <1>i, CommitAccounted
    <2>3. CASE /\ Goto(o, "commit", "finish") /\ ~m_begin[o]
               /\ UNCHANGED <<m_name, m_copy_mode, m_begin, m_database_connection, server, rows>>
        <3>1. OwnersKnow'
            BY <2>3 DEF Goto, server, TypeOK, Owner, RowsInv, OwnersKnow
        <3> QED BY <2>3, <3>1, <1>q
    <2> QED BY <1>3, <2>1, <2>2, <2>3 DEF DestroyCommits
<1>4. CASE Finish(o)
    <2>0. /\ state[o] = "finish" /\ state' = [state EXCEPT ![o] = "destroyed"]
          /\ session' = [session EXCEPT ![c] = "finished"]
          /\ copying' = copying \ {c}
          /\ txn' = [txn EXCEPT ![c] = "idle"]
          /\ where' = Dropped(c)
          /\ UNCHANGED <<m_name, m_copy_mode, m_begin, m_database_connection, via, disturbed>>
        BY <1>4 DEF Finish, Goto
    <2>c. Owner(o) /\ c \in Connections
        BY <2>0, <1>s
    <2>1. c \notin copying /\ txn[c] # "active"
        BY <2>0, <2>c DEF RowsInv, OwnersKnow
    <2>2. NothingRunsUnopened'
        BY <2>0, <2>c DEF TypeOK, RowsInv, NothingRunsUnopened
    <2>3. RowsAccounted'
        BY <2>0, <2>1, <2>c DEF Dropped, TypeOK, RowsInv, RowsAccounted, LostOnlyIfDisturbed
    <2>4. OwnersKnow'
        BY <2>0, <2>c, <1>i DEF TypeOK, OneOwner, Owner, RowsInv, OwnersKnow
    <2> QED BY <2>2, <2>3, <2>4 DEF RowsInv
<1> QED BY <1>1, <1>2, <1>3, <1>4 DEF Destructor

(* Every step keeps the rows accounted for.                                *)
LEMMA RowsStep == TypeOK /\ OwnerInv /\ RowsInv /\ [Next]_vars => RowsInv'
<1> SUFFICES ASSUME TypeOK, OwnerInv, RowsInv, [Next]_vars PROVE RowsInv'
    OBVIOUS
<1>1. ASSUME NEW o \in Objects, Construct(o) PROVE RowsInv'
    <2> PICK c \in Connections :
            /\ session[c] = "none"
            /\ session' = [session EXCEPT ![c] = "open"]
            /\ m_database_connection' = [m_database_connection EXCEPT ![o] = c]
        BY <1>1 DEF Construct
    <2>0. /\ state[o] = "none"
          /\ state' = [state EXCEPT ![o] = "alive"]
          /\ m_name' = [m_name EXCEPT ![o] = TRUE]
          /\ UNCHANGED <<m_copy_mode, m_begin, copying, txn, where, via, disturbed>>
        BY <1>1 DEF Construct, rows
    <2>1. NothingRunsUnopened' /\ RowsAccounted'
        BY <2>0 DEF TypeOK, RowsInv, NothingRunsUnopened, RowsAccounted, LostOnlyIfDisturbed
    <2>2. c \notin copying /\ txn[c] = "idle"
        BY DEF RowsInv, NothingRunsUnopened
    <2>3. OwnersKnow'
        BY <2>0, <2>2 DEF TypeOK, Owner, RowsInv, OwnersKnow
    <2> QED BY <2>1, <2>3 DEF RowsInv
<1>2. ASSUME NEW o \in Objects, NEW other \in Objects, Move(o, other) PROVE RowsInv'
    <2>0. /\ state[o] = "none" /\ Owner(other) /\ state[other] = "alive"
          /\ state' = [state EXCEPT ![o] = "alive"]
          /\ m_name' = [m_name EXCEPT ![o] = TRUE, ![other] = FALSE]
          /\ m_copy_mode' = [m_copy_mode EXCEPT ![o] = m_copy_mode[other]]
          /\ m_begin' = [m_begin EXCEPT ![o] = m_begin[other]]
          /\ m_database_connection' =
                [m_database_connection EXCEPT ![o] = m_database_connection[other]]
          /\ UNCHANGED <<session, copying, txn, where, via, disturbed>>
        BY <1>2, UsableOwns DEF Move, Usable, server, rows
    <2>1. NothingRunsUnopened' /\ RowsAccounted'
        BY <2>0 DEF RowsInv, NothingRunsUnopened, RowsAccounted, LostOnlyIfDisturbed
    <2>2. OwnersKnow'
        BY <2>0 DEF TypeOK, Owner, RowsInv, OwnersKnow
    <2> QED BY <2>1, <2>2 DEF RowsInv
<1>3. ASSUME NEW o \in Objects, Method(o) PROVE RowsInv'
    BY <1>3, MethodsKeepRows
<1>4. ASSUME NEW o \in Objects, Destructor(o) PROVE RowsInv'
    BY <1>4, DestructorKeepsRows
<1>5. ASSUME NEW c \in Connections, ConnectionLost(c) PROVE RowsInv'
    BY <1>5, AnswersKeepRows DEF ConnectionLost
<1>6. CASE UNCHANGED vars
    BY <1>6 DEF vars, object, server, rows, Owner, RowsInv, OwnersKnow, NothingRunsUnopened,
                RowsAccounted, LostOnlyIfDisturbed
<1> QED BY <1>1, <1>2, <1>3, <1>4, <1>5, <1>6 DEF Next

(* The invariants hold.                                                    *)
LEMMA InvariantsHold == Spec => [](TypeOK /\ OwnerInv /\ RowsInv)
<1>1. ASSUME Init PROVE TypeOK
    <2>1. ObjectsTyped
        BY <1>1 DEF Init, ObjectsTyped
    <2>2. ConnectionsTyped /\ terminated \in BOOLEAN
        BY <1>1 DEF Init, ConnectionsTyped
    <2> QED BY <2>1, <2>2 DEF TypeOK, ObjectsTyped, ConnectionsTyped
<1>2. Init => OwnerInv
    BY DEF Init, OwnerInv, OneOwner, Owner, NamedWhenDestructing
<1>3. Init => RowsInv
    BY DEF Init, RowsInv, OwnersKnow, Owner, NothingRunsUnopened, RowsAccounted,
           LostOnlyIfDisturbed
<1> QED BY <1>1, <1>2, <1>3, TypeStep, OwnerStep, RowsStep, PTL DEF Spec

(* Through any number of moves and failures a connection in use has one    *)
(* owner: the destructors of Table finish it once, and none is forgotten.  *)
THEOREM ConnectionsOwnedOnce == Spec => []OneOwner
<1>1. OwnerInv => OneOwner
    BY DEF OwnerInv
<1> QED BY <1>1, InvariantsHold, PTL

(* Rows given to send_line are lost only with a failure, unless another    *)
(* command has cut off their COPY: the order end_copy, commit, PQfinish in *)
(* ~Table saves them.                                                      *)
THEOREM NoRowLostUndisturbed == Spec => []LostOnlyIfDisturbed
<1>1. RowsInv => LostOnlyIfDisturbed
    BY DEF RowsInv, RowsAccounted
<1> QED BY <1>1, InvariantsHold, PTL

(* A call on a usable object that cuts off a row finds m_copy_mode set.    *)
LEMMA CutOffKnown ==
    ASSUME TypeOK, RowsInv, NEW l \in Lines, CutOff(l), NEW o \in Objects, Usable(o),
           where' = Moved(m_database_connection[o], "copying", "interrupted")
    PROVE  m_copy_mode[o] /\ via[l] = m_database_connection[o]
<1>1. via[l] = m_database_connection[o] /\ where[l] = "copying"
    BY DEF CutOff, Moved
<1>2. via[l] \in copying
    BY <1>1 DEF RowsInv, RowsAccounted
<1>3. Owner(o)
    BY DEF Usable, Owner
<1> QED BY <1>1, <1>2, <1>3 DEF RowsInv, OwnersKnow

(* Only start_copy and create_prepared_statement cut off a row.            *)
LEMMA CutOffStep ==
    ASSUME TypeOK, RowsInv, Next, NEW l \in Lines, CutOff(l)
    PROVE  \E o \in Objects :
            /\ create_prepared_statement(o) \/ start_copy(o)
            /\ m_copy_mode[o] /\ via[l] = m_database_connection[o]
<1>1. ASSUME NEW c, Answered(c) \/ Refused(c) \/ CommitFails(c) \/ ConnectionLost(c)
      PROVE  FALSE
    BY <1>1 DEF Answered, Refused, CommitFails, ConnectionLost, Moved, Dropped, CutOff, rows,
                TypeOK
<1>2. ASSUME NEW o, NEW c, CopyEnds(o, c) \/ CommitSucceeds(o, c)
      PROVE  FALSE
    BY <1>2 DEF CopyEnds, CommitSucceeds, Moved, CutOff, TypeOK
<1>3. ASSUME UNCHANGED where PROVE FALSE
    BY <1>3 DEF CutOff
<1>4. ASSUME NEW o \in Objects, Construct(o) \/ Destructor(o) PROVE FALSE
    <2>1. ASSUME Construct(o) \/ Destroy(o) PROVE FALSE
        BY <1>3, <2>1 DEF Construct, Destroy, rows
    <2>2. ASSUME DestroyEndsCopy(o) \/ DestroyCommits(o) PROVE FALSE
        BY <1>1, <1>2, <1>3, <2>2 DEF DestroyEndsCopy, DestroyCommits, rows
    <2>3. ASSUME Finish(o) PROVE FALSE
        BY <2>3 DEF Finish, Dropped, CutOff, TypeOK
    <2> QED BY <1>4, <2>1, <2>2, <2>3 DEF Destructor
<1>5. ASSUME NEW o \in Objects, NEW other \in Objects, Move(o, other) PROVE FALSE
    BY <1>3, <1>5 DEF Move, rows
<1>6. ASSUME NEW o \in Objects, send_line(o) PROVE FALSE
    BY <1>6 DEF send_line, CutOff, TypeOK
<1>7. ASSUME NEW o \in Objects,
             end_copy(o) \/ send_begin(o) \/ commit(o) \/ intermediate_commit(o)
      PROVE  FALSE
    BY <1>1, <1>2, <1>3, <1>7 DEF end_copy, send_begin, commit, intermediate_commit, rows
<1>8. ASSUME NEW o \in Objects, send_query(o) PROVE FALSE
    <2>1. Interrupted(m_database_connection[o])
        BY <1>1, <1>8 DEF send_query
    <2> QED BY <1>8, <2>1, CutOffKnown DEF send_query, Interrupted
<1>9. ASSUME NEW o \in Objects, create_prepared_statement(o)
      PROVE  m_copy_mode[o] /\ via[l] = m_database_connection[o]
    <2>1. Interrupted(m_database_connection[o])
        BY <1>1, <1>9 DEF create_prepared_statement
    <2> QED BY <1>9, <2>1, CutOffKnown DEF create_prepared_statement, Interrupted
<1>10. ASSUME NEW o \in Objects, start_copy(o)
       PROVE  m_copy_mode[o] /\ via[l] = m_database_connection[o]
    <2>1. where' = Moved(m_database_connection[o], "copying", "interrupted")
        BY <1>1, <1>10 DEF start_copy
    <2> QED BY <1>10, <2>1, CutOffKnown DEF start_copy
<1> QED BY <1>1, <1>4, <1>5, <1>6, <1>7, <1>8, <1>9, <1>10 DEF Next, Method

(* A COPY is cut off without an exception only by the two calls that do    *)
(* not ask m_copy_mode, on the object whose COPY it is: neither send_query *)
(* nor a destructor does so after any number of moves and failures.        *)
THEOREM OnlyUncheckedCallsCutOff == Spec => CutOffOnlyUnasked
<1>1. TypeOK /\ RowsInv /\ [Next]_vars =>
        [\A l \in Lines : CutOff(l) =>
            \E o \in Objects :
                /\ create_prepared_statement(o) \/ start_copy(o)
                /\ m_copy_mode[o] /\ via[l] = m_database_connection[o]]_vars
    BY CutOffStep
<1> QED BY <1>1, InvariantsHold, PTL DEF Spec, CutOffOnlyUnasked
=============================================================================

------------------------------- MODULE Table -------------------------------
(***************************************************************************)
(* postgres_drivers::Table: an object that owns one connection, is moved   *)
(* from place to place (the data sources, the node stores), tracks COPY    *)
(* mode and a transaction on its side of the connection and ends both in   *)
(* its destructor. The server and libpq are modelled by what the class     *)
(* sees of them. Calls that throw before they send anything change nothing *)
(* and are left out; objects without a connection (for tests) too. Objects *)
(* that were moved from are only destroyed.                                *)
(***************************************************************************)
EXTENDS Naturals

CONSTANTS
    Objects,        (* places for objects                                  *)
    Connections,    (* connections that may be opened                      *)
    Lines,          (* rows to insert, each sent once                      *)
    NULL

ASSUME NullAssumption == NULL \notin Connections

VARIABLES
    (* The members of each object; m_name tells whether it is not empty.   *)
    state, m_name, m_copy_mode, m_begin, m_database_connection,
    (* Each connection: whether it is open, COPY runs, its transaction.    *)
    session, copying, txn,
    (* Where each line is and by which connection it was sent.             *)
    where, via,
    (* Connections that failed or on which a call threw.                   *)
    disturbed,
    (* An exception has left a destructor.                                 *)
    terminated

object == <<state, m_name, m_copy_mode, m_begin, m_database_connection>>
server == <<session, copying, txn>>
rows == <<where, via, disturbed>>
vars == <<object, server, rows, terminated>>

Init ==
    /\ state = [o \in Objects |-> "none"]
    /\ m_name = [o \in Objects |-> FALSE]
    /\ m_copy_mode = [o \in Objects |-> FALSE]
    /\ m_begin = [o \in Objects |-> FALSE]
    /\ m_database_connection = [o \in Objects |-> NULL]
    /\ session = [c \in Connections |-> "none"]
    /\ copying = {}
    /\ txn = [c \in Connections |-> "idle"]
    /\ where = [l \in Lines |-> "unsent"]
    /\ via = [l \in Lines |-> NULL]
    /\ disturbed = {}
    /\ terminated = FALSE

(* An object that has not been moved from; its methods may be called.      *)
Usable(o) == state[o] = "alive" /\ m_name[o]

-----------------------------------------------------------------------------
(* The server's answers on connection c.                                   *)

Moved(c, phase, to) ==
    [l \in Lines |-> IF via[l] = c /\ where[l] = phase THEN to ELSE where[l]]

(* The rows of c that are not saved are gone.                              *)
Dropped(c) ==
    [l \in Lines |-> IF via[l] = c /\ where[l] \in {"copying", "copied"} THEN "lost"
                     ELSE where[l]]

Aborted(c) == [txn EXCEPT ![c] = IF @ = "active" THEN "aborted" ELSE @]

Answered(c) ==
    /\ session[c] = "open" /\ c \notin copying /\ txn[c] # "aborted"
    /\ UNCHANGED <<server, rows>>

(* PQexec and PQprepare end a COPY that runs, then send their command. The *)
(* rows of that COPY are gone; the caller is not told.                     *)
Interrupted(c) ==
    /\ session[c] = "open" /\ c \in copying /\ txn[c] = "idle"
    /\ copying' = copying \ {c}
    /\ where' = Moved(c, "copying", "interrupted")
    /\ UNCHANGED <<session, txn, via, disturbed>>

(* The command fails, and with it the transaction; the call throws.        *)
Refused(c) ==
    /\ copying' = copying \ {c}
    /\ where' = Moved(c, "copying", "lost")
    /\ txn' = Aborted(c)
    /\ disturbed' = disturbed \union {c}
    /\ UNCHANGED <<session, via>>

(* The server or the network is gone.                                      *)
ConnectionLost(c) ==
    /\ session[c] = "open"
    /\ session' = [session EXCEPT ![c] = "broken"]
    /\ copying' = copying \ {c}
    /\ txn' = Aborted(c)
    /\ where' = Dropped(c)
    /\ disturbed' = disturbed \union {c}
    /\ UNCHANGED <<object, via, terminated>>

-----------------------------------------------------------------------------
Construct(o) ==
    /\ state[o] = "none"
    /\ \E c \in Connections :
        /\ session[c] = "none"
        /\ session' = [session EXCEPT ![c] = "open"]
        /\ m_database_connection' = [m_database_connection EXCEPT ![o] = c]
    /\ state' = [state EXCEPT ![o] = "alive"]
    /\ m_name' = [m_name EXCEPT ![o] = TRUE]
    /\ UNCHANGED <<m_copy_mode, m_begin, copying, txn, rows, terminated>>

MoveKeepsName(o, other) ==  \* mutant of Move
    /\ state[o] = "none" /\ Usable(other)
    /\ state' = [state EXCEPT ![o] = "alive"]
    /\ m_name' = [m_name EXCEPT ![o] = TRUE]
    /\ m_copy_mode' = [m_copy_mode EXCEPT ![o] = m_copy_mode[other]]
    /\ m_begin' = [m_begin EXCEPT ![o] = m_begin[other]]
    /\ m_database_connection' =
        [m_database_connection EXCEPT ![o] = m_database_connection[other]]
    /\ UNCHANGED <<server, rows, terminated>>

MoveForgetsCopy(o, other) ==  \* mutant of Move
    /\ state[o] = "none" /\ Usable(other)
    /\ state' = [state EXCEPT ![o] = "alive"]
    /\ m_name' = [m_name EXCEPT ![o] = TRUE, ![other] = FALSE]
    /\ m_begin' = [m_begin EXCEPT ![o] = m_begin[other]]
    /\ m_database_connection' =
        [m_database_connection EXCEPT ![o] = m_database_connection[other]]
    /\ UNCHANGED <<m_copy_mode, server, rows, terminated>>

(* Table(Table&&). The pointer to the connection stays in the other object *)
(* as well; only the name, which std::move leaves empty, tells them apart. *)
Move(o, other) ==
    /\ state[o] = "none" /\ Usable(other)
    /\ state' = [state EXCEPT ![o] = "alive"]
    /\ m_name' = [m_name EXCEPT ![o] = TRUE, ![other] = FALSE]
    /\ m_copy_mode' = [m_copy_mode EXCEPT ![o] = m_copy_mode[other]]
    /\ m_begin' = [m_begin EXCEPT ![o] = m_begin[other]]
    /\ m_database_connection' =
        [m_database_connection EXCEPT ![o] = m_database_connection[other]]
    /\ UNCHANGED <<server, rows, terminated>>

(* Neither this nor start_copy looks at m_copy_mode.                       *)
create_prepared_statement(o) ==
    /\ Usable(o)
    /\ LET c == m_database_connection[o] IN Answered(c) \/ Interrupted(c) \/ Refused(c)
    /\ UNCHANGED <<object, terminated>>

(* Also send_select_query.                                                 *)
send_query(o) ==
    /\ Usable(o) /\ ~m_copy_mode[o]
    /\ LET c == m_database_connection[o] IN Answered(c) \/ Interrupted(c) \/ Refused(c)
    /\ UNCHANGED <<object, terminated>>

start_copy(o) ==
    /\ Usable(o)
    /\ LET c == m_database_connection[o]
       IN  \/ /\ session[c] = "open" /\ txn[c] # "aborted"
              /\ c \in copying => txn[c] = "idle"
              /\ copying' = copying \union {c}
              /\ m_copy_mode' = [m_copy_mode EXCEPT ![o] = TRUE]
              /\ where' = Moved(c, "copying", "interrupted")
              /\ UNCHANGED <<session, txn, via, disturbed, state, m_name, m_begin,
                             m_database_connection>>
           \/ Refused(c) /\ UNCHANGED object
    /\ UNCHANGED terminated

send_line(o) ==
    /\ Usable(o) /\ m_copy_mode[o] /\ m_database_connection[o] \in copying
    /\ \E l \in Lines :
        /\ where[l] = "unsent"
        /\ where' = [where EXCEPT ![l] = "copying"]
        /\ via' = [via EXCEPT ![l] = m_database_connection[o]]
    /\ UNCHANGED <<object, server, disturbed, terminated>>

send_begin(o) ==
    /\ Usable(o) /\ ~m_copy_mode[o]
    /\ LET c == m_database_connection[o]
       IN  \/ /\ session[c] = "open" /\ txn[c] # "aborted" /\ c \notin copying
              /\ txn' = [txn EXCEPT ![c] = "active"]
              /\ m_begin' = [m_begin EXCEPT ![o] = TRUE]
              /\ UNCHANGED <<session, copying, rows, state, m_name, m_copy_mode,
                             m_database_connection>>
           \/ Refused(c) /\ UNCHANGED object
    /\ UNCHANGED terminated

(* The server takes the rows, or it rejects them or there is no COPY; then *)
(* end_copy throws and m_copy_mode stays.                                  *)
CopyEnds(o, c) ==
    /\ session[c] = "open" /\ c \in copying
    /\ copying' = copying \ {c}
    /\ m_copy_mode' = [m_copy_mode EXCEPT ![o] = FALSE]
    /\ where' = Moved(c, "copying", IF txn[c] = "active" THEN "copied" ELSE "saved")
    /\ UNCHANGED <<m_name, m_begin, m_database_connection, session, txn, via, disturbed>>

end_copy(o) ==
    /\ Usable(o) /\ m_copy_mode[o]
    /\ \/ CopyEnds(o, m_database_connection[o]) /\ UNCHANGED state
       \/ Refused(m_database_connection[o]) /\ UNCHANGED object
    /\ UNCHANGED terminated

(* COMMIT of a transaction that was aborted is a rollback and succeeds.    *)
CommitSucceeds(o, c) ==
    /\ session[c] = "open" /\ c \notin copying
    /\ txn' = [txn EXCEPT ![c] = "idle"]
    /\ m_begin' = [m_begin EXCEPT ![o] = FALSE]
    /\ where' = Moved(c, "copied", IF txn[c] = "active" THEN "saved" ELSE "lost")
    /\ UNCHANGED <<m_name, m_copy_mode, m_database_connection, session, copying, via, disturbed>>

CommitFails(c) ==
    /\ txn' = [txn EXCEPT ![c] = "idle"]
    /\ where' = Dropped(c)
    /\ copying' = copying \ {c}
    /\ disturbed' = disturbed \union {c}
    /\ UNCHANGED <<session, via>>

commit(o) ==
    /\ Usable(o) /\ ~m_copy_mode[o]
    /\ \/ CommitSucceeds(o, m_database_connection[o]) /\ UNCHANGED state
       \/ CommitFails(m_database_connection[o]) /\ UNCHANGED object
    /\ UNCHANGED terminated

(* It sends no BEGIN afterwards.                                           *)
intermediate_commit(o) == m_begin[o] /\ commit(o)

-----------------------------------------------------------------------------
(* The destructor, command by command. An exception ends the program.      *)

Goto(o, from, to) == state[o] = from /\ state' = [state EXCEPT ![o] = to]

Destroy(o) ==
    /\ Goto(o, "alive", IF m_name[o] THEN "end_copy" ELSE "destroyed")
    /\ UNCHANGED <<m_name, m_copy_mode, m_begin, m_database_connection, server, rows, terminated>>

DestroyEndsCopy(o) ==
    /\ \/ /\ Goto(o, "end_copy", "commit")
          /\ \/ m_copy_mode[o] /\ CopyEnds(o, m_database_connection[o])
             \/ /\ ~m_copy_mode[o]
                /\ UNCHANGED <<m_name, m_copy_mode, m_begin, m_database_connection, server, rows>>
          /\ UNCHANGED terminated
       \/ /\ state[o] = "end_copy" /\ m_copy_mode[o]
          /\ Refused(m_database_connection[o])
          /\ terminated' = TRUE
          /\ UNCHANGED object

DestroyCommitsOnlyCopies(o) ==  \* mutant of DestroyCommits
    /\ Goto(o, "commit", "finish")
    /\ UNCHANGED <<m_name, m_copy_mode, m_begin, m_database_connection, server, rows, terminated>>

DestroyCommits(o) ==
    /\ \/ /\ Goto(o, "commit", "finish")
          /\ \/ m_begin[o] /\ CommitSucceeds(o, m_database_connection[o])
             \/ /\ ~m_begin[o]
                /\ UNCHANGED <<m_name, m_copy_mode, m_begin, m_database_connection, server, rows>>
          /\ UNCHANGED terminated
       \/ /\ state[o] = "commit" /\ m_begin[o]
          /\ CommitFails(m_database_connection[o])
          /\ terminated' = TRUE
          /\ UNCHANGED object

(* PQfinish; what is not committed is rolled back.                         *)
Finish(o) ==
    /\ Goto(o, "finish", "destroyed")
    /\ LET c == m_database_connection[o]
       IN  /\ session' = [session EXCEPT ![c] = "finished"]
           /\ copying' = copying \ {c}
           /\ txn' = [txn EXCEPT ![c] = "idle"]
           /\ where' = Dropped(c)
    /\ UNCHANGED <<m_name, m_copy_mode, m_begin, m_database_connection, via, disturbed, terminated>>

Method(o) ==
    \/ create_prepared_statement(o) \/ send_query(o)
    \/ start_copy(o) \/ send_line(o) \/ end_copy(o)
    \/ send_begin(o) \/ commit(o) \/ intermediate_commit(o)

Destructor(o) == Destroy(o) \/ DestroyEndsCopy(o) \/ DestroyCommits(o) \/ Finish(o)

Next ==
    /\ ~terminated
    /\ \/ \E o \in Objects : Construct(o) \/ Method(o) \/ Destructor(o)
       \/ \E o, other \in Objects : Move(o, other)
       \/ \E c \in Connections : ConnectionLost(c)

Spec == Init /\ [][Next]_vars

-----------------------------------------------------------------------------
(* An object whose destructor has still to finish its connection.          *)
Owner(o) == m_name[o] /\ state[o] \notin {"none", "destroyed"}

TypeOK ==
    /\ state \in [Objects -> {"none", "alive", "end_copy", "commit", "finish", "destroyed"}]
    /\ m_name \in [Objects -> BOOLEAN]
    /\ m_copy_mode \in [Objects -> BOOLEAN] /\ m_begin \in [Objects -> BOOLEAN]
    /\ m_database_connection \in [Objects -> Connections \union {NULL}]
    /\ \A o \in Objects : state[o] # "none" => m_database_connection[o] # NULL
    /\ session \in [Connections -> {"none", "open", "broken", "finished"}]
    /\ copying \subseteq Connections /\ disturbed \subseteq Connections
    /\ txn \in [Connections -> {"idle", "active", "aborted"}]
    /\ where \in [Lines -> {"unsent", "copying", "copied", "saved", "interrupted", "lost"}]
    /\ via \in [Lines -> Connections \union {NULL}]
    /\ terminated \in BOOLEAN

(* However often objects are moved, each connection in use has one owner,  *)
(* so none is finished twice, used after it was finished or forgotten.     *)
OneOwner ==
    /\ \A o \in Objects : Owner(o) => session[m_database_connection[o]] \in {"open", "broken"}
    /\ \A o, other \in Objects :
        Owner(o) /\ Owner(other) /\ m_database_connection[o] = m_database_connection[other]
            => o = other
    /\ \A c \in Connections : session[c] \in {"open", "broken"} =>
        \E o \in Objects : Owner(o) /\ m_database_connection[o] = c

(* Rows are gone without an exception only by a call that does not ask     *)
(* m_copy_mode, and then they are rows its own object has sent or taken    *)
(* over. The queries, BEGIN and COMMIT never cut off a COPY, whatever      *)
(* moves, failures and COPYs that were cut off have come before.           *)
CutOff(l) == where[l] # "interrupted" /\ where'[l] = "interrupted"

CutOffOnlyUnasked ==
    [][\A l \in Lines : CutOff(l) =>
        \E o \in Objects :
            /\ create_prepared_statement(o) \/ start_copy(o)
            /\ m_copy_mode[o] /\ via[l] = m_database_connection[o]]_vars

(* Rows that were sent are lost only with a connection that reported a     *)
(* failure; else the destructor saves them, in a transaction or not, those *)
(* of a later COPY too when another command has ended one. Only the rows   *)
(* of the COPY that was ended are no matter of this property.              *)
LostOnlyIfDisturbed == \A l \in Lines : where[l] = "lost" => via[l] \in disturbed
=============================================================================

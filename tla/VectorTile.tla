----------------------------- MODULE VectorTile -----------------------------
(***************************************************************************)
(* VectorTile::generate_vectortile with the jobs database and the output   *)
(* directory. Generators (runs of the program, each with a list of tiles)  *)
(* cancel the pending job of a tile, remove its file, write a new one and  *)
(* add a job; a worker outside this repository takes the jobs. Nothing     *)
(* joins these steps to a transaction, nothing keeps two generators from   *)
(* the same tile, and a generator may end between any two of its steps:    *)
(* every failed query throws and nobody catches.                           *)
(***************************************************************************)
EXTENDS Naturals, Sequences, FiniteSets, Functions

CONSTANTS
    Generators,
    Tiles,
    Lists,          (* the list of tiles of each generator                 *)
    QuadtreeId,     (* xy_to_quadtree of each tile                         *)
    MaxRuns         (* how often a generator is started at most            *)

ASSUME ListsAssumption ==
    /\ Lists \in [Generators -> Seq(Tiles)]
    /\ IsFiniteSet(Generators)
    /\ DOMAIN QuadtreeId = Tiles
    /\ MaxRuns \in Nat

VARIABLES
    m_jobs_db, m_force,     (* options -j and -f, the same for all         *)
    pc, todo, runs,         (* of each generator                           *)
    file,                   (* of each tile                                *)
    attached,               (* generators whose open file has still its    *)
                            (* name in the directory                       *)
    pending, taken,         (* rows of each tile in table jobs: processing *)
                            (* false and true                              *)
    fresh,                  (* tiles whose file no job has been taken for  *)
    spoiled                 (* tiles whose last job found no complete file,*)
                            (* or lost it before it was done               *)

options == <<m_jobs_db, m_force>>
run == <<pc, todo, runs>>
directory == <<file, attached>>
table == <<pending, taken>>
history == <<fresh, spoiled>>
vars == <<options, run, directory, table, history>>

ProgramPoints == {"next_tile", "cancel_job", "remove", "write_file",
                  "writing", "add_job", "ended", "crashed"}

(* Two writers without O_EXCL leave the bytes of both: "mixed".            *)
FileStates == {"absent", "partial", "complete", "mixed"}

Init ==
    /\ m_jobs_db \in BOOLEAN /\ m_force \in BOOLEAN
    /\ pc = [g \in Generators |-> "next_tile"]
    /\ todo = Lists
    /\ runs = [g \in Generators |-> 1]
    /\ file \in [Tiles -> {"absent", "complete"}]
    /\ attached = {}
    /\ pending \in [Tiles -> {0, 1}]
    /\ \A t \in Tiles : pending[t] > 0 => file[t] = "complete"
    /\ taken = [t \in Tiles |-> 0]
    /\ fresh = {t \in Tiles : pending[t] > 0}
    /\ spoiled = {}

Tile(g) == Head(todo[g])
Listed(t) == \E g \in Generators : t \in Range(todo[g])

(* The generators that have the open file of a tile in the directory.      *)
Writers(t) == {g \in attached : Tile(g) = t}

(* A job in process that reads the file of tile t is disturbed.            *)
Disturb(t) == spoiled' = IF taken[t] > 0 THEN spoiled \union {t} ELSE spoiled

Goto(g, from, to) == pc[g] = from /\ pc' = [pc EXCEPT ![g] = to]

(* The loop of run(); without a jobs database the tile is written at once. *)
StartTile(g) ==
    /\ todo[g] # <<>>
    /\ Goto(g, "next_tile", IF m_jobs_db THEN "cancel_job" ELSE "write_file")
    /\ UNCHANGED <<options, todo, runs, directory, table, history>>

EndRun(g) ==
    /\ todo[g] = <<>>
    /\ Goto(g, "next_tile", "ended")
    /\ UNCHANGED <<options, todo, runs, directory, table, history>>

CancelNoJob(g) ==  \* mutant of CancelJob
    /\ Goto(g, "cancel_job", "remove")
    /\ UNCHANGED <<options, todo, runs, directory, table, history>>

(* DELETE FROM jobs WHERE quadtree_id = $1 AND processing = false; the id  *)
(* does not tell the zoom level.                                           *)
CancelJob(g) ==
    /\ Goto(g, "cancel_job", "remove")
    /\ pending' = [t \in Tiles |->
                    IF QuadtreeId[t] = QuadtreeId[Tile(g)] THEN 0 ELSE pending[t]]
    /\ UNCHANGED <<options, todo, runs, directory, taken, history>>

(* stat and std::remove, whose failure is only logged. Who has the file    *)
(* open writes on, into a file without a name.                             *)
RemoveFile(g) ==
    /\ Goto(g, "remove", "write_file")
    /\ \/ /\ file' = [file EXCEPT ![Tile(g)] = "absent"]
          /\ attached' = attached \ Writers(Tile(g))
          /\ fresh' = fresh \ {Tile(g)}
          /\ Disturb(Tile(g))
       \/ file[Tile(g)] # "absent" /\ UNCHANGED <<directory, history>>
    /\ UNCHANGED <<options, todo, runs, table>>

(* The file is created, or truncated under those who write it.             *)
Truncate(g) ==
    /\ file' = [file EXCEPT ![Tile(g)] =
                    IF Writers(Tile(g)) = {} THEN "partial" ELSE "mixed"]
    /\ attached' = attached \union {g}
    /\ fresh' = fresh \ {Tile(g)}
    /\ Disturb(Tile(g))

OpenFileAddsJob(g) ==  \* mutant of OpenFile
    /\ Goto(g, "write_file", "writing")
    /\ file[Tile(g)] = "absent" \/ m_force
    /\ Truncate(g)
    /\ pending' = [pending EXCEPT ![Tile(g)] = @ + 1]
    /\ UNCHANGED <<options, todo, runs, taken>>

OpenFileUnguarded(g) ==  \* mutant of OpenFile
    /\ Goto(g, "write_file", "writing")
    /\ Truncate(g)
    /\ UNCHANGED <<options, todo, runs, table>>

(* OSMVectorTileImpl::generate_vectortile: the file is opened, which fails *)
(* if it exists and -f was not given, ...                                  *)
OpenFile(g) ==
    /\ Goto(g, "write_file", "writing")
    /\ file[Tile(g)] = "absent" \/ m_force
    /\ Truncate(g)
    /\ UNCHANGED <<options, todo, runs, table>>

FileExistsSkipsTile(g) ==  \* mutant of FileExists
    /\ Goto(g, "write_file", "next_tile")
    /\ file[Tile(g)] # "absent" /\ ~m_force
    /\ todo' = [todo EXCEPT ![g] = Tail(@)]
    /\ UNCHANGED <<options, runs, directory, table, history>>

FileExists(g) ==
    /\ Goto(g, "write_file", "crashed")
    /\ file[Tile(g)] # "absent" /\ ~m_force
    /\ UNCHANGED <<options, todo, runs, directory, table, history>>

(* ... written and closed. It is the file of the tile only if nobody has   *)
(* removed it meanwhile.                                                   *)
CloseFile(g) ==
    /\ file' = IF g \in attached /\ file[Tile(g)] = "partial"
               THEN [file EXCEPT ![Tile(g)] = "complete"]
               ELSE file
    /\ attached' = attached \ {g}
    /\ IF m_jobs_db
       THEN /\ Goto(g, "writing", "add_job")
            /\ fresh' = IF g \in attached THEN fresh \union {Tile(g)} ELSE fresh
            /\ UNCHANGED todo
       ELSE /\ Goto(g, "writing", "next_tile")
            /\ todo' = [todo EXCEPT ![g] = Tail(@)]
            /\ UNCHANGED fresh
    /\ UNCHANGED <<options, runs, table, spoiled>>

AddJobUnchecked(g) ==  \* mutant of AddJob
    /\ Goto(g, "add_job", "next_tile")
    /\ pending' \in {pending, [pending EXCEPT ![Tile(g)] = @ + 1]}
    /\ todo' = [todo EXCEPT ![g] = Tail(@)]
    /\ UNCHANGED <<options, runs, directory, taken, history>>

AddJobForever(g) ==  \* mutant of AddJob
    /\ Goto(g, "add_job", "next_tile")
    /\ pending' = [pending EXCEPT ![Tile(g)] = 1]
    /\ UNCHANGED <<options, todo, runs, directory, taken, history>>

AddJobOfFreshTile(g) ==  \* mutant of AddJob
    /\ Goto(g, "add_job", "next_tile")
    /\ pending' = IF taken[Tile(g)] = 0 THEN [pending EXCEPT ![Tile(g)] = @ + 1] ELSE pending
    /\ todo' = [todo EXCEPT ![g] = Tail(@)]
    /\ UNCHANGED <<options, runs, directory, taken, history>>

(* INSERT INTO jobs; processing is false by default.                       *)
AddJob(g) ==
    /\ Goto(g, "add_job", "next_tile")
    /\ pending' = [pending EXCEPT ![Tile(g)] = @ + 1]
    /\ todo' = [todo EXCEPT ![g] = Tail(@)]
    /\ UNCHANGED <<options, runs, directory, taken, history>>

(* A query, the writer or the machine fails.                               *)
Crash(g) ==
    /\ pc[g] \notin {"ended", "crashed"}
    /\ pc' = [pc EXCEPT ![g] = "crashed"]
    /\ attached' = attached \ {g}
    /\ UNCHANGED <<options, todo, runs, file, table, history>>

(* Somebody starts a run that failed once more, with its whole list.       *)
Restart(g) ==
    /\ runs[g] < MaxRuns
    /\ Goto(g, "crashed", "next_tile")
    /\ todo' = [todo EXCEPT ![g] = Lists[g]]
    /\ runs' = [runs EXCEPT ![g] = @ + 1]
    /\ UNCHANGED <<options, directory, table, history>>

Generate(g) ==
    \/ StartTile(g) \/ EndRun(g) \/ CancelJob(g) \/ RemoveFile(g) \/ OpenFile(g)
    \/ FileExists(g) \/ CloseFile(g) \/ AddJob(g)

(* The worker sets processing, reads the file and deletes the row.         *)
Take(t) ==
    /\ pending[t] > 0
    /\ pending' = [pending EXCEPT ![t] = @ - 1]
    /\ taken' = [taken EXCEPT ![t] = @ + 1]
    /\ fresh' = fresh \ {t}
    /\ spoiled' = IF file[t] = "complete" THEN spoiled \ {t} ELSE spoiled \union {t}
    /\ UNCHANGED <<options, run, directory>>

Done(t) ==
    /\ taken[t] > 0
    /\ taken' = [taken EXCEPT ![t] = @ - 1]
    /\ UNCHANGED <<options, run, directory, pending, history>>

Next ==
    \/ \E g \in Generators : Generate(g)
    \/ \E g \in Generators : Crash(g) \/ Restart(g)
    \/ \E t \in Tiles : Take(t) \/ Done(t)

(* Neither the crashes nor the restarts nor the worker are promised.       *)
Spec == Init /\ [][Next]_vars /\ \A g \in Generators : WF_vars(Generate(g))

-----------------------------------------------------------------------------
(* The generators that are given a tile; what the program leaves to those  *)
(* who start it is that there is only one, and that the tiles in use have  *)
(* different keys.                                                         *)
Sharers(t) == {g \in Generators : t \in Range(Lists[g])}
Exclusive(t) == \A g, h \in Sharers(t) : g = h

DistinctKeys == \A s, t \in Tiles : QuadtreeId[s] = QuadtreeId[t] => s = t

TypeOK ==
    /\ m_jobs_db \in BOOLEAN /\ m_force \in BOOLEAN
    /\ pc \in [Generators -> ProgramPoints]
    /\ todo \in [Generators -> Seq(Tiles)]
    /\ runs \in [Generators -> Nat]
    /\ file \in [Tiles -> FileStates]
    /\ attached \subseteq {g \in Generators : pc[g] = "writing"}
    /\ pending \in [Tiles -> Nat] /\ taken \in [Tiles -> Nat]
    /\ fresh \subseteq Tiles /\ spoiled \subseteq Tiles

(* A worker that takes a job finds the complete file of the tile, however  *)
(* the generators were interrupted: the job goes before the file and comes *)
(* after it. Only a second generator with the same tile can break this.    *)
PendingJobHasFile ==
    m_jobs_db => \A t \in Tiles : Exclusive(t) /\ pending[t] > 0 => file[t] = "complete"

(* A tile is queued at most once for every generator that has it in its    *)
(* list, however often they are interrupted, repeated and interleaved.     *)
JobsPerSharer ==
    m_jobs_db => \A t \in Tiles : pending[t] <= 1 \/ pending[t] <= Cardinality(Sharers(t))

(* A tile nobody has processed since it was written has its job, or a      *)
(* generator has still to come to it: between close and add_job, after the *)
(* next cancel_job and after a crash. Cancelled jobs are never forgotten.  *)
FreshTileHasJob ==
    m_jobs_db => \A t \in fresh : pending[t] > 0 \/ Listed(t)

(* The file of a tile is removed and overwritten without a look at the     *)
(* jobs in process. A worker disturbed by this gets another job, or a      *)
(* generator has still to come to the tile. Two generators that truncate   *)
(* the file under each other (-f) are left out.                            *)
SpoiledReadRepeated ==
    m_jobs_db =>
        \A t \in spoiled : ~m_force \/ Exclusive(t) => pending[t] > 0 \/ Listed(t)

(* Without -f no file is ever written by two generators at a time: one who *)
(* finds a file it could not remove stops.                                 *)
OneWriterWithoutForce ==
    ~m_force => \A t \in Tiles : file[t] # "mixed" /\ Cardinality(Writers(t)) <= 1

(* When all generators have come to the end of their lists, each tile has  *)
(* a complete file: none was left over from a crash, and none was removed  *)
(* by a generator that did not write it again.                             *)
EndedFilesComplete ==
    (\A g \in Generators : pc[g] = "ended") =>
        \A t \in Tiles :
            Sharers(t) # {} /\ (~m_force \/ Exclusive(t)) => file[t] = "complete"

(* cancel_job is documented to cancel the job of the tile it is called     *)
(* for; another tile loses its job only to the worker.                     *)
OnlyOwnJobCancelled ==
    [][\A g \in Generators : CancelJob(g) =>
        \A t \in Tiles \ {Tile(g)} : pending'[t] = pending[t]]_vars

(* A run that nothing stops comes to its end.                              *)
RunsEnd == \A g \in Generators : []<>(pc[g] \in {"ended", "crashed"})
=============================================================================

-------------------------- MODULE VectorTileProofs --------------------------
(***************************************************************************)
(* The jobs database stays consistent with the output directory for any    *)
(* number of generators, tiles, crashes and restarts.                      *)
(***************************************************************************)
EXTENDS VectorTile, FiniteSetTheorems, TLAPS

(* The rest of a list is made of the tiles of the list.                    *)
ListsSound ==
    \A g \in Generators :
        /\ todo[g] \in Seq(Range(Lists[g]))
        /\ pc[g] \notin {"next_tile", "ended", "crashed"} => todo[g] # <<>>

(* From cancel_job on a tile that no other generator has in its list has  *)
(* no pending job; its file is the generator's own, and complete when a    *)
(* job is added.                                                           *)
AtWork == {"remove", "write_file", "writing", "add_job"}

TileWithoutJob ==
    m_jobs_db =>
        \A g \in Generators : pc[g] \in AtWork /\ Exclusive(Tile(g)) =>
            /\ pending[Tile(g)] = 0
            /\ pc[g] = "writing" => g \in attached /\ file[Tile(g)] = "partial"
            /\ pc[g] = "add_job" => file[Tile(g)] = "complete"

JobsInv == TypeOK /\ ListsSound /\ TileWithoutJob /\ PendingJobHasFile

(* Every job that is queued, or will be by a generator between cancel_job  *)
(* and add_job, is that of another generator.                              *)
Queueing(t) == {g \in Generators : pc[g] \in AtWork /\ Tile(g) = t}

QueueBound ==
    m_jobs_db => \A t \in Tiles :
        \/ pending[t] + Cardinality(Queueing(t)) <= 1
        \/ pending[t] + Cardinality(Queueing(t)) <= Cardinality(Sharers(t))

(* Without -f an open file in the directory has one writer.                *)
WriterAlone ==
    ~m_force =>
        /\ \A t \in Tiles : file[t] # "mixed"
        /\ \A g \in attached : file[Tile(g)] = "partial"
        /\ \A g, h \in attached : Tile(g) = Tile(h) => g = h

(* A generator that will leave a complete file for tile t: it has still to *)
(* come to it, or is at it and the file it writes has its name.            *)
Attends(g, t) ==
    /\ t \in Range(todo[g])
    /\ Tile(g) = t /\ (pc[g] = "add_job" \/ (pc[g] = "writing" /\ g \notin attached))
        => t \in Range(Tail(todo[g]))

(* A tile that somebody has in a list and that lacks a complete file is    *)
(* attended. Generators that truncate a file under each other are left     *)
(* out, as in the properties this leads to.                                *)
FilesAttended ==
    \A t \in Tiles :
        Sharers(t) # {} /\ (~m_force \/ Exclusive(t)) /\ file[t] # "complete"
            => \E g \in Generators : Attends(g, t)

(* An open file that is nobody else's is not spoiled, with -f either.      *)
OwnFilesPartial == \A g \in attached : Exclusive(Tile(g)) => file[Tile(g)] = "partial"

EndedAtEndOfList == \A g \in Generators : pc[g] = "ended" => todo[g] = <<>>

FilesInv == FilesAttended /\ OwnFilesPartial /\ EndedAtEndOfList

(* Sequences: the elements of a sequence and of its tail.                  *)
LEMMA SequenceOfItsRange ==
    ASSUME NEW S, NEW s \in Seq(S)
    PROVE  s \in Seq(Range(s)) /\ Range(s) \subseteq S
BY DEF Range

(* The first element and the rest.                                         *)
LEMMA HeadAndTail ==
    ASSUME NEW S, NEW s \in Seq(S), s # <<>>
    PROVE  /\ Head(s) \in S /\ Head(s) \in Range(s)
           /\ Tail(s) \in Seq(S)
           /\ \A e \in Range(s) : e = Head(s) \/ e \in Range(Tail(s))
<1>1. Len(s) \in Nat \ {0} /\ DOMAIN s = 1..Len(s) /\ s = [i \in 1..Len(s) |-> s[i]]
    OBVIOUS
<1>2. Head(s) = s[1] /\ Len(Tail(s)) = Len(s) - 1 /\ DOMAIN Tail(s) = 1..(Len(s) - 1)
      /\ \A i \in 1..(Len(s) - 1) : Tail(s)[i] = s[i + 1]
    BY <1>1
<1>3. ASSUME NEW e \in Range(s), e # Head(s)
      PROVE  e \in Range(Tail(s))
    <2>1. PICK i \in 1..Len(s) : e = s[i]
        BY <1>1 DEF Range
    <2>2. i - 1 \in 1..(Len(s) - 1) /\ s[(i - 1) + 1] = e
        BY <1>1, <1>2, <1>3, <2>1
    <2>3. Tail(s)[i - 1] = e
        BY <1>2, <2>2
    <2> QED
        BY <1>2, <2>2, <2>3 DEF Range
<1> QED
    BY <1>1, <1>2, <1>3 DEF Range

(* The states of generators and jobs have their types in every behaviour.  *)
LEMMA TypesPreserved ==
    ASSUME TypeOK, ListsSound, [Next]_vars
    PROVE  TypeOK' /\ ListsSound'
<1> USE DEF TypeOK, ListsSound, FileStates
<1>1. \A g \in Generators : Lists[g] \in Seq(Range(Lists[g])) /\ Range(Lists[g]) \subseteq Tiles
    BY SequenceOfItsRange, ListsAssumption
<1>2. \A g \in Generators : todo[g] # <<>> =>
        /\ Tile(g) \in Range(Lists[g])
        /\ Tail(todo[g]) \in Seq(Range(Lists[g])) /\ Tail(todo[g]) \in Seq(Tiles)
    BY HeadAndTail DEF Tile
<1>3. ASSUME NEW g \in Generators, Generate(g)
      PROVE  TypeOK' /\ ListsSound'
    <2> USE DEF options, directory, table, history, Goto, ProgramPoints
    <2>0. pc[g] \notin {"next_tile", "ended", "crashed"} => Tile(g) \in Tiles
        BY <1>1, <1>2
    <2>9. ASSUME todo' = [todo EXCEPT ![g] = Tail(todo[g])], todo[g] # <<>>
          PROVE  /\ todo' \in [Generators -> Seq(Tiles)]
                 /\ \A h \in Generators : todo'[h] \in Seq(Range(Lists[h]))
                 /\ \A h \in Generators \ {g} : todo'[h] = todo[h]
        BY <1>2, <2>9
    <2>1. CASE StartTile(g)
        BY <2>1 DEF StartTile
    <2>2. CASE EndRun(g)
        BY <2>2 DEF EndRun
    <2>3. CASE CancelJob(g)
        BY <2>3 DEF CancelJob
    <2>4. CASE RemoveFile(g)
        <3>1. pc[g] = "remove" /\ pc' = [pc EXCEPT ![g] = "write_file"]
              /\ UNCHANGED <<m_jobs_db, m_force, todo, runs, pending, taken>>
            BY <2>4 DEF RemoveFile
        <3>2. Tile(g) \in Tiles
            BY <2>0, <3>1
        <3>3. file' \in [Tiles -> FileStates] /\ attached' \subseteq attached
              /\ fresh' \subseteq Tiles /\ spoiled' \subseteq Tiles
            BY <2>4, <3>2 DEF RemoveFile, Disturb
        <3> QED
            BY <3>1, <3>3
    <2>5. CASE OpenFile(g)
        <3>1. pc[g] = "write_file" /\ pc' = [pc EXCEPT ![g] = "writing"]
              /\ attached' = attached \union {g}
              /\ UNCHANGED <<m_jobs_db, m_force, todo, runs, pending, taken>>
            BY <2>5 DEF OpenFile, Truncate
        <3>2. Tile(g) \in Tiles
            BY <2>0, <3>1
        <3>3. file' \in [Tiles -> FileStates] /\ fresh' \subseteq Tiles /\ spoiled' \subseteq Tiles
            BY <2>5, <3>2 DEF OpenFile, Truncate, Disturb
        <3> QED
            BY <3>1, <3>3
    <2>6. CASE FileExists(g)
        BY <2>6 DEF FileExists
    <2>7. CASE CloseFile(g)
        <3>1. pc[g] = "writing" /\ attached' = attached \ {g}
              /\ UNCHANGED <<m_jobs_db, m_force, runs, pending, taken, spoiled>>
            BY <2>7 DEF CloseFile
        <3>2. Tile(g) \in Tiles
            BY <2>0, <3>1
        <3>3. file' \in [Tiles -> FileStates]
            BY <2>7, <3>2 DEF CloseFile
        <3>4. CASE m_jobs_db
            <4>1. UNCHANGED todo /\ pc' = [pc EXCEPT ![g] = "add_job"]
                BY <2>7, <3>4 DEF CloseFile
            <4>2. fresh' \subseteq Tiles
                BY <2>7, <3>2, <3>4 DEF CloseFile
            <4> QED
                BY <3>1, <3>3, <4>1, <4>2
        <3>5. CASE ~m_jobs_db
            <4>1. pc' = [pc EXCEPT ![g] = "next_tile"] /\ UNCHANGED fresh
                  /\ todo' = [todo EXCEPT ![g] = Tail(todo[g])]
                BY <2>7, <3>5 DEF CloseFile
            <4>2. todo[g] # <<>>
                BY <3>1
            <4> QED
                BY <2>9, <3>1, <3>3, <4>1, <4>2
        <3> QED
            BY <3>4, <3>5
    <2>8. CASE AddJob(g)
        <3>1. pc[g] = "add_job" /\ pc' = [pc EXCEPT ![g] = "next_tile"]
              /\ todo' = [todo EXCEPT ![g] = Tail(todo[g])]
              /\ pending' = [pending EXCEPT ![Tile(g)] = pending[Tile(g)] + 1]
              /\ UNCHANGED <<m_jobs_db, m_force, runs, file, attached, taken, fresh, spoiled>>
            BY <2>8 DEF AddJob
        <3>2. todo[g] # <<>> /\ Tile(g) \in Tiles
            BY <2>0, <3>1
        <3>3. pending' \in [Tiles -> Nat]
            BY <3>1, <3>2
        <3> QED
            BY <2>9, <3>1, <3>2, <3>3
    <2> QED
        BY <1>3, <2>1, <2>2, <2>3, <2>4, <2>5, <2>6, <2>7, <2>8 DEF Generate
<1>4. ASSUME NEW g \in Generators, Crash(g) \/ Restart(g)
      PROVE  TypeOK' /\ ListsSound'
    <2> USE DEF options, directory, table, history, Goto, ProgramPoints
    <2>1. CASE Crash(g)
        BY <2>1 DEF Crash
    <2>2. CASE Restart(g)
        <3>1. todo' = [todo EXCEPT ![g] = Lists[g]] /\ pc' = [pc EXCEPT ![g] = "next_tile"]
              /\ pc[g] = "crashed"
            BY <2>2 DEF Restart
        <3>2. todo' \in [Generators -> Seq(Tiles)]
            BY <3>1, ListsAssumption
        <3>3. \A h \in Generators : todo'[h] \in Seq(Range(Lists[h]))
            BY <1>1, <3>1
        <3>4. runs' \in [Generators -> Nat] /\ pc' \in [Generators -> ProgramPoints]
            BY <2>2, <3>1 DEF Restart
        <3>5. \A h \in Generators : pc'[h] \notin {"next_tile", "ended", "crashed"} => todo'[h] # <<>>
            BY <3>1
        <3>6. UNCHANGED <<m_jobs_db, m_force, file, attached, pending, taken, fresh, spoiled>>
            BY <2>2 DEF Restart
        <3>7. TypeOK'
            BY <3>1, <3>2, <3>4, <3>6
        <3> QED
            BY <3>3, <3>5, <3>7
    <2> QED
        BY <1>4, <2>1, <2>2
<1>5. ASSUME NEW t \in Tiles, Take(t) \/ Done(t)
      PROVE  TypeOK' /\ ListsSound'
    <2> USE DEF options, run, directory, history
    <2>1. CASE Take(t)
        BY <2>1 DEF Take
    <2>2. CASE Done(t)
        BY <2>2 DEF Done
    <2> QED
        BY <1>5, <2>1, <2>2
<1>6. CASE UNCHANGED vars
    BY <1>6 DEF vars, options, run, directory, table, history
<1> QED
    BY <1>3, <1>4, <1>5, <1>6 DEF Next

(* Hence they have them always.                                            *)
LEMMA TypesHold == Spec => [](TypeOK /\ ListsSound)
<1>1. Init => TypeOK /\ ListsSound
    <2> SUFFICES ASSUME Init PROVE TypeOK /\ ListsSound
        OBVIOUS
    <2>1. \A g \in Generators : todo[g] \in Seq(Range(Lists[g])) /\ todo[g] \in Seq(Tiles)
        BY SequenceOfItsRange, ListsAssumption DEF Init
    <2>2. TypeOK
        <3>1. file \in [Tiles -> FileStates] /\ attached = {}
            BY DEF Init, FileStates
        <3>2. pending \in [Tiles -> Nat]
            BY DEF Init
        <3>3. todo \in [Generators -> Seq(Tiles)]
            BY ListsAssumption DEF Init
        <3>4. pc \in [Generators -> ProgramPoints] /\ runs \in [Generators -> Nat]
            BY DEF Init, ProgramPoints
        <3>5. taken \in [Tiles -> Nat] /\ fresh \subseteq Tiles /\ spoiled \subseteq Tiles
            BY DEF Init
        <3> QED
            BY <3>1, <3>2, <3>3, <3>4, <3>5 DEF Init, TypeOK
    <2> QED
        BY <2>1, <2>2 DEF Init, ListsSound
<1>2. TypeOK /\ ListsSound /\ [Next]_vars => TypeOK' /\ ListsSound'
    BY TypesPreserved
<1> QED
    BY <1>1, <1>2, PTL DEF Spec

(* Every step of a generator keeps jobs and files consistent, for the      *)
(* tiles no other generator works on.                                      *)
LEMMA GeneratorKeepsJobs ==
    ASSUME JobsInv, NEW g \in Generators, Generate(g)
    PROVE  TileWithoutJob' /\ PendingJobHasFile'
<1> USE DEF TileWithoutJob, PendingJobHasFile, options, directory, table, history, Goto
<1>1. /\ pc \in [Generators -> ProgramPoints] /\ file \in [Tiles -> FileStates]
      /\ pending \in [Tiles -> Nat] /\ todo \in [Generators -> Seq(Tiles)]
      /\ attached \subseteq {h \in Generators : pc[h] = "writing"}
    BY DEF JobsInv, TypeOK
<1>2. \A h \in Generators : todo[h] # <<>> => Tile(h) \in Tiles /\ Tile(h) \in Range(Lists[h])
    BY HeadAndTail, SequenceOfItsRange, ListsAssumption DEF JobsInv, TypeOK, ListsSound, Tile
<1>3. \A h \in Generators :
        pc[h] \notin {"next_tile", "ended", "crashed"} => Tile(h) \in Tiles /\ h \in Sharers(Tile(h))
    BY <1>2 DEF JobsInv, ListsSound, Sharers
<1>4. ASSUME NEW h \in Generators, Exclusive(Tile(g)) \/ Exclusive(Tile(h)), h # g,
             pc[g] \notin {"next_tile", "ended", "crashed"},
             pc[h] \notin {"next_tile", "ended", "crashed"}
      PROVE  Tile(h) # Tile(g)
    BY <1>3, <1>4 DEF Exclusive
<1>5. TileWithoutJob /\ PendingJobHasFile
    BY DEF JobsInv
<1>6. \A t \in Tiles : Exclusive(t)' = Exclusive(t)
    BY DEF Exclusive, Sharers
<1>7. CASE ~m_jobs_db
    <2>1. UNCHANGED m_jobs_db
        BY DEF Generate, StartTile, EndRun, CancelJob, RemoveFile, OpenFile, FileExists, CloseFile, AddJob
    <2> QED
        BY <1>7, <2>1
<1>8. CASE m_jobs_db
    <2> USE <1>8 DEF AtWork
    <2>0. UNCHANGED todo => \A h \in Generators : Tile(h)' = Tile(h)
        BY DEF Tile
    <2>9. ASSUME pc[g] \in {"remove", "write_file", "writing"},
                 NEW p \in {"write_file", "writing", "add_job"}, pc' = [pc EXCEPT ![g] = p],
                 UNCHANGED <<m_jobs_db, todo, pending>>,
                 \A t \in Tiles \ {Tile(g)} : file'[t] = file[t],
                 \A h \in attached : Tile(h) # Tile(g) => h \in attached',
                 Exclusive(Tile(g)) =>
                    /\ p = "writing" => g \in attached' /\ file'[Tile(g)] = "partial"
                    /\ p = "add_job" => file'[Tile(g)] = "complete"
          PROVE  TileWithoutJob' /\ PendingJobHasFile'
        <3>1. Exclusive(Tile(g)) => pending[Tile(g)] = 0
            BY <1>5, <2>9
        <3>2. PendingJobHasFile'
            BY <1>1, <1>5, <1>6, <2>9, <3>1
        <3>3. ASSUME NEW h \in Generators, pc'[h] \in AtWork, Exclusive(Tile(h))
              PROVE  /\ pending[Tile(h)] = 0
                     /\ pc'[h] = "writing" => h \in attached' /\ file'[Tile(h)] = "partial"
                     /\ pc'[h] = "add_job" => file'[Tile(h)] = "complete"
            <4>1. CASE h = g
                BY <1>1, <2>9, <3>1, <3>3, <4>1
            <4>2. CASE h # g
                <5>1. pc'[h] = pc[h] /\ Tile(h) # Tile(g) /\ Tile(h) \in Tiles
                    BY <1>1, <1>3, <1>4, <2>9, <3>3, <4>2
                <5> QED
                    BY <1>5, <2>9, <3>3, <5>1
            <4> QED
                BY <4>1, <4>2
        <3>4. TileWithoutJob'
            <4>1. \A h \in Generators : Tile(h)' = Tile(h) /\ Exclusive(Tile(h))' = Exclusive(Tile(h))
                BY <2>0, <2>9 DEF Exclusive, Sharers
            <4> QED
                BY <2>9, <3>3, <4>1
        <3> QED
            BY <3>2, <3>4
    <2>10. ASSUME UNCHANGED <<m_jobs_db, todo, file, pending, attached>>,
                  NEW p \in {"next_tile", "cancel_job", "ended", "crashed"},
                  pc' = [pc EXCEPT ![g] = p]
           PROVE  TileWithoutJob' /\ PendingJobHasFile'
        <3>1. \A h \in Generators : Tile(h)' = Tile(h) /\ Exclusive(Tile(h))' = Exclusive(Tile(h))
            BY <2>0, <2>10 DEF Exclusive, Sharers
        <3> QED
            BY <1>1, <1>5, <1>6, <2>10, <3>1
    <2>1. CASE StartTile(g)
        BY <2>1, <2>10 DEF StartTile
    <2>2. CASE EndRun(g)
        BY <2>2, <2>10 DEF EndRun
    <2>3. CASE CancelJob(g)
        <3>1. pc[g] = "cancel_job" /\ pc' = [pc EXCEPT ![g] = "remove"]
              /\ UNCHANGED <<m_jobs_db, todo, file, attached>>
            BY <2>3 DEF CancelJob
        <3>2. \A t \in Tiles : pending'[t] = 0 \/ pending'[t] = pending[t]
            BY <2>3 DEF CancelJob
        <3>3. pending'[Tile(g)] = 0
            BY <1>3, <2>3, <3>1 DEF CancelJob
        <3>4. PendingJobHasFile'
            BY <1>5, <1>6, <3>1, <3>2
        <3>5. TileWithoutJob'
            <4>1. \A h \in Generators : Tile(h)' = Tile(h) /\ Exclusive(Tile(h))' = Exclusive(Tile(h))
                BY <2>0, <3>1 DEF Exclusive, Sharers
            <4>2. ASSUME NEW h \in Generators, pc'[h] \in AtWork, Exclusive(Tile(h))
                  PROVE  /\ pending'[Tile(h)] = 0
                         /\ pc'[h] = "writing" => h \in attached /\ file[Tile(h)] = "partial"
                         /\ pc'[h] = "add_job" => file[Tile(h)] = "complete"
                <5>1. CASE h = g
                    BY <1>1, <3>1, <3>3, <5>1
                <5>2. CASE h # g
                    <6>1. pc'[h] = pc[h] /\ Tile(h) \in Tiles
                        BY <1>1, <1>3, <3>1, <4>2, <5>2
                    <6> QED
                        BY <1>5, <3>2, <4>2, <6>1
                <5> QED
                    BY <5>1, <5>2
            <4> QED
                BY <3>1, <4>1, <4>2
        <3> QED
            BY <3>4, <3>5
    <2>4. CASE RemoveFile(g)
        <3>1. pc[g] = "remove" /\ pc' = [pc EXCEPT ![g] = "write_file"]
              /\ UNCHANGED <<m_jobs_db, todo, pending>>
            BY <2>4 DEF RemoveFile
        <3>2. \A t \in Tiles \ {Tile(g)} : file'[t] = file[t]
            BY <1>1, <2>4 DEF RemoveFile
        <3>3. \A h \in attached : Tile(h) # Tile(g) => h \in attached'
            BY <2>4 DEF RemoveFile, Writers
        <3> QED
            BY <2>9, <3>1, <3>2, <3>3
    <2>5. CASE OpenFile(g)
        <3>1. pc[g] = "write_file" /\ pc' = [pc EXCEPT ![g] = "writing"]
              /\ UNCHANGED <<m_jobs_db, todo, pending>> /\ attached' = attached \union {g}
            BY <2>5 DEF OpenFile, Truncate
        <3>2. \A t \in Tiles \ {Tile(g)} : file'[t] = file[t]
            BY <1>1, <2>5 DEF OpenFile, Truncate
        <3>3. Exclusive(Tile(g)) => file'[Tile(g)] = "partial"
            <4>1. Exclusive(Tile(g)) => Writers(Tile(g)) = {}
                BY <1>1, <1>4, <3>1 DEF Writers
            <4> QED
                BY <1>1, <1>3, <2>5, <3>1, <4>1 DEF OpenFile, Truncate
        <3> QED
            BY <2>9, <3>1, <3>2, <3>3
    <2>6. CASE FileExists(g)
        BY <2>6, <2>10 DEF FileExists
    <2>7. CASE CloseFile(g)
        <3>1. pc[g] = "writing" /\ pc' = [pc EXCEPT ![g] = "add_job"]
              /\ UNCHANGED <<m_jobs_db, todo, pending>> /\ attached' = attached \ {g}
            BY <2>7 DEF CloseFile
        <3>2. \A t \in Tiles \ {Tile(g)} : file'[t] = file[t]
            BY <1>1, <2>7 DEF CloseFile
        <3>3. Exclusive(Tile(g)) => file'[Tile(g)] = "complete"
            <4>1. Exclusive(Tile(g)) => g \in attached /\ file[Tile(g)] = "partial"
                BY <1>5, <3>1
            <4> QED
                BY <1>1, <1>3, <2>7, <3>1, <4>1 DEF CloseFile
        <3> QED
            BY <2>9, <3>1, <3>2, <3>3
    <2>8. CASE AddJob(g)
        <3>1. pc[g] = "add_job" /\ pc' = [pc EXCEPT ![g] = "next_tile"]
              /\ pending' = [pending EXCEPT ![Tile(g)] = pending[Tile(g)] + 1]
              /\ UNCHANGED <<m_jobs_db, file, attached>>
            BY <2>8 DEF AddJob
        <3>2. \A h \in Generators \ {g} : Tile(h)' = Tile(h)
            BY <1>1, <2>8 DEF AddJob, Tile
        <3>3. (Exclusive(Tile(g)) => file[Tile(g)] = "complete") /\ Tile(g) \in Tiles
            BY <1>3, <1>5, <3>1
        <3>4. PendingJobHasFile'
            BY <1>1, <1>5, <1>6, <3>1, <3>3
        <3>5. ASSUME NEW h \in Generators, pc'[h] \in AtWork, Exclusive(Tile(h)')
              PROVE  /\ pending'[Tile(h)'] = 0
                     /\ pc'[h] = "writing" => h \in attached /\ file[Tile(h)'] = "partial"
                     /\ pc'[h] = "add_job" => file[Tile(h)'] = "complete"
            <4>1. h # g /\ pc'[h] = pc[h]
                BY <1>1, <3>1, <3>5
            <4>2. Tile(h)' = Tile(h)
                BY <3>2, <4>1
            <4>3. Tile(h) # Tile(g) /\ Tile(h) \in Tiles
                BY <1>3, <1>4, <3>1, <3>5, <4>1, <4>2
            <4>4. pending'[Tile(h)] = pending[Tile(h)]
                BY <1>1, <3>1, <4>3
            <4> QED
                BY <1>5, <3>5, <4>1, <4>2, <4>4
        <3>6. TileWithoutJob'
            <4>1. \A h \in Generators : Exclusive(Tile(h))' = Exclusive(Tile(h)')
                BY DEF Exclusive, Sharers
            <4> QED
                BY <3>1, <3>5, <4>1
        <3> QED
            BY <3>4, <3>6
    <2> QED
        BY <2>1, <2>2, <2>3, <2>4, <2>5, <2>6, <2>7, <2>8 DEF Generate
<1> QED
    BY <1>7, <1>8

(* So does every other step.                                               *)
LEMMA OthersKeepJobs ==
    ASSUME JobsInv,
           \/ \E g \in Generators : Crash(g) \/ Restart(g)
           \/ \E t \in Tiles : Take(t) \/ Done(t)
           \/ UNCHANGED vars
    PROVE  TileWithoutJob' /\ PendingJobHasFile'
<1> USE DEF TileWithoutJob, PendingJobHasFile, AtWork, options, run, directory, table, history, Goto
<1>1. /\ pc \in [Generators -> ProgramPoints] /\ pending \in [Tiles -> Nat]
      /\ todo \in [Generators -> Seq(Tiles)]
      /\ TileWithoutJob /\ PendingJobHasFile
    BY DEF JobsInv, TypeOK
<1>2. UNCHANGED todo => \A h \in Generators : Tile(h)' = Tile(h)
    BY DEF Tile
<1>3. \A t : Exclusive(t)' = Exclusive(t)
    BY DEF Exclusive, Sharers
<1>4. \A h \in Generators : Exclusive(Tile(h))' = Exclusive(Tile(h)')
    BY DEF Exclusive, Sharers
<1>5. ASSUME NEW g \in Generators, Crash(g)
      PROVE  TileWithoutJob' /\ PendingJobHasFile'
    BY <1>1, <1>2, <1>3, <1>4, <1>5 DEF Crash
<1>6. ASSUME NEW g \in Generators, Restart(g)
      PROVE  TileWithoutJob' /\ PendingJobHasFile'
    <2>1. \A h \in Generators \ {g} : Tile(h)' = Tile(h)
        BY <1>1, <1>6 DEF Restart, Tile
    <2> QED
        BY <1>1, <1>3, <1>4, <1>6, <2>1 DEF Restart
<1>7. ASSUME NEW t \in Tiles, Take(t)
      PROVE  TileWithoutJob' /\ PendingJobHasFile'
    <2>1. pending' = [pending EXCEPT ![t] = pending[t] - 1] /\ pending[t] > 0
          /\ UNCHANGED <<m_jobs_db, pc, todo, file, attached>>
        BY <1>7 DEF Take
    <2>2. \A s : s # t => pending'[s] = pending[s]
        BY <1>1, <2>1
    <2>3. PendingJobHasFile'
        BY <1>1, <1>3, <2>1, <2>2
    <2>4. TileWithoutJob'
        <3> SUFFICES ASSUME m_jobs_db, NEW g \in Generators, pc[g] \in AtWork, Exclusive(Tile(g))
                     PROVE  /\ pending'[Tile(g)] = 0
                            /\ pc[g] = "writing" => g \in attached /\ file[Tile(g)] = "partial"
                            /\ pc[g] = "add_job" => file[Tile(g)] = "complete"
            BY <1>2, <1>4, <2>1
        <3>1. pending[Tile(g)] = 0
            BY <1>1
        <3>2. Tile(g) # t
            BY <2>1, <3>1
        <3> QED
            BY <1>1, <2>2, <3>1, <3>2
    <2> QED
        BY <2>3, <2>4
<1>8. ASSUME NEW t \in Tiles, Done(t)
      PROVE  TileWithoutJob' /\ PendingJobHasFile'
    BY <1>1, <1>2, <1>3, <1>4, <1>8 DEF Done
<1>9. CASE UNCHANGED vars
    BY <1>1, <1>2, <1>3, <1>4, <1>9 DEF vars
<1> QED
    BY <1>5, <1>6, <1>7, <1>8, <1>9

(* A tile leaves the lists only when its job has been added, and its jobs  *)
(* are cancelled only by those who have it in their list; only a worker    *)
(* takes the last job of a tile nobody will come to.                       *)
LEMMA QueuedOrListed ==
    ASSUME DistinctKeys, TypeOK, ListsSound, [Next]_vars, m_jobs_db,
           NEW t \in Tiles, pending[t] > 0 \/ Listed(t), ~Take(t)
    PROVE  pending'[t] > 0 \/ Listed(t)'
<1> USE DEF options, run, directory, table, history, Goto
<1>1. /\ todo \in [Generators -> Seq(Tiles)] /\ pending \in [Tiles -> Nat]
      /\ pc \in [Generators -> ProgramPoints]
    BY DEF TypeOK
<1>2. UNCHANGED todo => (Listed(t) => Listed(t)')
    BY DEF Listed
<1>3. ASSUME NEW g \in Generators, pc[g] \notin {"next_tile", "ended", "crashed"}
      PROVE  /\ todo[g] # <<>> /\ Tile(g) \in Tiles /\ Tile(g) \in Range(todo[g])
             /\ \A e \in Range(todo[g]) : e = Tile(g) \/ e \in Range(Tail(todo[g]))
    BY <1>1, <1>3, HeadAndTail DEF ListsSound, Tile
<1>4. ASSUME NEW g \in Generators, Generate(g)
      PROVE  pending'[t] > 0 \/ Listed(t)'
    <2>1. CASE StartTile(g) \/ EndRun(g) \/ RemoveFile(g) \/ OpenFile(g) \/ FileExists(g)
        <3>1. UNCHANGED <<todo, pending>>
            BY <2>1 DEF StartTile, EndRun, RemoveFile, OpenFile, FileExists
        <3> QED
            BY <1>2, <3>1
    <2>2. CASE CancelJob(g)
        <3>1. UNCHANGED todo /\ pc[g] = "cancel_job"
            BY <2>2 DEF CancelJob
        <3>2. CASE t = Tile(g)
            BY <1>2, <1>3, <3>1, <3>2 DEF Listed
        <3>3. CASE t # Tile(g)
            <4>1. QuadtreeId[t] # QuadtreeId[Tile(g)]
                BY <1>3, <3>1, <3>3 DEF DistinctKeys
            <4>2. pending'[t] = pending[t]
                BY <2>2, <4>1 DEF CancelJob
            <4> QED
                BY <1>2, <3>1, <4>2
        <3> QED
            BY <3>2, <3>3
    <2>3. CASE CloseFile(g)
        BY <1>2, <2>3 DEF CloseFile
    <2>4. CASE AddJob(g)
        <3>1. /\ pc[g] = "add_job"
              /\ todo' = [todo EXCEPT ![g] = Tail(todo[g])]
              /\ pending' = [pending EXCEPT ![Tile(g)] = pending[Tile(g)] + 1]
            BY <2>4 DEF AddJob
        <3>2. CASE t = Tile(g)
            BY <1>1, <1>3, <3>1, <3>2
        <3>3. CASE t # Tile(g) /\ pending[t] > 0
            BY <1>1, <3>1, <3>3
        <3>4. CASE t # Tile(g) /\ Listed(t)
            <4>1. PICK h \in Generators : t \in Range(todo[h])
                BY <3>4 DEF Listed
            <4>2. t \in Range(todo'[h])
                BY <1>1, <1>3, <3>1, <3>4, <4>1
            <4> QED
                BY <4>2 DEF Listed
        <3> QED
            BY <3>2, <3>3, <3>4
    <2> QED
        BY <1>4, <2>1, <2>2, <2>3, <2>4 DEF Generate
<1>5. ASSUME NEW g \in Generators, Crash(g)
      PROVE  pending'[t] > 0 \/ Listed(t)'
    BY <1>2, <1>5 DEF Crash
<1>6. ASSUME NEW g \in Generators, Restart(g)
      PROVE  pending'[t] > 0 \/ Listed(t)'
    <2>1. UNCHANGED pending /\ todo' = [todo EXCEPT ![g] = Lists[g]]
        BY <1>6 DEF Restart
    <2>2. ASSUME NEW h \in Generators, t \in Range(todo[h])
          PROVE  t \in Range(todo'[h])
        <3>1. Range(todo[g]) \subseteq Range(Lists[g])
            BY SequenceOfItsRange DEF ListsSound
        <3> QED
            BY <1>1, <2>1, <2>2, <3>1
    <2> QED
        BY <2>1, <2>2 DEF Listed
<1>7. ASSUME NEW s \in Tiles, Take(s) \/ Done(s)
      PROVE  pending'[t] > 0 \/ Listed(t)'
    <2>1. UNCHANGED todo /\ pending'[t] = pending[t]
        BY <1>1, <1>7 DEF Take, Done
    <2> QED
        BY <1>2, <2>1
<1>8. CASE UNCHANGED vars
    BY <1>2, <1>8 DEF vars
<1> QED
    BY <1>4, <1>5, <1>6, <1>7, <1>8 DEF Next

(* The options of a run are never changed.                                 *)
LEMMA OptionsKept == [Next]_vars => UNCHANGED <<m_jobs_db, m_force>>
BY DEF Next, Generate, StartTile, EndRun, CancelJob, RemoveFile, OpenFile, FileExists, CloseFile,
       AddJob, Crash, Restart, Take, Done, vars, options

(* A tile becomes fresh only in the hands of a generator.                  *)
LEMMA FreshTilesKept ==
    ASSUME DistinctKeys, TypeOK, ListsSound, FreshTileHasJob, [Next]_vars
    PROVE  FreshTileHasJob'
<1> SUFFICES ASSUME m_jobs_db, NEW t \in fresh'
             PROVE  pending'[t] > 0 \/ Listed(t)'
    BY OptionsKept DEF FreshTileHasJob
<1> USE DEF options, run, directory, table, history, Goto
<1>1. fresh \subseteq Tiles /\ todo \in [Generators -> Seq(Tiles)]
    BY DEF TypeOK
<1>2. CASE t \in fresh /\ ~Take(t)
    BY <1>1, <1>2, QueuedOrListed DEF FreshTileHasJob
<1>3. CASE Take(t)
    BY <1>3 DEF Take
<1>4. CASE t \notin fresh
    <2>1. PICK g \in Generators : CloseFile(g) /\ t = Tile(g)
        BY <1>4 DEF Next, Generate, StartTile, EndRun, CancelJob, RemoveFile, OpenFile, Truncate,
                    FileExists, CloseFile, AddJob, Crash, Restart, Take, Done, vars
    <2>2. pc[g] = "writing" /\ UNCHANGED todo
        BY <2>1 DEF CloseFile
    <2>3. t \in Range(todo[g])
        BY <1>1, <2>1, <2>2, HeadAndTail DEF ListsSound, Tile
    <2> QED
        BY <2>2, <2>3 DEF Listed
<1> QED
    BY <1>2, <1>3, <1>4

(* The states have their types, for any constants.                         *)
THEOREM TypeCorrect == Spec => []TypeOK
BY TypesHold, PTL

(* A worker that takes a job finds the complete file of its tile: for any  *)
(* number of generators, of every tile that is in one list only.           *)
THEOREM JobsMatchFiles == Spec => []PendingJobHasFile
<1>1. Init => TileWithoutJob /\ PendingJobHasFile
    BY DEF Init, TileWithoutJob, PendingJobHasFile, AtWork
<1>2. TypeOK /\ ListsSound /\ TileWithoutJob /\ PendingJobHasFile /\ [Next]_vars
        => TileWithoutJob' /\ PendingJobHasFile'
    BY GeneratorKeepsJobs, OthersKeepJobs DEF JobsInv, Next
<1> QED
    BY <1>1, <1>2, TypesHold, PTL DEF Spec

(* No tile that was written and not processed since is forgotten: it has   *)
(* its job, or a generator will still come to it. Without distinct keys a  *)
(* generator can delete the job of another tile.                           *)
THEOREM NoTileForgotten ==
    ASSUME DistinctKeys
    PROVE  Spec => []FreshTileHasJob
<1>1. Init => FreshTileHasJob
    BY DEF Init, FreshTileHasJob
<1>2. TypeOK /\ ListsSound /\ FreshTileHasJob /\ [Next]_vars => FreshTileHasJob'
    BY FreshTilesKept
<1> QED
    BY <1>1, <1>2, TypesHold, PTL DEF Spec

(* Cardinalities of the generators that have a tile, or work on it.        *)
LEMMA GeneratorsFinite ==
    ASSUME NEW S \in SUBSET Generators, NEW T \in SUBSET S
    PROVE  /\ IsFiniteSet(S) /\ Cardinality(S) \in Nat /\ Cardinality(T) \in Nat
           /\ Cardinality(T) <= Cardinality(S)
           /\ \A g \in S : Cardinality(S \ {g}) = Cardinality(S) - 1
BY ListsAssumption, FS_Subset, FS_CardinalityType, FS_RemoveElement

(* Every step keeps the bound of the jobs of a tile: cancel_job removes    *)
(* those that are queued when it enters, add_job leaves when it adds one.  *)
LEMMA QueueBoundKept ==
    ASSUME TypeOK, ListsSound, QueueBound, [Next]_vars
    PROVE  QueueBound'
<1> SUFFICES ASSUME m_jobs_db', NEW t \in Tiles
             PROVE  \/ pending'[t] + Cardinality(Queueing(t)') <= 1
                    \/ pending'[t] + Cardinality(Queueing(t)') <= Cardinality(Sharers(t))
    BY DEF QueueBound, Sharers
<1> DEFINE Bounded(p, n) == p + n <= 1 \/ p + n <= Cardinality(Sharers(t))
<1> USE DEF options, run, directory, table, history, Goto
<1>1. /\ todo \in [Generators -> Seq(Tiles)] /\ pending \in [Tiles -> Nat]
      /\ pc \in [Generators -> ProgramPoints]
    BY DEF TypeOK
<1>2. \A h \in Generators : pc[h] \notin {"next_tile", "ended", "crashed"} =>
        Tile(h) \in Tiles /\ h \in Sharers(Tile(h))
    <2>1. \A h \in Generators : todo[h] # <<>> => Tile(h) \in Range(Lists[h]) /\ Tile(h) \in Tiles
        BY <1>1, HeadAndTail, SequenceOfItsRange, ListsAssumption DEF ListsSound, Tile
    <2> QED
        BY <2>1 DEF ListsSound, Sharers
<1>3. m_jobs_db
    <2>1. UNCHANGED m_jobs_db
        BY DEF Next, Generate, StartTile, EndRun, CancelJob, RemoveFile, OpenFile, FileExists,
               CloseFile, AddJob, Crash, Restart, Take, Done, vars
    <2> QED
        BY <2>1
<1>4. Bounded(pending[t], Cardinality(Queueing(t))) /\ pending[t] \in Nat
    BY <1>1, <1>3 DEF QueueBound
<1>5. Queueing(t) \in SUBSET Generators /\ Sharers(t) \in SUBSET Generators
    BY DEF Queueing, Sharers
<1>6. ASSUME Queueing(t)' \subseteq Queueing(t), pending'[t] \in Nat, pending'[t] <= pending[t]
      PROVE  Bounded(pending'[t], Cardinality(Queueing(t)'))
    <2>1. /\ Cardinality(Queueing(t)') \in Nat /\ Cardinality(Queueing(t)) \in Nat
          /\ Cardinality(Queueing(t)') <= Cardinality(Queueing(t))
          /\ Cardinality(Sharers(t)) \in Nat
        BY <1>5, <1>6, GeneratorsFinite
    <2> QED
        BY <1>4, <1>6, <2>1
<1>7. ASSUME NEW g \in Generators, NEW p, pc' = [pc EXCEPT ![g] = p],
             p \in AtWork => pc[g] \in AtWork /\ UNCHANGED todo,
             \A h \in Generators \ {g} : todo'[h] = todo[h]
      PROVE  Queueing(t)' \subseteq Queueing(t)
    <2> SUFFICES ASSUME NEW h \in Generators, pc'[h] \in AtWork
                 PROVE  pc[h] \in AtWork /\ Tile(h)' = Tile(h)
        BY DEF Queueing
    <2> QED
        BY <1>1, <1>7 DEF Tile
<1> USE DEF AtWork
<1>8. ASSUME NEW g \in Generators, Generate(g)
      PROVE  Bounded(pending'[t], Cardinality(Queueing(t)'))
    <2>1. CASE StartTile(g) \/ EndRun(g) \/ RemoveFile(g) \/ OpenFile(g) \/ FileExists(g) \/ CloseFile(g)
        <3>1. UNCHANGED <<todo, pending>>
            BY <1>3, <2>1 DEF StartTile, EndRun, RemoveFile, OpenFile, FileExists, CloseFile
        <3>2. PICK p \in ProgramPoints :
                /\ pc' = [pc EXCEPT ![g] = p]
                /\ p \in AtWork => pc[g] \in AtWork
            BY <1>3, <2>1 DEF StartTile, EndRun, RemoveFile, OpenFile, FileExists, CloseFile, ProgramPoints
        <3>3. Queueing(t)' \subseteq Queueing(t)
            BY <1>7, <3>1, <3>2
        <3> QED
            BY <1>4, <1>6, <3>1, <3>3
    <2>2. CASE CancelJob(g)
        <3>1. pc[g] = "cancel_job" /\ pc' = [pc EXCEPT ![g] = "remove"] /\ todo' = todo
            BY <2>2 DEF CancelJob
        <3>2. CASE t = Tile(g)
            <4>1. pending'[t] = 0
                BY <2>2, <3>2 DEF CancelJob
            <4>2. Queueing(t)' \subseteq Sharers(t)
                BY <1>1, <1>2, <3>1 DEF Queueing, Tile
            <4>3. /\ Cardinality(Queueing(t)') \in Nat /\ Cardinality(Sharers(t)) \in Nat
                  /\ Cardinality(Queueing(t)') <= Cardinality(Sharers(t))
                BY <1>5, <4>2, GeneratorsFinite
            <4> QED
                BY <4>1, <4>3
        <3>3. CASE t # Tile(g)
            <4>1. Queueing(t)' \subseteq Queueing(t)
                BY <1>1, <3>1, <3>3 DEF Queueing, Tile
            <4>2. pending'[t] = 0 \/ pending'[t] = pending[t]
                BY <2>2 DEF CancelJob
            <4> QED
                BY <1>4, <1>6, <4>1, <4>2
        <3> QED
            BY <3>2, <3>3
    <2>3. CASE AddJob(g)
        <3>1. /\ pc[g] = "add_job" /\ pc' = [pc EXCEPT ![g] = "next_tile"]
              /\ todo' = [todo EXCEPT ![g] = Tail(todo[g])]
              /\ pending' = [pending EXCEPT ![Tile(g)] = pending[Tile(g)] + 1]
            BY <2>3 DEF AddJob
        <3>2. Queueing(t)' \subseteq Queueing(t) \ {g}
            <4>1. Queueing(t)' \subseteq Queueing(t)
                BY <1>1, <1>7, <3>1
            <4>2. g \notin Queueing(t)'
                BY <1>1, <3>1 DEF Queueing
            <4> QED
                BY <4>1, <4>2
        <3>3. CASE t = Tile(g)
            <4>1. g \in Queueing(t) /\ pending'[t] = pending[t] + 1
                BY <1>1, <3>1, <3>3 DEF Queueing
            <4>2. /\ Cardinality(Queueing(t) \ {g}) = Cardinality(Queueing(t)) - 1
                  /\ Cardinality(Queueing(t)) \in Nat /\ Cardinality(Sharers(t)) \in Nat
                BY <1>5, <4>1, GeneratorsFinite
            <4>3. /\ Cardinality(Queueing(t)') \in Nat
                  /\ Cardinality(Queueing(t)') <= Cardinality(Queueing(t) \ {g})
                BY <1>5, <3>2, GeneratorsFinite
            <4> QED
                BY <1>4, <4>1, <4>2, <4>3
        <3>4. CASE t # Tile(g)
            BY <1>1, <1>4, <1>6, <3>1, <3>2, <3>4
        <3> QED
            BY <3>3, <3>4
    <2> QED
        BY <1>8, <2>1, <2>2, <2>3 DEF Generate
<1>9. ASSUME NEW g \in Generators, Crash(g) \/ Restart(g)
      PROVE  Bounded(pending'[t], Cardinality(Queueing(t)'))
    <2>1. UNCHANGED pending /\ \A h \in Generators \ {g} : todo'[h] = todo[h]
        BY <1>1, <1>9 DEF Crash, Restart
    <2>2. PICK p \in {"crashed", "next_tile"} : pc' = [pc EXCEPT ![g] = p]
        BY <1>9 DEF Crash, Restart
    <2>3. Queueing(t)' \subseteq Queueing(t)
        BY <1>7, <2>1, <2>2
    <2> QED
        BY <1>4, <1>6, <2>1, <2>3
<1>10. ASSUME NEW s \in Tiles, Take(s) \/ Done(s)
       PROVE  Bounded(pending'[t], Cardinality(Queueing(t)'))
    <2>1. UNCHANGED <<pc, todo>> /\ pending'[t] \in Nat /\ pending'[t] <= pending[t]
        <3>1. CASE Take(s)
            <4>1. pending' = [pending EXCEPT ![s] = pending[s] - 1] /\ pending[s] > 0
                  /\ UNCHANGED <<pc, todo>>
                BY <3>1 DEF Take
            <4> QED
                BY <1>1, <4>1
        <3>2. CASE Done(s)
            BY <1>1, <3>2 DEF Done
        <3> QED
            BY <1>10, <3>1, <3>2
    <2>2. Queueing(t)' = Queueing(t)
        BY <2>1 DEF Queueing, Tile
    <2> QED
        BY <1>6, <2>1, <2>2
<1>11. CASE UNCHANGED vars
    <2>1. UNCHANGED <<pc, todo, pending>>
        BY <1>11 DEF vars
    <2>2. Queueing(t)' = Queueing(t)
        BY <2>1 DEF Queueing, Tile
    <2> QED
        BY <1>4, <2>1, <2>2
<1> QED
    BY <1>8, <1>9, <1>10, <1>11 DEF Next

(* A tile is queued at most once for every generator that has it, for any  *)
(* number of generators, crashes and restarts.                             *)
THEOREM NoTileQueuedTwice == Spec => []JobsPerSharer
<1>1. Init => QueueBound
    <2> SUFFICES ASSUME Init, NEW t \in Tiles
                 PROVE  pending[t] + Cardinality(Queueing(t)) <= 1
        BY DEF QueueBound
    <2>1. Queueing(t) = {}
        BY DEF Init, Queueing, AtWork
    <2> QED
        BY <2>1, FS_EmptySet DEF Init
<1>2. TypeOK /\ ListsSound /\ QueueBound /\ [Next]_vars => QueueBound'
    BY QueueBoundKept
<1>3. TypeOK /\ QueueBound => JobsPerSharer
    <2> SUFFICES ASSUME TypeOK, QueueBound, m_jobs_db, NEW t \in Tiles
                 PROVE  pending[t] <= 1 \/ pending[t] <= Cardinality(Sharers(t))
        BY DEF JobsPerSharer
    <2>1. Cardinality(Queueing(t)) \in Nat /\ Cardinality(Sharers(t)) \in Nat /\ pending[t] \in Nat
        BY GeneratorsFinite DEF Queueing, Sharers, TypeOK
    <2> QED
        BY <2>1 DEF QueueBound
<1> QED
    BY <1>1, <1>2, <1>3, TypesHold, PTL DEF Spec

(* Without -f a generator that opens a file has found none, and who loses  *)
(* the name of an open file is no longer its writer.                       *)
LEMMA WriterStaysAlone ==
    ASSUME TypeOK, ListsSound, WriterAlone, [Next]_vars
    PROVE  WriterAlone'
<1> SUFFICES ASSUME ~m_force'
             PROVE  /\ \A t \in Tiles : file'[t] # "mixed"
                    /\ \A g \in attached' : file'[Tile(g)'] = "partial"
                    /\ \A g, h \in attached' : Tile(g)' = Tile(h)' => g = h
    BY DEF WriterAlone
<1> USE DEF options, run, directory, table, history, Goto
<1>1. /\ todo \in [Generators -> Seq(Tiles)] /\ file \in [Tiles -> FileStates]
      /\ pc \in [Generators -> ProgramPoints]
      /\ attached \subseteq {h \in Generators : pc[h] = "writing"}
    BY DEF TypeOK
<1>2. \A h \in Generators : pc[h] \notin {"next_tile", "ended", "crashed"} => Tile(h) \in Tiles
    BY <1>1, HeadAndTail DEF ListsSound, Tile
<1>3. ~m_force /\ UNCHANGED m_force
    <2>1. UNCHANGED m_force
        BY DEF Next, Generate, StartTile, EndRun, CancelJob, RemoveFile, OpenFile, FileExists,
               CloseFile, AddJob, Crash, Restart, Take, Done, vars
    <2> QED
        BY <2>1
<1>4. /\ \A t \in Tiles : file[t] # "mixed"
      /\ \A g \in attached : file[Tile(g)] = "partial"
      /\ \A g, h \in attached : Tile(g) = Tile(h) => g = h
    BY <1>3 DEF WriterAlone
<1>5. ASSUME file' = file, attached' \subseteq attached,
             \A h \in attached' : todo'[h] = todo[h]
      PROVE  /\ \A t \in Tiles : file'[t] # "mixed"
             /\ \A g \in attached' : file'[Tile(g)'] = "partial"
             /\ \A g, h \in attached' : Tile(g)' = Tile(h)' => g = h
    BY <1>4, <1>5 DEF Tile
<1>6. ASSUME NEW g \in Generators, Generate(g)
      PROVE  /\ \A t \in Tiles : file'[t] # "mixed"
             /\ \A h \in attached' : file'[Tile(h)'] = "partial"
             /\ \A h, i \in attached' : Tile(h)' = Tile(i)' => h = i
    <2>1. CASE StartTile(g) \/ EndRun(g) \/ CancelJob(g) \/ FileExists(g)
        BY <1>5, <2>1 DEF StartTile, EndRun, CancelJob, FileExists
    <2>2. CASE RemoveFile(g)
        <3>1. CASE UNCHANGED <<file, attached>>
            BY <1>5, <2>2, <3>1 DEF RemoveFile
        <3>2. CASE file' = [file EXCEPT ![Tile(g)] = "absent"] /\ attached' = attached \ Writers(Tile(g))
            <4>1. UNCHANGED todo
                BY <2>2 DEF RemoveFile
            <4>2. \A h \in attached' : h \in attached /\ Tile(h) # Tile(g) /\ Tile(h) \in Tiles /\ Tile(h)' = Tile(h)
                BY <1>1, <1>2, <3>2, <4>1 DEF Writers, Tile
            <4>3. \A t \in Tiles : file'[t] # "mixed" /\ (t # Tile(g) => file'[t] = file[t])
                BY <1>1, <1>4, <3>2
            <4> QED
                BY <1>4, <4>2, <4>3
        <3> QED
            BY <2>2, <3>1, <3>2 DEF RemoveFile
    <2>3. CASE OpenFile(g)
        <3>1. /\ pc[g] = "write_file" /\ file[Tile(g)] = "absent" /\ UNCHANGED todo
              /\ attached' = attached \union {g}
            BY <1>3, <2>3 DEF OpenFile, Truncate
        <3>2. \A h \in attached : Tile(h) # Tile(g) /\ Tile(h) \in Tiles
            BY <1>1, <1>2, <1>4, <3>1
        <3>3. file' = [file EXCEPT ![Tile(g)] = "partial"] /\ Tile(g) \in Tiles
            BY <1>2, <2>3, <3>1, <3>2 DEF OpenFile, Truncate, Writers
        <3>4. \A h \in Generators : Tile(h)' = Tile(h)
            BY <3>1 DEF Tile
        <3>5. \A t \in Tiles : file'[t] # "mixed" /\ (t # Tile(g) => file'[t] = file[t])
            BY <1>1, <1>4, <3>3
        <3>6. \A h \in attached' : h \in Generators /\ (h = g \/ h \in attached)
            BY <1>1, <3>1
        <3>7. ASSUME NEW h \in attached'
              PROVE  file'[Tile(h)'] = "partial"
            BY <1>1, <1>4, <3>2, <3>3, <3>4, <3>5, <3>6
        <3>8. ASSUME NEW h \in attached', NEW i \in attached', Tile(h)' = Tile(i)'
              PROVE  h = i
            BY <1>4, <3>2, <3>4, <3>6, <3>8
        <3> QED
            BY <3>5, <3>7, <3>8
    <2>4. CASE CloseFile(g)
        <3>1. /\ pc[g] = "writing" /\ attached' = attached \ {g}
              /\ \A h \in attached' : todo'[h] = todo[h]
            BY <1>1, <2>4 DEF CloseFile
        <3>2. CASE g \notin attached
            <4>1. file' = file
                BY <2>4, <3>2 DEF CloseFile
            <4> QED
                BY <1>5, <3>1, <4>1
        <3>3. CASE g \in attached
            <4>1. file' = [file EXCEPT ![Tile(g)] = "complete"]
                BY <1>4, <2>4, <3>3 DEF CloseFile
            <4>2. \A h \in attached' :
                    h \in attached /\ Tile(h) # Tile(g) /\ Tile(h) \in Tiles /\ Tile(h)' = Tile(h)
                BY <1>1, <1>2, <1>4, <3>1, <3>3 DEF Tile
            <4>3. \A t \in Tiles : file'[t] # "mixed" /\ (t # Tile(g) => file'[t] = file[t])
                BY <1>1, <1>4, <4>1
            <4> QED
                BY <1>4, <4>2, <4>3
        <3> QED
            BY <3>2, <3>3
    <2>5. CASE AddJob(g)
        <3>1. g \notin attached
            BY <1>1, <2>5 DEF AddJob
        <3> QED
            BY <1>1, <1>5, <2>5, <3>1 DEF AddJob
    <2> QED
        BY <1>6, <2>1, <2>2, <2>3, <2>4, <2>5 DEF Generate
<1>7. ASSUME NEW g \in Generators, Crash(g) \/ Restart(g)
      PROVE  file' = file /\ attached' \subseteq attached /\ \A h \in attached' : todo'[h] = todo[h]
    <2>1. CASE Crash(g)
        BY <2>1 DEF Crash
    <2>2. CASE Restart(g)
        <3>1. g \notin attached
            BY <1>1, <2>2 DEF Restart
        <3> QED
            BY <1>1, <2>2, <3>1 DEF Restart
    <2> QED
        BY <1>7, <2>1, <2>2
<1>8. CASE (\E t \in Tiles : Take(t) \/ Done(t)) \/ UNCHANGED vars
    BY <1>5, <1>8 DEF Take, Done, vars
<1> QED
    BY <1>5, <1>6, <1>7, <1>8 DEF Next

(* Without -f two generators never write one file, for any number of them: *)
(* O_EXCL is enough, although each removes files it has not opened.        *)
THEOREM OneWriter == Spec => []OneWriterWithoutForce
<1>1. Init => WriterAlone
    BY DEF Init, WriterAlone
<1>2. TypeOK /\ ListsSound /\ WriterAlone /\ [Next]_vars => WriterAlone'
    BY WriterStaysAlone
<1>3. TypeOK /\ WriterAlone => OneWriterWithoutForce
    <2> SUFFICES ASSUME TypeOK, WriterAlone, ~m_force, NEW t \in Tiles
                 PROVE  Cardinality(Writers(t)) <= 1
        BY DEF OneWriterWithoutForce, WriterAlone
    <2>1. CASE Writers(t) = {}
        BY <2>1, FS_EmptySet
    <2>2. CASE Writers(t) # {}
        <3>1. PICK g : g \in Writers(t)
            BY <2>2
        <3>2. Writers(t) = {g}
            BY <3>1 DEF Writers, WriterAlone
        <3>3. Cardinality(Writers(t)) = 1
            BY <3>2, FS_Singleton, Zenon
        <3> QED
            BY <3>3
    <2> QED
        BY <2>1, <2>2
<1> QED
    BY <1>1, <1>2, <1>3, TypesHold, PTL DEF Spec

-----------------------------------------------------------------------------
(* A generator that is not at the end of its tile attends what it lists.   *)
LEMMA StillToWrite ==
    ASSUME NEW g, NEW t, t \in Range(todo[g])', pc'[g] # "add_job",
           pc'[g] = "writing" => g \in attached'
    PROVE  Attends(g, t)'
BY DEF Attends

(* What a generator attends does not depend on the steps of others, unless *)
(* they take the name from the file it writes.                             *)
LEMMA AttendsAlone ==
    ASSUME NEW h, NEW t, Attends(h, t), todo'[h] = todo[h], pc'[h] = pc[h],
           Tile(h) = t /\ h \in attached => h \in attached'
    PROVE  Attends(h, t)'
BY DEF Attends, Tile

(* The tile at hand of a generator between two tiles is none of another's, *)
(* if it is in one list only.                                              *)
LEMMA OwnTiles ==
    ASSUME TypeOK, ListsSound, NEW g \in Generators,
           pc[g] \notin {"next_tile", "ended", "crashed"}
    PROVE  /\ todo[g] # <<>> /\ Tile(g) \in Tiles /\ Tile(g) \in Range(todo[g])
           /\ \A e \in Range(todo[g]) : e = Tile(g) \/ e \in Range(Tail(todo[g]))
           /\ g \in Sharers(Tile(g))
<1>1. todo[g] \in Seq(Range(Lists[g])) /\ todo[g] # <<>> /\ todo[g] \in Seq(Tiles)
    BY DEF TypeOK, ListsSound
<1> QED
    BY <1>1, HeadAndTail DEF Tile, Sharers

(* No other generator comes between the one and its file.                  *)
LEMMA OwnFilesKept ==
    ASSUME TypeOK, ListsSound, OwnFilesPartial, [Next]_vars
    PROVE  OwnFilesPartial'
<1> USE DEF OwnFilesPartial, options, run, directory, table, history, Goto
<1>1. /\ pc \in [Generators -> ProgramPoints] /\ todo \in [Generators -> Seq(Tiles)]
      /\ file \in [Tiles -> FileStates]
      /\ attached \subseteq {h \in Generators : pc[h] = "writing"}
    BY DEF TypeOK
<1>2. \A t : Exclusive(t)' = Exclusive(t)
    BY DEF Exclusive, Sharers
<1>3. ASSUME NEW g \in Generators, NEW h \in attached, h # g, Exclusive(Tile(h)),
             pc[g] \notin {"next_tile", "ended", "crashed"}
      PROVE  Tile(h) # Tile(g) /\ Tile(h) \in Tiles
    BY <1>1, <1>3, OwnTiles DEF Exclusive
<1>4. ASSUME NEW g \in Generators, \A h \in attached' : h # g => h \in attached /\ todo'[h] = todo[h],
             \A t \in Tiles : t # Tile(g) => file'[t] = file[t],
             file' # file => pc[g] \notin {"next_tile", "ended", "crashed"},
             g \in attached' /\ Exclusive(Tile(g)) => Tile(g)' = Tile(g) /\ file'[Tile(g)] = "partial",
             g \in attached' => Tile(g)' = Tile(g)
      PROVE  OwnFilesPartial'
    <2> SUFFICES ASSUME NEW h \in attached', Exclusive(Tile(h)')
                 PROVE  file'[Tile(h)'] = "partial"
        BY DEF Exclusive, Sharers
    <2>1. CASE h = g
        BY <1>4, <2>1
    <2>2. CASE h # g
        <3>1. h \in attached /\ Tile(h)' = Tile(h)
            BY <1>4, <2>2 DEF Tile
        <3>2. CASE file' = file
            BY <3>1, <3>2
        <3>3. CASE file' # file
            <4>1. Tile(h) # Tile(g) /\ Tile(h) \in Tiles
                BY <1>3, <1>4, <2>2, <3>1, <3>3
            <4> QED
                BY <1>4, <3>1, <4>1
        <3> QED
            BY <3>2, <3>3
    <2> QED
        BY <2>1, <2>2
<1>5. ASSUME NEW g \in Generators, Generate(g)
      PROVE  OwnFilesPartial'
    <2>0. pc[g] \notin {"next_tile", "ended", "crashed"} => Tile(g) \in Tiles
        BY OwnTiles
    <2>1. CASE StartTile(g) \/ EndRun(g) \/ CancelJob(g) \/ FileExists(g)
        <3>1. UNCHANGED <<todo, file, attached>> /\ g \notin attached
            BY <1>1, <2>1 DEF StartTile, EndRun, CancelJob, FileExists
        <3> QED
            BY <1>4, <3>1
    <2>2. CASE RemoveFile(g)
        <3>1. /\ UNCHANGED todo /\ g \notin attached /\ pc[g] = "remove" /\ attached' \subseteq attached
              /\ \A t \in Tiles : t # Tile(g) => file'[t] = file[t]
            BY <1>1, <2>2 DEF RemoveFile
        <3> QED
            BY <1>4, <3>1
    <2>3. CASE OpenFile(g)
        <3>1. /\ UNCHANGED todo /\ pc[g] = "write_file" /\ attached' = attached \union {g}
              /\ \A t \in Tiles : t # Tile(g) => file'[t] = file[t]
              /\ Writers(Tile(g)) = {} => file'[Tile(g)] = "partial"
            BY <1>1, <2>0, <2>3 DEF OpenFile, Truncate
        <3>2. Exclusive(Tile(g)) => Writers(Tile(g)) = {}
            BY <1>1, <1>3, <3>1 DEF Writers
        <3>3. Tile(g)' = Tile(g)
            BY <3>1 DEF Tile
        <3> QED
            BY <1>4, <3>1, <3>2, <3>3
    <2>4. CASE CloseFile(g)
        <3>1. /\ pc[g] = "writing" /\ attached' = attached \ {g}
              /\ \A h \in Generators : h # g => todo'[h] = todo[h]
              /\ \A t \in Tiles : t # Tile(g) => file'[t] = file[t]
            BY <1>1, <2>4 DEF CloseFile
        <3> QED
            BY <1>1, <1>4, <3>1
    <2>5. CASE AddJob(g)
        <3>1. /\ g \notin attached /\ UNCHANGED <<file, attached>>
              /\ \A h \in Generators : h # g => todo'[h] = todo[h]
            BY <1>1, <2>5 DEF AddJob
        <3> QED
            BY <1>1, <1>4, <3>1
    <2> QED
        BY <1>5, <2>1, <2>2, <2>3, <2>4, <2>5 DEF Generate
<1>6. ASSUME NEW g \in Generators, Crash(g) \/ Restart(g)
      PROVE  OwnFilesPartial'
    <2>1. /\ g \notin attached' /\ UNCHANGED file /\ attached' \subseteq attached
          /\ \A h \in Generators : h # g => todo'[h] = todo[h]
        BY <1>1, <1>6 DEF Crash, Restart
    <2> QED
        BY <1>1, <1>4, <2>1
<1>7. CASE (\E t \in Tiles : Take(t) \/ Done(t)) \/ UNCHANGED vars
    <2>1. UNCHANGED <<todo, file, attached>>
        BY <1>7 DEF Take, Done, vars
    <2> QED
        BY <1>2, <2>1 DEF Tile
<1> QED
    BY <1>5, <1>6, <1>7 DEF Next

(* Who attends a tile goes on doing so until its file is complete: a       *)
(* generator that removes or truncates the file of another attends it      *)
(* itself, and one whose file lost its name is not the last at the tile.   *)
LEMMA FilesStayAttended ==
    ASSUME TypeOK, ListsSound, WriterAlone, FilesInv, [Next]_vars
    PROVE  FilesAttended'
<1> SUFFICES ASSUME NEW t \in Tiles, Sharers(t) # {}, ~m_force \/ Exclusive(t),
                    file'[t] # "complete"
             PROVE  \E g \in Generators : Attends(g, t)'
    BY OptionsKept DEF FilesAttended, Exclusive, Sharers
<1> USE DEF options, run, directory, table, history, Goto
<1>1. /\ pc \in [Generators -> ProgramPoints] /\ todo \in [Generators -> Seq(Tiles)]
      /\ file \in [Tiles -> FileStates]
      /\ attached \subseteq {h \in Generators : pc[h] = "writing"}
    BY DEF TypeOK
<1>2. file[t] # "complete" => \E g \in Generators : Attends(g, t)
    BY DEF FilesInv, FilesAttended
<1>3. ASSUME NEW g \in Generators, file[t] # "complete",
             \A h \in Generators \ {g} : todo'[h] = todo[h] /\ pc'[h] = pc[h],
             \A h \in attached \ {g} : Tile(h) = t => h \in attached',
             Attends(g, t) => Attends(g, t)'
      PROVE  \E h \in Generators : Attends(h, t)'
    BY <1>2, <1>3, AttendsAlone
<1>4. ASSUME NEW g \in Generators, Generate(g)
      PROVE  \E h \in Generators : Attends(h, t)'
    <2>0. pc[g] \notin {"next_tile", "ended", "crashed"} =>
            /\ Tile(g) \in Tiles /\ Tile(g) \in Range(todo[g])
            /\ \A e \in Range(todo[g]) : e = Tile(g) \/ e \in Range(Tail(todo[g]))
        BY OwnTiles
    <2>1. CASE StartTile(g) \/ CancelJob(g) \/ FileExists(g)
        <3>1. /\ UNCHANGED <<todo, file, attached>>
              /\ pc'[g] \notin {"add_job", "writing"}
              /\ \A h \in Generators \ {g} : pc'[h] = pc[h]
            BY <1>1, <2>1 DEF StartTile, CancelJob, FileExists
        <3>2. Attends(g, t) => Attends(g, t)'
            BY <3>1, StillToWrite DEF Attends
        <3> QED
            BY <1>3, <3>1, <3>2
    <2>2. CASE EndRun(g)
        <3>1. /\ UNCHANGED <<todo, file, attached>>
              /\ pc'[g] \notin {"add_job", "writing"}
              /\ \A h \in Generators \ {g} : pc'[h] = pc[h]
            BY <1>1, <2>2 DEF EndRun
        <3>2. Attends(g, t) => Attends(g, t)'
            BY <3>1, StillToWrite DEF Attends
        <3> QED
            BY <1>3, <3>1, <3>2
    <2>3. CASE RemoveFile(g)
        <3>1. /\ UNCHANGED todo /\ pc[g] = "remove" /\ pc' = [pc EXCEPT ![g] = "write_file"]
              /\ \A s \in Tiles : s # Tile(g) => file'[s] = file[s]
              /\ \A h \in attached : Tile(h) # Tile(g) => h \in attached'
            BY <1>1, <2>3 DEF RemoveFile, Writers
        <3>2. t \in Range(todo[g]) => Attends(g, t)'
            BY <1>1, <3>1, StillToWrite
        <3>3. CASE t = Tile(g)
            BY <2>0, <3>1, <3>2, <3>3
        <3>4. CASE t # Tile(g)
            BY <1>1, <1>3, <3>1, <3>2, <3>4 DEF Attends
        <3> QED
            BY <3>3, <3>4
    <2>4. CASE OpenFile(g)
        <3>1. /\ UNCHANGED todo /\ pc[g] = "write_file" /\ pc' = [pc EXCEPT ![g] = "writing"]
              /\ \A s \in Tiles : s # Tile(g) => file'[s] = file[s]
              /\ attached' = attached \union {g}
            BY <1>1, <2>4 DEF OpenFile, Truncate
        <3>2. t \in Range(todo[g]) => Attends(g, t)'
            BY <1>1, <3>1, StillToWrite
        <3>3. CASE t = Tile(g)
            BY <2>0, <3>1, <3>2, <3>3
        <3>4. CASE t # Tile(g)
            BY <1>1, <1>3, <3>1, <3>2, <3>4 DEF Attends
        <3> QED
            BY <3>3, <3>4
    <2>5. CASE CloseFile(g)
        <3>1. /\ pc[g] = "writing" /\ attached' = attached \ {g}
              /\ \A s \in Tiles : s # Tile(g) => file'[s] = file[s]
              /\ \A h \in Generators \ {g} : todo'[h] = todo[h] /\ pc'[h] = pc[h]
              /\ \/ pc'[g] = "add_job" /\ todo' = todo
                 \/ pc'[g] = "next_tile" /\ todo'[g] = Tail(todo[g])
            BY <1>1, <2>5 DEF CloseFile
        <3>2. CASE t = Tile(g) /\ g \in attached
            <4>1. file[t] = "partial"
                BY <3>2 DEF WriterAlone, FilesInv, OwnFilesPartial
            <4> QED
                BY <1>1, <2>5, <3>2, <4>1 DEF CloseFile
        <3>3. CASE t = Tile(g) /\ g \notin attached
            <4>1. file' = file
                BY <2>5, <3>3 DEF CloseFile
            <4>2. Attends(g, t) => t \in Range(Tail(todo[g])) /\ t \in Range(todo[g])
                BY <3>1, <3>3 DEF Attends
            <4>3. Attends(g, t) => Attends(g, t)'
                BY <3>1, <4>2 DEF Attends, Tile
            <4> QED
                BY <1>3, <3>1, <4>1, <4>3
        <3>4. CASE t # Tile(g)
            <4>1. t \in Range(todo[g]) => Attends(g, t)'
                BY <2>0, <3>1, <3>4 DEF Attends, Tile
            <4> QED
                BY <1>3, <3>1, <3>4, <4>1 DEF Attends
        <3> QED
            BY <3>2, <3>3, <3>4
    <2>6. CASE AddJob(g)
        <3>1. /\ pc[g] = "add_job" /\ UNCHANGED <<file, attached>>
              /\ \A h \in Generators \ {g} : todo'[h] = todo[h] /\ pc'[h] = pc[h]
              /\ pc'[g] = "next_tile" /\ todo'[g] = Tail(todo[g])
            BY <1>1, <2>6 DEF AddJob
        <3>2. Attends(g, t) => t \in Range(Tail(todo[g]))
            BY <2>0, <3>1 DEF Attends
        <3>3. Attends(g, t) => Attends(g, t)'
            BY <3>1, <3>2, StillToWrite
        <3> QED
            BY <1>3, <3>1, <3>3
    <2> QED
        BY <1>4, <2>1, <2>2, <2>3, <2>4, <2>5, <2>6 DEF Generate
<1>5. ASSUME NEW g \in Generators, Crash(g) \/ Restart(g)
      PROVE  \E h \in Generators : Attends(h, t)'
    <2>1. /\ UNCHANGED file /\ pc'[g] \in {"crashed", "next_tile"}
          /\ \A h \in Generators \ {g} : todo'[h] = todo[h] /\ pc'[h] = pc[h]
          /\ \A h \in attached \ {g} : h \in attached'
          /\ todo'[g] \in {todo[g], Lists[g]}
        BY <1>1, <1>5 DEF Crash, Restart
    <2>2. Range(todo[g]) \subseteq Range(Lists[g])
        BY SequenceOfItsRange DEF ListsSound
    <2>3. Attends(g, t) => Attends(g, t)'
        BY <2>1, <2>2, StillToWrite DEF Attends
    <2> QED
        BY <1>3, <2>1, <2>3
<1>6. CASE (\E s \in Tiles : Take(s) \/ Done(s)) \/ UNCHANGED vars
    <2>1. UNCHANGED <<todo, pc, file, attached>>
        BY <1>6 DEF Take, Done, vars
    <2> QED
        BY <1>2, <2>1, AttendsAlone
<1> QED
    BY <1>4, <1>5, <1>6 DEF Next

(* A generator ends with an empty list and never goes on.                  *)
LEMMA EndedStays ==
    ASSUME TypeOK, ListsSound, EndedAtEndOfList, [Next]_vars
    PROVE  EndedAtEndOfList'
<1> USE DEF EndedAtEndOfList, TypeOK, options, run, directory, table, history, Goto
<1>1. ASSUME NEW g \in Generators, Generate(g) \/ Crash(g) \/ Restart(g)
      PROVE  EndedAtEndOfList'
    BY <1>1 DEF Generate, StartTile, EndRun, CancelJob, RemoveFile, OpenFile, FileExists,
                CloseFile, AddJob, Crash, Restart
<1>2. CASE (\E s \in Tiles : Take(s) \/ Done(s)) \/ UNCHANGED vars
    BY <1>2 DEF Take, Done, vars
<1> QED
    BY <1>1, <1>2 DEF Next

(* A tile whose job is queued although its file is not complete is still   *)
(* in a list: who takes the job does not wait in vain for another.         *)
LEMMA SpoiledStayQueued ==
    ASSUME DistinctKeys, TypeOK, ListsSound, PendingJobHasFile, FilesInv, SpoiledReadRepeated,
           [Next]_vars
    PROVE  SpoiledReadRepeated'
<1>0. UNCHANGED <<m_jobs_db, m_force>> /\ \A t : Exclusive(t)' <=> Exclusive(t)
    BY OptionsKept DEF Exclusive, Sharers
<1> SUFFICES ASSUME m_jobs_db, NEW t \in spoiled', ~m_force \/ Exclusive(t)
             PROVE  pending'[t] > 0 \/ Listed(t)'
    BY <1>0 DEF SpoiledReadRepeated
<1> USE DEF options, run, directory, table, history, Goto
<1>1. /\ todo \in [Generators -> Seq(Tiles)] /\ spoiled \subseteq Tiles
      /\ pending \in [Tiles -> Nat]
    BY DEF TypeOK
<1>2. CASE \E s \in Tiles : Take(s) /\ s = t
    <2>1. Take(t) /\ t \in Tiles /\ UNCHANGED todo
        BY <1>2 DEF Take
    <2>2. file[t] # "complete" /\ pending[t] > 0
        BY <2>1 DEF Take
    <2>3. Sharers(t) # {} /\ ~Exclusive(t)
        BY <2>1, <2>2 DEF PendingJobHasFile, Exclusive
    <2>4. PICK g \in Generators : Attends(g, t)
        BY <2>1, <2>2, <2>3 DEF FilesInv, FilesAttended
    <2> QED
        BY <2>1, <2>4 DEF Attends, Listed
<1>3. CASE t \in spoiled /\ ~Take(t)
    BY <1>1, <1>3, QueuedOrListed DEF SpoiledReadRepeated
<1>4. CASE t \notin spoiled /\ ~\E s \in Tiles : Take(s) /\ s = t
    <2>1. PICK g \in Generators : (RemoveFile(g) \/ OpenFile(g)) /\ t = Tile(g)
        BY <1>4 DEF Next, Generate, StartTile, EndRun, CancelJob, RemoveFile, OpenFile, Truncate,
                    FileExists, CloseFile, AddJob, Crash, Restart, Take, Done, vars, Disturb
    <2>2. pc[g] \notin {"next_tile", "ended", "crashed"} /\ UNCHANGED todo
        BY <2>1 DEF RemoveFile, OpenFile
    <2>3. t \in Range(todo[g])
        BY <2>1, <2>2, OwnTiles
    <2> QED
        BY <2>2, <2>3 DEF Listed
<1>5. t \in spoiled /\ Take(t) => \E s \in Tiles : Take(s) /\ s = t
    BY <1>1
<1> QED
    BY <1>2, <1>3, <1>4, <1>5

(* Hence every tile of a list that lacks a complete file is attended.      *)
LEMMA FilesHold == Spec => []FilesInv
<1>1. Init => WriterAlone /\ FilesInv
    <2> SUFFICES ASSUME Init PROVE FilesInv
        BY DEF Init, WriterAlone
    <2>1. OwnFilesPartial /\ EndedAtEndOfList
        BY DEF Init, OwnFilesPartial, EndedAtEndOfList
    <2>2. ASSUME NEW t \in Tiles, NEW g \in Sharers(t)
          PROVE  g \in Generators /\ Attends(g, t)
        BY <2>2 DEF Init, Sharers, Attends
    <2> QED
        BY <2>1, <2>2 DEF FilesInv, FilesAttended
<1>2. TypeOK /\ ListsSound /\ WriterAlone /\ FilesInv /\ [Next]_vars => WriterAlone' /\ FilesInv'
    BY WriterStaysAlone, FilesStayAttended, OwnFilesKept, EndedStays DEF FilesInv
<1> QED
    BY <1>1, <1>2, TypesHold, PTL DEF Spec

(* The end of all lists: nothing was left over from a crash, and no file   *)
(* removed by a generator that did not write it again, for any number of   *)
(* generators, crashes and restarts.                                       *)
THEOREM FilesCompleteInTheEnd == Spec => []EndedFilesComplete
<1>1. FilesInv => EndedFilesComplete
    <2> SUFFICES ASSUME FilesInv, \A g \in Generators : pc[g] = "ended",
                        NEW t \in Tiles, Sharers(t) # {}, ~m_force \/ Exclusive(t)
                 PROVE  file[t] = "complete"
        BY DEF EndedFilesComplete
    <2>1. \A g \in Generators : Range(todo[g]) = {}
        BY DEF FilesInv, EndedAtEndOfList, Range
    <2> QED
        BY <2>1 DEF FilesInv, FilesAttended, Attends
<1> QED
    BY <1>1, FilesHold, PTL

(* A worker whose file is removed or overwritten under it, or that takes a *)
(* job without finding a complete file, gets another job or a generator    *)
(* has still to come to the tile.                                          *)
THEOREM SpoiledReadsRepeated ==
    ASSUME DistinctKeys
    PROVE  Spec => []SpoiledReadRepeated
<1>1. Init => SpoiledReadRepeated
    BY DEF Init, SpoiledReadRepeated
<1>2. /\ TypeOK /\ ListsSound /\ PendingJobHasFile /\ FilesInv /\ SpoiledReadRepeated
      /\ [Next]_vars
      => SpoiledReadRepeated'
    BY SpoiledStayQueued
<1> QED
    BY <1>1, <1>2, TypesHold, JobsMatchFiles, FilesHold, PTL DEF Spec
=============================================================================

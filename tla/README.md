# Verification of the vector tile generator

The repository holds `vectortile-generator`, a C++ program that reads OpenStreetMap data from a
PostgreSQL database (in the layout of Cerepso or of osm2pgsql) and writes one OSM file for every
tile it is asked for. This directory models it in TLA+, checks the models with TLC and proves the
most important properties with TLAPS. Paths are relative to the repository; `src/...` inside it is
`src/src/...` here.

## 1. Inventory

| component | code | state | operations |
|---|---|---|---|
| Tile builder | `src/src/osmvectortileimpl.hpp` | `m_buffer`, `m_location_handler`, `m_ways_got`, `m_relations_got`, `m_missing_nodes/ways/relations`; the output file | `clear`, `generate_vectortile`, the callbacks `add_node`, `add_way`, `add_relation`, `write_file`, `sort_buffer_and_write_it` |
| Cerepso data source | `src/src/input/cerepso_data_access.*` | prepared statements, bounding box | `get_{nodes,ways,relations}_inside`, `get_missing_{nodes,ways,relations}` |
| osm2pgsql data source | `src/src/input/osm2pgsql_data_access.*` | as above, batches of ids | the same six calls |
| Node stores | `src/src/input/nodes_*` | table `untagged_nodes` or a flatnodes file | `get_nodes_inside`, `get_missing_nodes` |
| Jobs and output files | `src/src/vector_tile.hpp`, `src/src/vectortile-generator.cpp` | the list of tiles, the output directory | `run`, `VectorTile::generate_vectortile` |
| Jobs database | `src/src/jobs_database.*` | table `jobs` | `add_job`, `cancel_job`, `xy_to_quadtree` |
| Columns of a row | `src/src/input/metadata_fields.*` and the parsers of the data sources | which columns are selected, at which offsets they are read | `select_str`, the `parse_*_query_result` functions |
| Bounding box | `src/src/bounding_box.*` | four sides in degrees | the constructor, reading of lists of tiles |
| Table with bounding box | `src/src/osm_data_table.*` | a connection, the text of the box | `set_bbox`, `run_prepared_bbox_statement` |
| Style file parser | `src/src/input/column_config_parser.*` | the lists of columns | `parse` |
| Database connection | `src/contrib/cerepso-postgres-backend` | connection, copy mode, moved-from flag | open, close, COPY, prepared statements |
| Array and hstore parsers | `src/contrib/pg-array-hstore-parser` | position in a string | `has_next`, `get_next` |

How they interact. `run` takes the tiles of its list in order. For each it sets the bounding box,
clears the one tile builder there is and, with a jobs database, cancels the pending job of the tile
and removes its file. The tile builder makes six calls of its data source; the data source sends
queries and gives each row back through a callback, which appends to the buffer and notes ids that
are missing. The later calls walk the sets of missing ids, and their own callbacks insert into these
sets. The buffer is sorted and written, and a job is added for a worker that is not part of the
repository. Everything is one thread; concurrency is between runs of the program, the worker and the
database.

What is hard: loops over a set that grows in their body; batches whose rows are parsed when the loop
is past them; the order of the three calls for missing objects; an index that is searched as if it
were sorted; one builder used for all tiles; a sequence of steps on a table and a file without a
transaction, with crashes and restarts; base class methods that are hidden instead of overridden;
shifts in an `int`; columns that are counted or listed in two places; parsers that decide by the
character before and by flags; a database that changes between two queries; two generators that have
the same tile in their lists. The hazards are listed with their lines
in `PROJECT.json`.

What makes the components correct:

* tile builder and data sources: ways have their nodes, relations the members the options ask for,
  nothing else is in the file, the file is sorted and free of repetitions, every run ends;
* jobs and files: a job that is pending has its complete file, there is at most one for each
  generator that has the tile, and a tile that was written is not forgotten, nor is a job that was
  disturbed while it was processed;
* key: tiles of a zoom level have different keys;
* columns: the style file is read as it is meant, statements select columns the tables have, and
  each parser reads a column where the statement put it;
* arrays and hstores: the builder gets the tags that are in the database;
* list of tiles and bounding box: every tile of the list comes, its box covers it and stays in the
  world.

## 2. Modules

    OSMData ── OSMVectorTileImpl ── NodesProvider ──┬── CerepsoDataAccess ── UpdatedDatabase ── CerepsoProofs
       │              │                             ├── Osm2pgsqlDataAccess ── Osm2pgsqlProofs
       └── TileContents (the promise)               └── OSMVectorTileImplProofs (used by both)
    VectorTile ── VectorTileProofs
    BoundingBox, Quadtree ── TileList ── TileListProofs
    ColumnConfigParser, Columns ── RowLayout ── RowLayoutProofs
    PgText ── PostgresParser ── ArrayParser, HStoreParser ── TagColumn ── TagColumnProofs
    Table ── TableProofs

Each run has a module `MC...` that gives the constants their values.

`OSMData` has the objects, the database contents and the options as constants of the run, and says
what a tile owes its reader (`WaysComplete`, `MembersComplete`, `Justified`). An object is its type
and id; tags, roles, metadata and coordinates are left out because nothing in the control depends on
them (`object_equal_type_id` compares nothing else either). A spatial query returns what `db.inside`
names, so the models do not depend on geometry.

`OSMVectorTileImpl` has the members of the class as variables under their names, `call` for the
program point in `generate_vectortile`, and for the loops `rows` (rows of a result not yet parsed),
`fetched` (the query has been sent) and `cursor` (the position of the iterator of a `std::set`).
`NextTile` is a round of `run` with `clear`; `CallAfter` the order of the six calls; `add_node`,
`add_way` and `add_relation` the callbacks; `OpenFile`, `FileExists`, `WriteObject`, `CloseFile`
are `write_file`. `NotFound` models the location handler: its index is a binary search over pairs in
the order of their arrival and nothing sorts it, so once a node came after one with a greater id
any lookup may fail; every such outcome is explored.

`NodesProvider`, `CerepsoDataAccess` and `Osm2pgsqlDataAccess` have the calls: sending a query, one
row with its callback, one round of a loop, the return. The Cerepso source asks for one id at a
time. The osm2pgsql source collects ids in batches; a batch that is not full is sent when the loop
has ended, which is what `fetched` records in `SelectBatch`. It reads ids from two geometry
tables for ways, and one object may have several rows there (`Pieces`). A lookup in the flatnodes
file that throws, a way whose array of nodes is NULL and a query that fails (`QueryFails`: that of a
call, of a round or of a row) end the program; nothing in it catches these exceptions.

`TileContents` is the abstract promise: the tiles of the list are published in their order, each in
one step and with an acceptable content, or the run ends before. The refinement mapping
(`Promise` in `OSMVectorTileImpl`, the same for both data sources) maps the tile under construction
and the rest of the list to `remaining`, and a file to its content when it is closed.

`UpdatedDatabase` cuts the rounds of `CerepsoDataAccess` into their queries: a way is a row and
`get_way_nodes`, a relation a row and three queries for its members, a node two lookups. `query`
holds the row that is being put together. The importer (external, `Import`) may commit another
database between any two steps. `seen` are the states of the database since the tile was begun,
`read` the parts each way and relation was read with; both are auxiliary. Without imports the finer
steps are those of `CerepsoDataAccess` or leave its state alone (`RoundsAreAtomic`), which justifies
its coarse rounds: it compares two models and says nothing of the interleavings, which are with the
other three properties of the run. A node that moves between the two lookups into the table that was
asked first is found in neither: `StayingPartsWritten` therefore speaks of nodes that stay in their
table.

`VectorTile` has the steps of `generate_vectortile` on the jobs table and the file for any number of
generators, crashes between any two steps, restarts with the whole list, and the worker (external),
which takes pending jobs, reads the file and ends them. Generators may share tiles. `attached` are
those whose open file still has its name: who removes a file lets the writer go on into one that
nobody sees, and two writers with the option `-f` mix theirs. `fresh` (tiles written, no job taken
since) and `spoiled` (the file changed under a job in process) are auxiliary. `Exclusive(t)` and
`Sharers(t)` say in the properties which other generators have the tile in their lists.

`TileList` reads the list of tiles line by line; `read_tiles_list` stops without a message at the
first line that is no tile. Each tile gets its box (`BoundingBox`, in a Mercator projection with 10
units for a tile) and the loop of `xy_to_quadtree` runs over its bits (`Quadtree`, with a number as
the set of its bits, in an `int` of 32 bits that is widened to 64).

`ColumnConfigParser` reads a style file line by line and splits a line token by token, with the
position and the next blank as the code keeps them; a word that the code compares as a whole is one
character. What a style file means is stated without the parser, by the words of a line (`Word`) and
the numbers of the lines that ask for a column (`Asking`). `Columns` has the columns the tables are
built with, `RowLayout` the options, every statement that is run with the columns it selects, and
the parsers of nodes, of ways and relations and of members. So a column is followed from the text of
the style file to the value that is read.

`PostgresParser`, `ArrayParser` and `HStoreParser` are the parsers of the same names, one step for a
character or a call (also of `remove_escape_sequences`, which copies an element); `TagColumn` has
their two callers, of which one takes keys and values in turn from an array. `PgText` is the
server's side (external): which text is that of which tags, with quotes and backslashes. It is a
relation, not a function that puts the text together: `starts`, an auxiliary part of a row, says
where in the text each key and each value begins, and the definitions say what is there.
`ServerAssumption` is that a valid row has such a text (or the empty one, for no tags), and no key
that is NULL; that an array may be quoted where it need not be is left open. `MCTagColumn` builds
the texts the other way round, by concatenation, so that TLC tests the relation against a
construction. The wording of errors and the conversions to other types than strings are left out.
Two peculiarities are in the properties: an hstore value NULL becomes the word, and the parser stops
`MIN_KV_PAIR_LENGTH` before the end, which loses nothing only because the server always quotes.

`Table` has the members of the class as functions of the objects, and of each connection what the
server and libpq do with a command: answer it, refuse it (which aborts a transaction), or end a COPY
that runs to send it, which the caller is not told. The destructor is three actions, because each of
its commands may fail. Rows are followed from `send_line` to the commit; `disturbed` is an auxiliary
variable for connections that failed or on which a call threw. The rows of a COPY that libpq has
ended for another command are `interrupted`: `LostOnlyIfDisturbed` leaves out these rows and no
others, and `CutOffOnlyUnasked` says which calls lose them. What the end of the program leaves unsaved
is not followed. The program itself only reads; COPY and transactions are what the class offers to
the importer it is shared with.

## 3. Runs

| run | instance | shows |
|---|---|---|
| `cerepso` | one tile over three relations: every graph of references between them, every set of them inside, with and without recursion; and two tiles in one run: three nodes (tagged, untagged, unknown), two ways, a relation, old files, flatnodes, three sets of options | `TypeOK`, `RelationsHaveTheirMembers`, `GreaterRelationsFollowed`, `WaysHaveTheirNodes`, `NothingUnasked`, `FilesOrdered`, `Terminates`, `KeepsPromise` |
| `osm2pgsql` | two tiles; three ways, three relations, batches of two, objects in two rows, NULL nodes | `NoWayWithoutNodes`, `Terminates`, `KeepsPromise` |
| `updated_database` | one tile; eight databases, two imports between any two queries | `StayingObjectsWritten`, `StayingPartsWritten`, `ObjectsWereThere`, `RoundsAreAtomic`, `UpdatedTerminates` |
| `jobs` | two generators, two tiles of which they share one, two runs each, a worker, crashes anywhere, with and without `-f` and jobs | `PendingJobHasFile`, `JobsPerSharer`, `FreshTileHasJob`, `SpoiledReadRepeated`, `OneWriterWithoutForce`, `EndedFilesComplete`, `RunsEnd` |
| `tile_list` | all tiles of zoom levels 0 to 3, corner tiles of 15 to 17; short lists with repeated and malformed lines | `CoversTile`, `InsideTheWorld`, `KeyTellsTile`, `EveryTileComes` |
| `row_layout` | styles of two lines with rows of blanks, comments and flags; all sets of metadata fields, all statements | `ColumnsFollowStyle`, `OnlyBadLinesRefused`, `OffsetsAgree`, `FieldsAgree`, `SelectedColumnsExist`, `StyleEnds` |
| `tag_column` | up to two tags with blanks, commas, quotation marks, backslashes and NULL in the server's text; every text of up to three characters that no server writes | `NeverOutOfRange`, `TagsAreThoseSent`, `NoTagLost`, `ParsingEnds` |
| `table` | three places for objects, two connections, two rows | `OneOwner`, `LostOnlyIfDisturbed`, `CutOffOnlyUnasked` |

The four runs of section 4 expect a violation of one property each. Every property has a mutated
definition in the modules (`\* mutant of`) that it detects: what a plausible slip in the code would
look like.

Bounds. Three relations are the least with which a reference goes up, down and round in a circle
past the iterator. Two tiles are enough for what one leaves to the next. Batches of two stand for the
100 of the code: with three ids there are full batches, a last one that is not full and none left
over. Two imports bring the database from one state to another and back or on to a third, in the
middle of an object or between two. Two runs of a generator suffice for a restart after each step;
`MaxRuns` and `MaxUpdates` only bound the checks, the theorems hold for any. One generator has both
tiles and the other the second of them: a tile is exclusive, the other shared. The corner bits 0, 1, 14,
15 and 16 are those around which an `int` is full. A second line of a style shows what the first
leaves behind, a second tag what the first does. With three objects one connection is moved twice, or
two are in use and one of them moves; two rows can be in different transactions. Deadlock is not
checked because the programs end.

Fairness. The generator is sequential and never waits for anything but the answer of a query, so
`WF(Next)` in `TileList`, `RowLayout` and `TagColumn` and `WF(Proceed)` in the data sources say only
that it goes on; a query answers or throws. `Proceed` is `Next` without the failure of a query: a
loop that ends only because a query may fail does not satisfy `Terminates`. In `UpdatedDatabase`
only the generator is fair, the importer may do anything or nothing. In `VectorTile` each generator
has weak fairness of its own steps. Crashes, restarts and the worker have none: nothing in the code
promises them. So `RunsEnd` says that each run ends or crashes.

Hypotheses on those who start the program. Two generators with the same tile in their lists are
allowed, the properties say what survives: of a shared tile a pending job may miss its file, but no
job is lost (`FreshTileHasJob`), without `-f` no two write one file, and when all have ended the file
is complete. `DistinctKeys` (no two tiles of the lists have the same key) holds in the instance of
`jobs` and is not enforced by the code; `jobs_of_other_zooms` shows what happens without it.

## 4. Where documentation and code differ

Each run checks what the documentation says and finds it violated by what the code does; the quoted
lines are in `PROJECT.json` under `findings`.

| run | what the code does |
|---|---|
| `osm2pgsql_recursion` | relations that the rows of the last batch refer to are not fetched: with fewer than 100 missing relations there is no recursion at all |
| `cerepso_orphaned_nodes` | `get_nodes_inside` is not virtual: `-O` never queries the untagged nodes |
| `jobs_of_other_zooms` | the key leaves out the zoom level: cancelling the job of one tile deletes that of another |
| `callback_values` | columns of the style are read behind the tags of ways and relations and never selected; `changeset()` returns the index of its column as a `bool`, so with more than two metadata fields the changeset is read from the second column. `CallbacksAsDocumented` speaks of an object that has both, so the last state of the run shows both; each alone violates it |

Others are in the models, without a run of their own:

* the Cerepso source does not fetch a relation with an id below the iterator that is inserted while
  the loop runs; `GreaterRelationsFollowed` says exactly what it does fetch;
* `m_ways_got` and `m_relations_got` are never filled: ways and relations that are there already are
  fetched again, and `FilesOrdered` shows that the file has them once;
* from zoom level 16 on the shifts of `xy_to_quadtree` overflow an `int` (`Widened`); up to 16
  `KeyTellsTile` still holds;
* `osm_user` is selected with `--metadata=user` and never read: the callbacks have no parameter for it
  and set an empty name, so `FieldsAgree` leaves it out;
* `intermediate_commit` is documented to send a `BEGIN` after the `COMMIT` and does not, so a second
  call finds no transaction;
* a line of the style file with blanks before its comment, or with blanks only, is refused as a line
  with an unknown geometry and ends the program (`OnlyBadLinesRefused`); osm2pgsql accepts it;
* `start_copy` and `create_prepared_statement` do not look at `m_copy_mode`: during a COPY libpq ends
  it, its rows are gone without an exception and `get_copy` ("Is the database connection in COPY mode
  or not?") still says yes; `CutOffOnlyUnasked` says that no other call does this;
* when the server rejects the rows at the end of a COPY, `end_copy` throws with `m_copy_mode` still
  true, and the destructor of `Table` throws once more and ends the program (`DestroyEndsCopy`);
* an assignment inside an expression moves the value from which the south of a bounding box is
  computed (`BoxOf`): there is no buffer in the south, and `CoversTile` holds nevertheless.

## 5. Proofs

All theorems hold for every value of the constants under the named assumptions of the modules: ids
are numbers, databases, options and lists are well typed, styles are sequences of sequences of
strings. `Osm2pgsqlDataAccess` adds that the ids are finitely many (`FiniteIdsAssumption`): a batch
sets the iterator behind its greatest id, and an infinite set has none.

**The tile builder, once for both data sources** (`OSMVectorTileImplProofs`). That written ways have
their nodes, or that nothing unasked is written, is not inductive. `TileInv` adds what holds before
the file is closed:

* a node of a way in the buffer is in the buffer or missing, and so are the members of a relation as
  far as the options follow them (`RefsAccounted`, `MembersAccounted`); what the location handler
  finds is in the buffer (`IndexSound`);
* whatever is missing or in the buffer is asked for by an object of the buffer (`MissingAsked`,
  `GotWelcome`). An id can be asked for by an object that came long before, so this is about the
  buffer, not about the last step;
* each of the six calls that is over has done its work (`PhasesDone`): this needs the order
  relations, ways, nodes, because a later loop would reopen what an earlier one has closed;
* while the file is open each object of the buffer is written or still to write (`FileIsBuffer`),
  in ascending order.

The lemmas say that the callbacks, the loops and `write_file` keep `TileInv`, *if* each call of the
source has done its work when it returns (`CallDone`). That is all a data source has to prove.

* `CerepsoProofs`, first part: `CerepsoInv` is `TileInv` and what each call has read on its way
  (`Reading`, `GreaterGot`). It gives `TypeCorrect`, `WaysAlwaysHaveTheirNodes`,
  `RelationsAlwaysHaveTheirMembers`, `NothingUnaskedWritten`, `FilesAlwaysOrdered` and
  `GreaterRelationsAlwaysFollowed`, the last one about the loop whose body extends the set it walks.
* `Osm2pgsqlProofs`: what a batch holds, and the rows of it that are not yet parsed, is accounted
  for beside the buffer; a way without nodes is never collected. It gives `TypeCorrect`,
  `FilesCompleteAndJustified` (the four properties of files for this source) and
  `NeverWayWithoutNodes`.
* `ImplementsPromise` in both: initial states are initial states of `TileContents`, and each step
  is a step of it or leaves the published files alone. Closing the file is the one step that
  publishes; there the invariant says that the content is acceptable. `KeepsPromise` is the safety
  part, which is all `TileContents` states.

**A database that changes** (`CerepsoProofs`, second part).

* `QueriesMakeRounds`: without imports every step with a single query is a step of
  `CerepsoDataAccess` or none. `QueryInv` says that the row being put together is one the loop has
  reached (`RowInWork`) and that the members collected so far are those of the types asked for, so
  that the last query completes exactly the round the coarse step takes.
* `StayingObjectsAlwaysWritten`, `StayingPartsAlwaysWritten`, `ObjectsAlwaysWereThere`. `TileInv`
  compares all that is collected with one database and breaks with the first import. `ImportInv`
  says the same of the states seen since the tile was begun and of the parts each object was *read*
  with: what was read is collected or noted (`PartsNoted`), what is noted was read (`MissingParts`),
  what is collected was there at some time (`GotThere`). The loops have got what stays in every
  state seen up to their iterator (`WaysWalked`, `NodesWalked`). An import only adds a state to
  `seen`, so it weakens what has to be there; it is the steps between two queries of one object
  that need care: a row in work was in the database when it was asked for (`InWork`), not any more
  when its second query is answered. A node asked for in the first store without success was absent
  from that store in some state seen, so it does not stay there.

**Jobs and files** (`VectorTileProofs`): `TypeCorrect`, `JobsMatchFiles`, `NoTileForgotten`,
`NoTileQueuedTwice`, `OneWriter`, `SpoiledReadsRepeated`, `FilesCompleteInTheEnd`; only
`NoTileForgotten` and `SpoiledReadsRepeated` assume `DistinctKeys`. The invariants add the program
points: between `cancel_job` and `add_job` the tile of a generator has no pending job of its own,
which is why its file may be removed and written; `ListsSound` says that what is left of a list
belongs to its generator, so of an exclusive tile no other can add a job. Without `-f` a file that
is open belongs to the one who opened it (`WriterAlone`). For the end of all lists, a tile whose
file is not complete is attended (`FilesAttended`): some generator has it in the rest of its list or
is writing into the file under its name. A generator that removes the file of another attends the
tile itself, and one that finds a file it could not remove leaves it to its owner. The liveness of
restarts is not needed.

**Rows** (`RowLayoutProofs`): `OffsetsAlwaysAgree`, `FieldsAlwaysAgree` and
`SelectedColumnsAlwaysExist`, for any style file and all sets of fields. `RowOfObjects` says where
each part of a selected row is, by putting its parts together one after the other; the offsets the
parsers count are compared with these places. `FieldsSelected` and `MetadataColumnsTaken` say of the
two lists kept apart in the code, of `MetadataFields` and of `Columns`, which fields they have. The
state part (`LayoutInv`) is that a row is what its statement selects, and that no column is added
once a statement is prepared.

**The style file** (in `RowLayoutProofs`): `ColumnsAlwaysFollowStyle` and `GoodLinesNeverRefused`,
for style files of any number of lines of any length, from `StylesAssumption` alone. `StyleInv` says
that the columns are those the lines read so far ask for (`FollowAll`; without the line in work,
`FollowBefore`), that the tokens taken are the words of the line that begin before `pos`, and that
`pos` is not inside a word (`Splitting`). When the loop ends, by the end of the line or by the fourth
token, the tokens are all the words the rest of the parser looks at (`Split`). Words and lines are
counted by `Rank`, how many there are up to one: a step over a blank leaves the count alone and a
token adds one (`BlankNext`, `TokenBeforeBlank`, `LastToken`, `OneLineMore`), so again no induction
over the line is needed. That `find_first_of` returns the first position is `Found`; the least of a
set of numbers (`Least`) comes from the library's theorem on well-founded orders. `FlagFound` says
that a word is a flag exactly when the loop of `parse_flags` cuts it out between its commas.

**List of tiles** (`TileListProofs`): `TypeCorrect`, `BoxCoversTile` and `BoxInsideTheWorld` for
every zoom level, `AdditionsNeverCarry` and `KeysTellTilesApart` from `KeySoFar`, which says which
bits of the key are set after `z` passes. `AdditionsNeverCarry` (`NoCarry`) is why a key may be the
union of its terms in the model.

**Arrays and hstores** (`TagColumnProofs`): `TypeCorrect` and `ParsersStayInside`, for any text of
any length: `PositionsSound` says that the ends of an element lie before the position, which lies in
the text. `TagsAlwaysThoseSent` and `NoTagEverLost` say that what the server sends is read as the tags
in the database, for any number of tags and any keys and values. They rest on `ServerAssumption`. The
invariant `ReadingInv` says for each program point which tag is being read and how far: the position
is before or behind it, or before the i-th character of its key or value, or between that and its
backslash (`Inside`), and the i - 1 characters before are in the buffer (`PartRead`). `InsideStep` is
the step of both parsers over a quoted string; `Offset` counts the backslashes, so that no induction
over the text is needed: the cardinality of a set grows by one or not at all. `ArrayLayout` and
`HStoreLayout` say what surrounds an element or a pair. The array parser takes two passes, one to find
the end of the element and one to copy it; the copy is complete because both count the same
backslashes (`ElementCopied`). A word without quotation marks has no character that ends it, which is
what `NeedsQuotes` promises. That the limit of `has_next` of hstores leaves no pair is
`HStoreHasNextReads`: a pair has seven characters when both of its strings are quoted, and one that is
NULL eight at least.

**Connections** (`TableProofs`): `ConnectionsOwnedOnce`, `NoRowLostUndisturbed` and the action
property `OnlyUncheckedCallsCutOff`. `OwnerInv` adds that a destructor that sends commands belongs
to an object with a name. `RowsInv` adds that an owner knows the COPY and the transaction of its
connection, that its destructor has ended what it has passed, and that a row on its way to the
commit is in a COPY or in an active transaction unless the connection was disturbed: so nothing is
left to lose when the connection is finished.

What proofs that failed said about the models. The arms of the CASE in `CallAfter` overlapped (the
calls for missing objects that options skip): CASE is then a choice, and TLC takes the first arm
while the proofs may not; the arms are disjoint now. `SelectedColumnsExist` told a coordinate from a
column by the first word of its name, which a style with a column `ST_X` breaks, and no style of the
instance had one; it now compares with the coordinates of columns that exist. In
`SelectMissingBatch` the greatest id of a batch is stated by what it is instead of by a library
operator. The words of a line were a sequence chosen among all by being sorted; now each is stated
by what it is, and the columns are compared one by one with the lines that ask for them.
`SelectedFields` and `MetadataColumns` ask about one field after the other, as `select_str` and
`Columns` do.

Every safety property of the passing runs is stated by a theorem. Only model-checked:

* liveness (`Terminates`, `UpdatedTerminates`, `RunsEnd`, `EveryTileComes`, `StyleEnds`,
  `ParsingEnds`), which the prover does not reach;
* the four properties of section 4, which do not hold.

`NoCarry`, `FilesCompleteAndJustified` and the types of the osm2pgsql source, jobs, lists, parsers
and tables are only proved: as such they have no run.

## 6. What is not modelled

* The projection to degrees and the rounding of the box to the text of query parameters; tags of
  objects beyond their columns, roles, metadata values and locations: data no property depends on.
* `operator!=` of `BoundingBox`, which nothing calls; the text of the creation date of a job.
* The protocol of the worker beyond taking and ending a job, and how the importer works: they are not
  in the repository.
* The columns of the osm2pgsql tables; the table of untagged nodes with a geometry (`-u`), which
  `Columns` does not describe and `SelectedColumnsExist` leaves out.
* Objects of `Table` without a connection, which only tests make, and the types of tables and filters
  of tags only the importer uses. What freed memory holds when `check_and_free_result` asks a result
  for its status after it has been freed: the model takes the outcome that the call throws.
* Conversions of array elements to other types than strings: they have no state.
* Option parsing fills the configuration the models start from; the debug output is left out.

## 7. Plan

Done, in this order: the tile builder with the Cerepso source and its proofs; the osm2pgsql source;
the promise both keep; jobs and files with proofs; the key; the columns; the bounding box; the
database connection with proofs; shared tiles and disturbed readers; the list of tiles with box and
key in one module; style file and columns of the tables; arrays and hstores with proofs; the database
that changes between queries with the proof that rounds are atomic without it.

Then the proofs: `TileInv` for both data sources with the step simulation of the promise; disturbed
readers and the end of all lists; the database that changes; the rows; that the tags read are those
sent; the words of the style file and its columns.

Next models: the osm2pgsql source with a database that changes; the columns of its tables.

## 8. How to run

    tlc -config MCCerepso.cfg MCCerepso
    tlapm CerepsoProofs.tla

`PROJECT.json` lists every run with its module and configuration, the mutated definitions each
property is known to detect, and the lines of the code behind each definition.

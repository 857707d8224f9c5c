------------------------------ MODULE Slicing -------------------------------
(***************************************************************************)
(* How a source is cut into jobs.  The manager plans: it asks the store    *)
(* for counts, bounds, keys or cursors, never for the documents.  Each job *)
(* carries its part of the plan, and a worker fetches that part later, in  *)
(* any order (in local mode, while the plan is still being made).          *)
(* Documents come, go and change in the store all the while.  One fetch is *)
(* one step: it reads a point in time, a scroll, one query, or single keys *)
(* whose outcomes do not depend on each other.                             *)
(*                                                                         *)
(* One module for the sources that split: Elasticsearch with windows of a  *)
(* snapshot, value ranges, sliced scroll and pages of a composite          *)
(* aggregation; SQL id ranges; S3 keys; lists of IDs.                      *)
(*                                                                         *)
(* Planning is the protocol by which a plan is saved.  The two modules     *)
(* share no name, so that PlanningProofs can extend both.                  *)
(***************************************************************************)
EXTENDS Naturals, Sequences, FiniteSets, FiniteSetsExt, Functions

CONSTANTS
    N,              \* documents there may be
    KeyMaps,        \* sort keys (id column, timestamp, bucket): Docs -> Nat, 0: no such field, NULL
    NewKeys,        \* sort keys an update may set
    IdLists,        \* lists of IDs in a request (input_ids)
    Modes,          \* ways of splitting
    Sizes,          \* docs_per_job, num_slices, batch_size, page_size
    SliceLimits,    \* max_slices
    PageSizes,      \* documents per page of the planning scan; IDs per job of an ID source
    Matching,       \* documents that match S3's file pattern
    MaxChanges      \* bound: inserts, deletes, updates of a sort key, losses of the point in time

Docs == 1..N
IdModes == {"ids", "ids_params", "ids_batch"}
AllModes == {"windows", "range", "slices", "composite", "sql", "sql_whole", "s3"} \cup IdModes

ASSUME NAssumption == N \in Nat
ASSUME KeyMapsAssumption == KeyMaps \subseteq [Docs -> Nat] /\ NewKeys \subseteq Nat
ASSUME IdListsAssumption == IdLists \subseteq Seq(Docs)
ASSUME ModesAssumption == Modes \subseteq AllModes
ASSUME SizesAssumption == Sizes \cup SliceLimits \cup PageSizes \subseteq Nat \ {0}
ASSUME MatchingAssumption == Matching \subseteq Docs
ASSUME MaxChangesAssumption == MaxChanges \in Nat

VARIABLES
    mode, order, nulls, size, max_slices, page_size, input,     \* the source's configuration
    present, key,   \* documents in the store, their sort keys
    plan,           \* step of split()
    count,          \* what the count said
    pit, pit_key,   \* the point in time the plan opened: documents and their keys then
    pit_lost,       \* the store forgot it
    seen, cursors,  \* the planning scan: documents seen, starts of the windows found
    token,          \* the last key of a paged listing
    jobs,
    fetched, failed, read,  \* jobs fetched, jobs that raised SourceError, <<job, document>> read
    changes,
    stable,         \* history: documents there from the start and ever since
    moved,          \* history: documents whose key changed after the plan was made
    raced           \* history: the store changed between the count and the point in time

config == <<mode, order, nulls, size, max_slices, page_size, input>>
store == <<present, key, pit_lost, changes, stable, moved, raced>>
snapshot == <<pit, pit_key>>
results == <<fetched, failed, read>>
split_vars == <<config, store, results, plan, count, snapshot, seen, cursors, token, jobs>>

SplitInit ==
    /\ mode \in Modes
    /\ key \in CASE mode = "s3" -> {k \in KeyMaps : IsInjective(k) /\ 0 \notin Range(k)}
                 [] mode \in IdModes -> {[d \in Docs |-> 0]}
                 [] OTHER -> KeyMaps
    /\ order \in IF mode = "range" THEN {"asc", "desc"} ELSE {"asc"}
    /\ nulls \in IF mode = "range" THEN BOOLEAN ELSE {FALSE}
    /\ size \in Sizes
    /\ max_slices \in IF mode \in {"windows", "range"} THEN SliceLimits ELSE {1}
    /\ page_size \in IF mode \in {"windows", "range", "ids", "ids_params"} THEN PageSizes ELSE {1}
    /\ input \in IF mode \in IdModes THEN IdLists ELSE {<<>>}
    /\ present \in SUBSET Docs
    /\ plan = "start" /\ count = 0 /\ pit = {} /\ pit_key = key /\ pit_lost = FALSE /\ seen = 0 /\ cursors = {} /\ token = 0
    /\ jobs = {} /\ fetched = {} /\ failed = {} /\ read = {}
    /\ changes = 0 /\ stable = present /\ moved = {} /\ raced = FALSE

\* The order of the sort: documents without the field come last in both.
precedes(a, b) == a # 0 /\ (b = 0 \/ IF order = "asc" THEN a < b ELSE a > b)

\* With a tiebreaker.
before(d, e) ==
    \/ precedes(pit_key[d], pit_key[e])
    \/ pit_key[d] = pit_key[e] /\ d < e

\* The position of a document in the point in time, from 1.
pos(d, docs) == Cardinality({e \in docs : before(e, d)}) + 1

ceil_div(a, b) == (a + b - 1) \div b

Keys(docs) == {key[d] : d \in docs}

\* The n smallest members of a set of keys.
first(n, keys) == {k \in keys : Cardinality({l \in keys : l < k}) < n}

planned(js) == plan' = "done" /\ jobs' = jobs \cup js

yield(j) == jobs' = jobs \cup {j}

----------------------------------------------------------------------------
(* Elasticsearch: ElasticSource.split *)

\* The source itself as the only job.
whole == [kind |-> "whole"]

num_windows(cnt) == Min({ceil_div(cnt, size), max_slices})

\* Mutant: the windows' size is rounded down.
window_size_down == count \div num_windows(count)

window_size == ceil_div(count, num_windows(count))

\* No documents, no job; one window or slice is the whole query.
_count_documents ==
    /\ plan = "start" /\ mode \in {"windows", "range", "slices"}
    /\ count' = Cardinality(present)
    /\ LET parts == IF mode = "slices" THEN size ELSE num_windows(count') IN
       CASE count' = 0 -> planned({})
         [] count' # 0 /\ parts <= 1 -> planned({whole})
         [] OTHER -> plan' = "open" /\ UNCHANGED jobs
    /\ UNCHANGED <<config, store, results, snapshot, seen, cursors, token>>

open_point_in_time ==
    /\ plan = "open"
    /\ pit' = present /\ pit_key' = key
    /\ cursors' = {0}
    /\ IF mode = "slices"
       THEN planned({[kind |-> "slice", id |-> i] : i \in 0..(size - 1)})
       ELSE plan' = "scan" /\ UNCHANGED jobs
    /\ UNCHANGED <<config, store, results, count, seen, token>>

\* After a page: the position of every window_size-th document, at most num_windows cursors.
cursors_to(last) == {k * window_size : k \in 0..(num_windows(count) - 1)} \cap 0..last

scanned == Cardinality(cursors) = num_windows(count) \/ seen = Cardinality(pit)

\* One page of the pre-scan of the sort keys.
_scan_window_cursors ==
    /\ plan = "scan" /\ ~scanned /\ ~pit_lost
    /\ seen' = Min({seen + page_size, Cardinality(pit)})
    /\ cursors' = cursors \cup cursors_to(seen')
    /\ UNCHANGED <<config, store, results, plan, count, snapshot, token, jobs>>

\* The search of a point in time that is gone raises: the plan fails.
scan_raises ==
    /\ plan = "scan" /\ ~scanned /\ pit_lost
    /\ plan' = "failed"
    /\ UNCHANGED <<config, store, results, count, snapshot, seen, cursors, token, jobs>>

cursor_keys == {pit_key[d] : d \in {e \in pit : pos(e, pit) \in cursors}}

\* The key's values at the cursors: equal ones make one boundary.
boundaries == cursor_keys \ {0}

\* 0 stands for None: the edge before the first boundary and after the last.  A window that
\* ends at a document without the field has no upper bound either.
follows(a, b) ==
    LET later == {c \in boundaries : a = 0 \/ precedes(a, c)} IN
    IF later = {} THEN b = 0 ELSE b \in later /\ \A c \in later : ~precedes(c, b)

\* The window after a cursor at a document without the field.
past_missing == [kind |-> "past_missing"]

_split_range_windows ==
    {[kind |-> "range", after |-> a, upto |-> CHOOSE b \in boundaries \cup {0} : follows(a, b)] :
        a \in boundaries \cup {0}}
    \cup {past_missing : k \in cursor_keys \cap {0}}

split ==
    /\ plan = "scan" /\ scanned
    /\ planned(IF mode = "windows"
               THEN {[kind |-> "window", search_after |-> c, size |-> window_size] : c \in cursors}
               ELSE _split_range_windows)
    /\ UNCHANGED <<config, store, results, count, snapshot, seen, cursors, token>>

\* The buckets of a composite aggregation after a key, in its order.
_composite_page(after) == first(size, {k \in Keys(present) : k > after})

\* One page of the scan: its job keeps only where the page begins.
_split_composite ==
    /\ plan = "start" /\ mode = "composite"
    /\ LET page == _composite_page(token) IN
       /\ IF page = {} THEN UNCHANGED jobs ELSE yield([kind |-> "page", after |-> token])
       /\ IF Cardinality(page) < size
          THEN plan' = "done" /\ UNCHANGED token
          ELSE plan' = plan /\ token' = Max(page)
    /\ UNCHANGED <<config, store, results, count, snapshot, seen, cursors>>

----------------------------------------------------------------------------
(* The other sources *)

\* The starts of the id ranges: lo, lo + size, ... up to hi.
id_windows(lo, hi) == {lo + i * size : i \in 0..((hi - lo) \div size)}

\* SqlSource.split without an id column: a probe for a row.
split_sql_whole ==
    /\ plan = "start" /\ mode = "sql_whole"
    /\ planned(IF present = {} THEN {} ELSE {whole})
    /\ UNCHANGED <<config, store, results, count, snapshot, seen, cursors, token>>

\* SqlSource.split: MIN and MAX of the id column, which pass over NULL.
split_sql ==
    /\ plan = "start" /\ mode = "sql"
    /\ LET ids == Keys(present) \ {0} IN
       planned(IF ids = {} THEN {}
               ELSE {[kind |-> "ids", lo |-> c, hi |-> c + size] : c \in id_windows(Min(ids), Max(ids))})
    /\ UNCHANGED <<config, store, results, count, snapshot, seen, cursors, token>>

\* S3Source.split: one page of the listing; a page without a matching key makes no job.
split_s3 ==
    /\ plan = "start" /\ mode = "s3"
    /\ LET left == {d \in present : key[d] > token}
           page == {d \in left : key[d] \in first(size, Keys(left))}
           keys == page \cap Matching
       IN /\ IF keys = {} THEN UNCHANGED jobs ELSE yield([kind |-> "keys", keys |-> keys])
          /\ IF page = left
             THEN plan' = "done" /\ UNCHANGED token
             ELSE plan' = plan /\ token' = Max(Keys(page))
    /\ UNCHANGED <<config, store, results, count, snapshot, seen, cursors>>

\* The chunks of at most n of some consecutive positions of a list.
chunk(ps, n) ==
    {{p \in ps : Cardinality({q \in ps : q < p}) \div n = i} : i \in 0..Len(input)} \ {{}}

\* IdBasedPipeline.define_jobs: the request's IDs in batches, repeated ones too.
batches == chunk(DOMAIN input, size)

\* IDBasedAPISource.split and _get_all_ids, for the source of one batch: its ids in chunks; a
\* source without ids takes the whole list of the request; one without {id} is one job.
chunks(b) ==
    CASE mode = "ids"        -> chunk(b, page_size)
      [] mode = "ids_params" -> chunk(DOMAIN input, page_size)
      [] mode = "ids_batch"  -> {b}

split_ids ==
    /\ plan = "start" /\ mode \in IdModes
    /\ planned(UNION {{[kind |-> "per_id", batch |-> b, ids |-> c] : c \in chunks(b)} : b \in batches})
    /\ UNCHANGED <<config, store, results, count, snapshot, seen, cursors, token>>

----------------------------------------------------------------------------
(* Workers *)

\* Mutant: the range includes its lower bound.
_range_clause_closed(k, after, upto) ==
    k # 0 /\ (after = 0 \/ ~precedes(k, after)) /\ (upto = 0 \/ ~precedes(upto, k))

\* The window (after, upto] in the sort order; no document without the field is in a range.
_range_clause(k, after, upto) ==
    k # 0 /\ (after = 0 \/ precedes(after, k)) /\ (upto = 0 \/ ~precedes(upto, k))

\* What the sources' fetch returns for one job: consecutive documents or a
\* hash slice of the snapshot, a range read afresh, a page read again, a range
\* of ids, the listed objects, what exists of the ids.  The sort value of a
\* document without the field is None for a keyword, so that the range after it
\* has no bound, and for a number the last one there is.
_fetch_window(j) == {d \in pit : pos(d, pit) \in (j.search_after + 1)..(j.search_after + j.size)}
_fetch_slice(j) == {d \in pit : d % size = j.id}
_fetch_range_window(j) == {d \in present : _range_clause(key[d], j.after, j.upto)}
_fetch_past_missing == IF nulls THEN {d \in present : _range_clause(key[d], 0, 0)} ELSE {}
_fetch_composite(j) == {d \in present : key[d] \in _composite_page(j.after)}
fetch_sql(j) == {d \in present : key[d] \in j.lo..(j.hi - 1)}
fetch_s3(j) == j.keys
fetch_ids(j) == {input[p] : p \in j.ids} \cap present

records(j) ==
    CASE j.kind = "whole"  -> present
      [] j.kind = "window" -> _fetch_window(j)
      [] j.kind = "slice"  -> _fetch_slice(j)
      [] j.kind = "range"  -> _fetch_range_window(j)
      [] j.kind = "past_missing" -> _fetch_past_missing
      [] j.kind = "page"   -> _fetch_composite(j)
      [] j.kind = "ids"    -> fetch_sql(j)
      [] j.kind = "keys"   -> fetch_s3(j)
      [] j.kind = "per_id" -> fetch_ids(j)

\* A point in time that is gone, an object that is gone; an ID that is gone is a 404: no record.
fetch_raises(j) ==
    \/ j.kind \in {"window", "slice"} /\ pit_lost
    \/ j.kind = "keys" /\ ~j.keys \subseteq present

fetch(j) ==
    /\ j \in jobs \ (fetched \cup failed)
    /\ IF fetch_raises(j)
       THEN failed' = failed \cup {j} /\ UNCHANGED <<fetched, read>>
       ELSE /\ fetched' = fetched \cup {j}
            /\ read' = read \cup {<<j, d>> : d \in records(j)}
            /\ UNCHANGED failed
    /\ UNCHANGED <<config, store, plan, count, snapshot, seen, cursors, token, jobs>>

----------------------------------------------------------------------------
(* The store *)

change ==
    /\ changes < MaxChanges
    /\ changes' = changes + 1
    /\ UNCHANGED <<config, results, plan, count, snapshot, seen, cursors, token, jobs>>

insert(d) ==
    /\ d \notin present
    /\ present' = present \cup {d}
    /\ raced' = (raced \/ plan = "open")
    /\ UNCHANGED <<key, stable, moved, pit_lost>>
    /\ change

delete(d) ==
    /\ d \in present
    /\ present' = present \ {d}
    /\ stable' = stable \ {d}
    /\ raced' = (raced \/ plan = "open")
    /\ UNCHANGED <<key, moved, pit_lost>>
    /\ change

\* A sort key, an id column or a bucket changes; an object's name and an ID do not.
update(d, k) ==
    /\ d \in present /\ k # key[d] /\ mode \notin IdModes \cup {"s3"}
    /\ key' = [key EXCEPT ![d] = k]
    /\ moved' = IF plan = "done" THEN moved \cup {d} ELSE moved
    /\ UNCHANGED <<present, stable, raced, pit_lost>>
    /\ change

\* A restart of the store, or a keep-alive that ran out.
lose_pit ==
    /\ ~pit_lost /\ pit # {}
    /\ pit_lost' = TRUE
    /\ UNCHANGED <<present, key, stable, moved, raced>>
    /\ change

over == plan = "failed" \/ (plan = "done" /\ fetched \cup failed = jobs)

SplitNext ==
    \/ _count_documents \/ open_point_in_time \/ _scan_window_cursors \/ scan_raises \/ split
    \/ _split_composite \/ split_sql_whole \/ split_sql \/ split_s3 \/ split_ids
    \/ \E j \in jobs : fetch(j)
    \/ \E d \in Docs : insert(d) \/ delete(d)
    \/ \E d \in Docs, k \in NewKeys : update(d, k)
    \/ lose_pit
    \/ over /\ UNCHANGED split_vars

SplitSpec == SplitInit /\ [][SplitNext]_split_vars

----------------------------------------------------------------------------
(* Properties *)

\* What there is to read: the matching objects, what the request names, everything.
target ==
    CASE mode = "s3" -> Matching
      [] mode \in IdModes -> Range(input)
      [] OTHER -> Docs

readers(d) == {r[1] : r \in {x \in read : x[2] = d}}

\* Ranges and pages are read afresh: a document whose key changes after the plan moves from one
\* to another, and the pages of a composite aggregation move with every change of the buckets.
shifted(d) ==
    \/ mode \in {"range", "sql"} /\ d \in moved
    \/ mode = "composite" /\ changes > 0

\* What the plan gives to two jobs: a repeated ID, the list of the request in every batch, and
\* the range without bounds that a keyword field missing at a cursor makes.
doubled(d) ==
    \/ mode \in IdModes /\ \E p, q \in DOMAIN input : p # q /\ input[p] = d /\ input[q] = d
    \/ mode = "ids_params" /\ \E a, b \in batches : a # b
    \/ nulls /\ past_missing \in jobs

\* What no range and no bucket contains: a document without the field, a NULL id.
unkeyed(d) == mode \in {"range", "sql", "composite"} /\ key[d] = 0

\* No document is delivered by two jobs, whatever comes, goes or changes between the plan and
\* the fetches (elastic.py: "Adjacent windows share boundary cursors, so there is no overlap or
\* gap"; "none is skipped or read twice"), but for those that move between two live reads and
\* those the plan itself names twice.
NoOverlap == \A d \in Docs : shifted(d) \/ doubled(d) \/ Cardinality(readers(d)) <= 1

\* When all jobs were fetched, a document that was there all the time was read, unless a job
\* raised SourceError (and is retried or reported), the store changed between
\* _count_documents and open_point_in_time, the document moved between two live reads, or it
\* has no value of the field that ranges and buckets are made of.
NothingMissed ==
    plan = "done" /\ fetched = jobs /\ ~(mode = "windows" /\ raced)
        => \A d \in stable \cap target : shifted(d) \/ unkeyed(d) \/ readers(d) # {}

\* What window_mode="snapshot" is documented to give: "so the whole execution sees the index
\* as it was when it started" (elastic.py).
SnapshotComplete ==
    mode = "windows" /\ plan = "done" /\ fetched = jobs => \A d \in stable : readers(d) # {}

=============================================================================

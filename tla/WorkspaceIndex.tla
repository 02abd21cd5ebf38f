--------------------------- MODULE WorkspaceIndex ---------------------------
(***************************************************************************)
(* The index of a workspace (machboost/workspace.py, class WorkspaceStore) *)
(* over a directory that changes while it is read.                         *)
(*                                                                         *)
(* index holds _lock from beginning to end, writes in one transaction of   *)
(* the database, and only then replaces the metadata, which has the        *)
(* revision.  query reads the metadata and the committed database without  *)
(* the lock, and takes it for the capsule alone.  The process may end at   *)
(* any moment; the database and the metadata stay.                         *)
(*                                                                         *)
(* A text is a number, and so is the stamp of a file (its size and its     *)
(* modification time): every edit gives a new one.  A digest is the text,  *)
(* and a revision the texts of all files it was computed from.             *)
(***************************************************************************)
EXTENDS Integers, FiniteSets

CONSTANTS Files, Readers,
          MaxEdits,     \* bound on the edits of files
          MaxIndexes,   \* bound on the runs of index
          MaxCrashes    \* bound on the ends of the process

Absent == 0             \* a file that is not there
Binary == MaxEdits + 1  \* a file _read_text_file refuses
Texts  == 0 .. MaxEdits + 1
Rows   == [Files -> [text : Texts, stamp : 0 .. MaxEdits]]
NoRow  == [text |-> Absent, stamp |-> 0]
Empty  == [f \in Files |-> NoRow]
EmptyIndex == [f \in Files |-> Absent]     \* the revision of an empty index

VARIABLES
    disk,       \* the directory
    edits,      \* edits so far
    rows,       \* the files table, as committed
    meta,       \* workspace.json: whether it exists, and its revision
    pc,         \* where index is: it holds _lock unless "idle"
    work,       \* the rows of its transaction
    todo,       \* files it has discovered and not yet read
    found,      \* files it has discovered
    stat,       \* the file it has looked at, and the stamp it saw
    runs,       \* runs of index so far
    cache,      \* _capsule_cache: revision and map
    answer,     \* what a query has so far: revision, texts of its hits, map
    crashes,    \* ends of the process so far
    settled,    \* history: no file has been edited since index began
    torn        \* history: the process ended between commit and metadata

disks   == <<disk, edits>>
stored  == <<rows, meta>>
indexer == <<pc, work, todo, found, stat, runs>>
wvars   == <<disks, stored, indexer, cache, answer, crashes, settled, torn>>

Revision(r) == [f \in Files |-> r[f].text]
NoAnswer    == [at |-> "idle", revision |-> EmptyIndex, hits |-> EmptyIndex]
NoStat      == [file |-> CHOOSE f \in Files : TRUE, stamp |-> 0]

Init ==
    /\ disk = [f \in Files |-> NoRow] /\ edits = 0
    /\ rows = Empty
    /\ meta = [there |-> FALSE, revision |-> EmptyIndex]
    /\ pc = "idle" /\ work = Empty /\ todo = {} /\ found = {} /\ stat = NoStat
    /\ runs = 0
    /\ cache = {}
    /\ answer = [r \in Readers |-> NoAnswer]
    /\ crashes = 0
    /\ settled = TRUE /\ torn = FALSE

\* The directory: a file is written, with the old text or another, becomes one
\* that cannot be read as text, or goes.
Edit ==
    /\ edits < MaxEdits
    /\ \E f \in Files : \E text \in {Absent, Binary, edits + 1, disk[f].text} :
         disk' = [disk EXCEPT ![f] = [text |-> text, stamp |-> edits + 1]]
    /\ edits' = edits + 1
    /\ settled' = FALSE
    /\ UNCHANGED <<stored, indexer, cache, answer, crashes, torn>>

-----------------------------------------------------------------------------
(* register, remove and index.                                             *)

\* register keeps the revision of the workspace that is there, and the database.
Register ==
    /\ pc = "idle" /\ ~meta.there
    /\ meta' = [meta EXCEPT !.there = TRUE]
    /\ cache' = {}
    /\ UNCHANGED <<disks, rows, indexer, answer, crashes, settled, torn>>

Remove ==
    /\ pc = "idle" /\ meta.there
    /\ meta' = [there |-> FALSE, revision |-> EmptyIndex]
    /\ rows' = Empty /\ cache' = {} /\ torn' = FALSE
    /\ UNCHANGED <<disks, indexer, answer, crashes, settled>>

Present == {f \in Files : disk[f].text # Absent}

Begin ==
    /\ pc = "idle" /\ meta.there /\ runs < MaxIndexes
    /\ pc' = "files" /\ work' = rows
    /\ found' = Present /\ todo' = Present /\ stat' = NoStat
    /\ runs' = runs + 1
    /\ settled' = TRUE
    /\ UNCHANGED <<disks, stored, cache, answer, crashes, torn>>

SameStamp(f) == work[f] # NoRow /\ work[f].stamp = disk[f].stamp

\* The stamp of a file is taken first and its text read later.  A file that has
\* gone meanwhile is passed over, and so is one with the stamp of its row.
LookAt(f) ==
    /\ pc = "files" /\ f \in todo
    /\ IF disk[f].text = Absent \/ SameStamp(f)
       THEN /\ todo' = todo \ {f}
            /\ UNCHANGED <<pc, stat, torn>>
       ELSE /\ pc' = "read" /\ stat' = [file |-> f, stamp |-> disk[f].stamp]
            /\ UNCHANGED todo
    /\ UNCHANGED <<disks, stored, work, found, runs, cache, answer, crashes, settled, torn>>

NewRow(f) == [text |-> disk[f].text, stamp |-> stat.stamp]

\* A text that cannot be read takes its row away; one with the digest of the row
\* changes the stamp alone.
Read ==
    /\ pc = "read"
    /\ LET f == stat.file
       IN  /\ work' = [work EXCEPT ![f] =
                         IF disk[f].text \in {Absent, Binary} THEN NoRow
                         ELSE NewRow(f)]
           /\ todo' = todo \ {f}
    /\ pc' = "files" /\ stat' = NoStat
    /\ UNCHANGED <<disks, stored, found, runs, cache, answer, crashes, settled, torn>>

\* Rows of files that were not discovered go, and the transaction is committed.
Commit ==
    /\ pc = "files" /\ todo = {}
    /\ rows' = [f \in Files |-> IF f \in found THEN work[f] ELSE NoRow]
    /\ pc' = "write" /\ work' = Empty /\ found' = {}
    /\ UNCHANGED <<disks, meta, todo, stat, runs, cache, answer, crashes, settled, torn>>

\* The revision is computed from the database that was committed.
WriteMetadata ==
    /\ pc = "write"
    /\ meta' = [there |-> TRUE, revision |-> Revision(rows)]
    /\ cache' = {} /\ torn' = FALSE
    /\ pc' = "idle"
    /\ UNCHANGED <<disks, rows, work, todo, found, stat, runs, answer, crashes, settled>>

StopIndexing == /\ pc' = "idle" /\ work' = Empty /\ todo' = {} /\ found' = {} /\ stat' = NoStat

\* _check_cancelled raises between two files: the transaction is not committed.
CancelIndex ==
    /\ pc = "files" /\ todo # {}
    /\ StopIndexing
    /\ UNCHANGED <<disks, stored, runs, cache, answer, crashes, settled, torn>>

Crash ==
    /\ crashes < MaxCrashes
    /\ crashes' = crashes + 1
    /\ StopIndexing
    /\ cache' = {} /\ answer' = [r \in Readers |-> NoAnswer]
    /\ torn' = (torn \/ pc = "write")
    /\ UNCHANGED <<disks, stored, runs, settled>>

-----------------------------------------------------------------------------
(* query and capsule.                                                      *)

ReadMetadata(r) ==
    /\ answer[r].at = "idle" /\ meta.there
    /\ answer' = [answer EXCEPT ![r] = [NoAnswer EXCEPT !.at = "hits",
                                                        !.revision = meta.revision]]
    /\ UNCHANGED <<disks, stored, indexer, cache, crashes, settled, torn>>

\* The rows that match: the database may have gone with its directory.
ReadHits(r) ==
    /\ answer[r].at = "hits"
    /\ answer' = [answer EXCEPT ![r] =
                    IF meta.there THEN [@ EXCEPT !.at = "capsule", !.hits = Revision(rows)]
                    ELSE NoAnswer]
    /\ UNCHANGED <<disks, stored, indexer, cache, crashes, settled, torn>>

\* Mutant: the capsule is built without the lock.
NoLock == TRUE

LockIsFree == pc = "idle"

\* capsule reads the metadata again, and caches the map under the revision.
Capsule(r) ==
    /\ answer[r].at = "capsule" /\ LockIsFree
    /\ cache' = IF meta.there /\ \A c \in cache : c.revision # meta.revision
                THEN cache \cup {[revision |-> meta.revision, map |-> Revision(rows)]}
                ELSE cache
    /\ answer' = [answer EXCEPT ![r] = NoAnswer]
    /\ UNCHANGED <<disks, stored, indexer, crashes, settled, torn>>

Done ==
    /\ edits = MaxEdits /\ runs = MaxIndexes /\ pc = "idle"
    /\ \A r \in Readers : answer[r].at = "idle"
    /\ UNCHANGED wvars

Next ==
    \/ Edit \/ Register \/ Remove \/ Begin \/ Read \/ Commit \/ WriteMetadata
    \/ CancelIndex \/ Crash \/ Done
    \/ \E f \in Files : LookAt(f)
    \/ \E r \in Readers : ReadMetadata(r) \/ ReadHits(r) \/ Capsule(r)

Spec == Init /\ [][Next]_wvars

-----------------------------------------------------------------------------
(* Properties.                                                             *)

TypeOK ==
    /\ disk \in Rows /\ edits \in 0 .. MaxEdits
    /\ rows \in Rows /\ work \in Rows
    /\ meta \in [there : BOOLEAN, revision : [Files -> Texts]]
    /\ pc \in {"idle", "files", "read", "write"}
    /\ todo \subseteq found /\ found \subseteq Files
    /\ cache \subseteq [revision : [Files -> Texts], map : [Files -> Texts]]
    /\ runs \in 0 .. MaxIndexes /\ crashes \in 0 .. MaxCrashes

Readable(f) == disk[f].text \notin {Absent, Binary}

\* An index that ends while nobody edits has the text of every file, whatever was
\* edited during the indexes before: an edit between the look at a file and the
\* reading of it, or in an index that was cancelled or cut off, is found by its
\* stamp the next time.
IndexFollowsDisk ==
    pc = "write" /\ settled =>
        \A f \in Files : rows[f].text = IF Readable(f) THEN disk[f].text ELSE Absent

\* The map a prompt begins with is that of the revision it is cached under; only
\* a process that ended between the commit and the metadata leaves a revision
\* behind that is not the database's.
MapsMatchRevision ==
    ~torn => \A c \in cache : c.map = c.revision
=============================================================================

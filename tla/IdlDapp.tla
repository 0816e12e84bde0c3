------------------------------ MODULE IdlDapp ------------------------------
(***************************************************************************)
(* Uploading an IDL and listing the IDLs.  multer stores the file under    *)
(* uploads/ with the time and its own name, the controller reads it back,  *)
(* the service looks for the hash and saves the row, and the interceptor   *)
(* deletes the file if all that went well.  A reader fetches page after    *)
(* page of the list, the newest first, while rows are added.  The order is *)
(* by created_at and has no second column to break a tie: rows are taken   *)
(* to have different times.                                                *)
(***************************************************************************)
EXTENDS Integers, Sequences, SequencesExt

CONSTANTS
    Upload,    \* the uploads
    FileName,  \* upload -> originalname of its file
    HashId,    \* upload -> hash of its programId and version
    PageSize,  \* of the reader
    MaxTime    \* bound: milliseconds that pass

ASSUME IdlAssumption == PageSize \in Nat \ {0} /\ MaxTime \in Nat

VARIABLES
    now,     \* Date.now()
    step,    \* where each upload is
    time,    \* when it was given its path
    files,   \* the files under uploads/: whose bytes are in each
    read,    \* what each upload's controller has read
    list,    \* rows of idl_dapp, oldest first
    reader   \* the page asked for next, what was seen and what was there at the start

uploads == <<step, time, files, read>>
vars    == <<now, uploads, list, reader>>

Row == [by : Upload, holds : SUBSET Upload]

Under == {"stored", "read", "unknown"}    \* steps of an upload with a whole file

TypeOK ==
    /\ now \in 0 .. MaxTime
    /\ step \in [Upload -> {"new", "opened", "done", "failed"} \cup Under]
    /\ time \in [Upload -> 0 .. MaxTime]
    /\ DOMAIN files \subseteq (0 .. MaxTime) \X {FileName[u] : u \in Upload}
    /\ \A p \in DOMAIN files : files[p] \subseteq Upload
    /\ read \in [Upload -> SUBSET Upload]
    /\ list \in Seq(Row)
    /\ reader.page \in Nat /\ reader.seen \cup reader.there \subseteq Upload

Reader == [page |-> 0, seen |-> {}, there |-> {}]

Init ==
    /\ now = 0
    /\ step = [u \in Upload |-> "new"] /\ time = [u \in Upload |-> 0]
    /\ files = << >> /\ read = [u \in Upload |-> {}]
    /\ list = << >> /\ reader = Reader

Pass ==
    /\ now < MaxTime /\ now' = now + 1
    /\ UNCHANGED <<uploads, list, reader>>

Goes(u, s) == step' = [step EXCEPT ![u] = s]

-----------------------------------------------------------------------------
(* An upload *)

\* Mutant: the name alone.
PathOfName(u) == <<0, FileName[u]>>

Path(u) == <<time[u], FileName[u]>>

\* The file is opened, which empties one that is there.
Open(u) ==
    /\ step[u] = "new" /\ Goes(u, "opened")
    /\ time' = [time EXCEPT ![u] = now]
    /\ files' = [p \in DOMAIN files \cup {Path(u)'} |-> IF p = Path(u)' THEN {} ELSE files[p]]
    /\ UNCHANGED <<now, read, list, reader>>

\* Its bytes are in the file, if that has not been deleted by now.
Store(u) ==
    /\ step[u] = "opened" /\ Goes(u, "stored")
    /\ files' = [p \in DOMAIN files |-> files[p] \cup IF p = Path(u) THEN {u} ELSE {}]
    /\ UNCHANGED <<now, time, read, list, reader>>

\* The handler reads the file, in one go, and it parses.
Read(u) ==
    /\ step[u] = "stored" /\ Goes(u, "read")
    /\ Path(u) \in DOMAIN files /\ files[Path(u)] # {}
    /\ read' = [read EXCEPT ![u] = files[Path(u)]]
    /\ UNCHANGED <<now, time, files, list, reader>>

Known(h) == \E i \in DOMAIN list : HashId[list[i].by] = h

Check(u) ==
    /\ step[u] = "read" /\ Goes(u, "unknown")
    /\ ~Known(HashId[u])
    /\ UNCHANGED <<now, time, files, read, list, reader>>

Saved(u, path) ==
    /\ step[u] = "unknown" /\ Goes(u, "done")
    /\ ~Known(HashId[u])    \* the unique constraint on hash_id
    /\ list' = Append(list, [by |-> u, holds |-> read[u]])
    /\ files' = [p \in DOMAIN files \ {path} |-> files[p]]
    /\ UNCHANGED <<now, time, read, reader>>

\* Mutant: the path is put together again.
SaveThenNow(u) == Saved(u, <<now, FileName[u]>>)

\* The row is saved; then the file is deleted, if it is there.
Save(u) == Saved(u, Path(u))

\* The request fails: the interceptor's tap sees values, not errors.
Fail(u) ==
    /\ step[u] \in {"opened"} \cup Under
    /\ Goes(u, "failed")
    /\ UNCHANGED <<now, time, files, read, list, reader>>

-----------------------------------------------------------------------------
(* Reading the list *)

\* The rows from place a + 1 to place b, newest first.
Slice(a, b) == SubSeq(Reverse(list), a + 1, IF b < Len(list) THEN b ELSE Len(list))

\* Mutant: pageNum is not counted from 1.
PageFromNought(n) == Slice(n * PageSize, (n + 1) * PageSize)

\* getAllIdls: page n, counted from 1; a page past the end is empty.
Page(n) == Slice((n - 1) * PageSize, n * PageSize)

Rows(s) == {s[i].by : i \in DOMAIN s}

StartReading ==
    /\ reader.page = 0
    /\ reader' = [page |-> 1, seen |-> {}, there |-> Rows(list)]
    /\ UNCHANGED <<now, uploads, list>>

\* Mutant: back to the page before.
ReadPageBack ==
    /\ reader.page > 0
    /\ reader' = [reader EXCEPT !.page = @ - 2]
    /\ UNCHANGED <<now, uploads, list>>

\* An empty page is the last one, and the reader stops.
ReadPage ==
    /\ reader.page > 0
    /\ reader' = IF Page(reader.page) = << >> THEN [reader EXCEPT !.page = 0]
                 ELSE [reader EXCEPT !.page = @ + 1, !.seen = @ \cup Rows(Page(reader.page))]
    /\ UNCHANGED <<now, uploads, list>>

-----------------------------------------------------------------------------
Next ==
    \/ Pass
    \/ \E u \in Upload :
        Open(u) \/ Store(u) \/ Read(u) \/ Check(u) \/ Save(u) \/ Fail(u)
    \/ StartReading \/ ReadPage

Spec == Init /\ [][Next]_vars

-----------------------------------------------------------------------------
\* An IDL is saved with what its own upload sent, except when another upload
\* of a file of the same name was given its path in the same millisecond.
OwnContent ==
    \A i \in DOMAIN list :
        LET u == list[i].by
        IN  \/ list[i].holds = {u}
            \/ \E v \in Upload \ {u} : FileName[v] = FileName[u] /\ time[v] = time[u]
                                       /\ step[v] # "new"

\* No file stays behind unless a request that had its path failed: one that
\* ends well deletes it, also when two of them share it.
OnlyFailuresLeaveFiles ==
    \A p \in DOMAIN files :
        \E u \in Upload : <<time[u], FileName[u]>> = p /\ step[u] \notin {"new", "done"}

\* Someone who reads all pages, one after another, has seen every IDL that
\* was there at the start, however many are added meanwhile: the pages move
\* only towards the end.
ListingComplete == reader.page = 0 => reader.there \subseteq reader.seen
=============================================================================

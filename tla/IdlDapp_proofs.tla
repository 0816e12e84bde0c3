--------------------------- MODULE IdlDapp_proofs ---------------------------
(***************************************************************************)
(* What IdlDapp guarantees for every set of uploads, whatever names their  *)
(* files have and whatever programs they are of, every page size, and as   *)
(* much time as one likes.                                                 *)
(***************************************************************************)
EXTENDS IdlDapp, TLAPS
-----------------------------------------------------------------------------
(* The invariant.                                                          *)

ReaderOK == reader \in [page : Nat, seen : SUBSET Upload, there : SUBSET Upload]

\* Every byte came from an upload that was given the path of the one it is
\* kept for: u's file, what u's controller has read, or u's row.
SamePath(u, w) == Path(w) = Path(u) /\ step[w] # "new"

FilesOK == \A p \in DOMAIN files : \A w \in files[p] : Path(w) = p /\ step[w] # "new"

ReadOK ==
    \A u \in Upload :
        /\ step[u] = "new" => read[u] = {}
        /\ step[u] \in {"read", "unknown"} => read[u] # {}
        /\ \A w \in read[u] : SamePath(u, w)

RowsOK ==
    \A i \in DOMAIN list :
        /\ step[list[i].by] # "new" /\ list[i].holds # {}
        /\ \A w \in list[i].holds : SamePath(list[i].by, w)

\* Of the rows that were there at the start, the reader has seen each one, or
\* it is still on the pages to come: rows are only ever added before them.
Ahead(x) ==
    \E i \in 1 .. Len(list) : list[i].by = x /\ i <= Len(list) - (reader.page - 1) * PageSize

AheadOK == reader.page > 0 => \A x \in reader.there \ reader.seen : Ahead(x)

ReadingOK == ReaderOK /\ AheadOK /\ ListingComplete

UploadsOK == TypeOK /\ FilesOK /\ ReadOK /\ RowsOK /\ OnlyFailuresLeaveFiles

IInv == UploadsOK /\ ReadingOK

\* The file that is opened is empty, and its path is the only one that changes.
LEMMA OpenStep == ASSUME UploadsOK, ReaderOK, NEW u \in Upload, Open(u) PROVE UploadsOK'
<1> USE DEF UploadsOK
<1>1. /\ step[u] = "new" /\ step' = [step EXCEPT ![u] = "opened"]
      /\ time' = [time EXCEPT ![u] = now] /\ read' = read /\ list' = list
      /\ reader' = reader /\ now' = now
      /\ DOMAIN files' = DOMAIN files \cup {Path(u)'}
      /\ files'[Path(u)'] = {}
      /\ \A p \in DOMAIN files : files'[p] = IF p = Path(u)' THEN {} ELSE files[p]
    BY DEF Open, Goes
<1>2. /\ step'[u] = "opened" /\ time'[u] = now
      /\ \A v \in Upload \ {u} : step'[v] = step[v] /\ time'[v] = time[v] /\ Path(v)' = Path(v)
    BY <1>1 DEF TypeOK, Path
<1>3. TypeOK'
    <2>1. Path(u)' \in (0 .. MaxTime) \X {FileName[v] : v \in Upload}
        BY <1>2 DEF TypeOK, Path
    <2>2. step' \in [Upload -> {"new", "opened", "done", "failed"} \cup Under]
        BY <1>1 DEF TypeOK
    <2>3. time' \in [Upload -> 0 .. MaxTime]
        BY <1>1 DEF TypeOK
    <2> QED BY <1>1, <2>1, <2>2, <2>3 DEF TypeOK
<1>4. FilesOK'
    <2> SUFFICES ASSUME NEW p \in DOMAIN files', NEW w \in files'[p]
                 PROVE  Path(w)' = p /\ step'[w] # "new"
        BY DEF FilesOK
    <2>1. p \in DOMAIN files /\ w \in files[p]
        BY <1>1
    <2>2. w \in Upload \ {u} /\ Path(w) = p /\ step[w] # "new"
        BY <1>1, <2>1 DEF TypeOK, FilesOK
    <2> QED BY <1>2, <2>2
<1>5. ReadOK'
    <2> SUFFICES ASSUME NEW v \in Upload
                 PROVE  /\ step'[v] = "new" => read'[v] = {}
                        /\ step'[v] \in {"read", "unknown"} => read'[v] # {}
                        /\ \A w \in read'[v] : SamePath(v, w)'
        BY DEF ReadOK
    <2>1. CASE v = u
        BY <1>1, <1>2, <2>1 DEF ReadOK
    <2>2. CASE v # u
        <3>1. \A w \in read[v] : w \in Upload \ {u} /\ SamePath(v, w)
            BY <1>1 DEF TypeOK, ReadOK, SamePath
        <3>2. \A w \in read[v] : SamePath(v, w)'
            BY <1>2, <2>2, <3>1 DEF SamePath
        <3> QED BY <1>1, <1>2, <2>2, <3>2 DEF ReadOK
    <2> QED BY <2>1, <2>2
<1>6. RowsOK'
    <2> SUFFICES ASSUME NEW i \in DOMAIN list,
                        NEW v, v = list[i].by, v = list'[i].by
                 PROVE  /\ step'[v] # "new" /\ list[i].holds # {}
                        /\ \A w \in list[i].holds : SamePath(v, w)'
        BY <1>1 DEF RowsOK, SamePath, Path
    <2>1. v \in Upload /\ list[i].holds \in SUBSET Upload
        <3>1. list[i] \in Row
            BY DEF TypeOK
        <3> QED BY <3>1 DEF Row
    <2>2. /\ step[v] # "new" /\ list[i].holds # {}
          /\ \A w \in list[i].holds : SamePath(v, w)
        BY DEF RowsOK
    <2>3. v # u /\ \A w \in list[i].holds : w \in Upload \ {u}
        BY <1>1, <2>1, <2>2 DEF SamePath
    <2>4. step'[v] # "new" /\ Path(v)' = Path(v)
        BY <1>2, <2>1, <2>2, <2>3
    <2>5. \A w \in list[i].holds : SamePath(v, w)'
        BY <1>2, <2>2, <2>3, <2>4 DEF SamePath
    <2> QED BY <2>2, <2>4, <2>5
<1>7. OnlyFailuresLeaveFiles'
    <2> SUFFICES ASSUME NEW p \in DOMAIN files'
                 PROVE  \E v \in Upload : Path(v)' = p /\ step'[v] \notin {"new", "done"}
        BY DEF OnlyFailuresLeaveFiles, Path
    <2>1. CASE p = Path(u)'
        BY <1>2, <2>1
    <2>2. CASE p \in DOMAIN files
        <3>1. PICK v \in Upload : Path(v) = p /\ step[v] \notin {"new", "done"}
            BY <2>2 DEF OnlyFailuresLeaveFiles, Path
        <3> QED BY <1>1, <1>2, <3>1
    <2> QED BY <1>1, <2>1, <2>2
<1> QED
    BY <1>3, <1>4, <1>5, <1>6, <1>7

\* A step of u that is none of those above moves u on with its path, and adds
\* at most u to u's file.
Moves(u, from, to) ==
    /\ step[u] \in from /\ step' = [step EXCEPT ![u] = to]
    /\ time' = time /\ reader' = reader /\ now' = now

\* No path changes and no upload becomes new again.
LEMMA MoveStep ==
    ASSUME UploadsOK, ReaderOK, NEW u \in Upload, NEW from, NEW to,
           from \subseteq {"opened"} \cup Under, to \in {"done", "failed"} \cup Under,
           Moves(u, from, to)
    PROVE  /\ step' \in [Upload -> {"new", "opened", "done", "failed"} \cup Under]
           /\ step'[u] = to /\ \A v \in Upload : Path(v)' = Path(v)
           /\ \A v \in Upload : v # u => step'[v] = step[v]
           /\ \A v \in Upload : step[v] = "new" <=> step'[v] = "new"
BY DEF Moves, UploadsOK, TypeOK, Path, Under

\* What was read and saved is of the same paths as before.
LEMMA MoveKeeps ==
    ASSUME UploadsOK, ReaderOK, NEW u \in Upload, NEW from, NEW to,
           from \subseteq {"opened"} \cup Under, to \in {"done", "failed"} \cup Under,
           Moves(u, from, to)
    PROVE  \A v, w \in Upload : SamePath(v, w) => SamePath(v, w)'
BY MoveStep DEF SamePath

\* The files are as before but for u in its own file.
LEMMA FilesQuiet ==
    ASSUME UploadsOK, ReaderOK, NEW u \in Upload, NEW from, NEW to,
           from \subseteq {"opened"} \cup Under, to \in {"done", "failed"} \cup Under,
           Moves(u, from, to), to # "done",
           DOMAIN files' = DOMAIN files,
           \A p \in DOMAIN files :
              files'[p] = files[p] \/ (p = Path(u) /\ files'[p] = files[p] \cup {u})
    PROVE  /\ DOMAIN files' \subseteq (0 .. MaxTime) \X {FileName[v] : v \in Upload}
           /\ \A p \in DOMAIN files' : files'[p] \subseteq Upload
           /\ FilesOK' /\ OnlyFailuresLeaveFiles'
<1>1. /\ step'[u] = to /\ \A v \in Upload : Path(v)' = Path(v)
      /\ \A v \in Upload : v # u => step'[v] = step[v]
      /\ \A v \in Upload : step[v] = "new" <=> step'[v] = "new"
      /\ step[u] # "new"
    <2>1. step[u] # "new"
        BY DEF Moves, Under
    <2> QED BY <2>1, MoveStep
<1>2. /\ DOMAIN files' \subseteq (0 .. MaxTime) \X {FileName[v] : v \in Upload}
      /\ \A p \in DOMAIN files' : files'[p] \subseteq Upload
    BY DEF UploadsOK, TypeOK
<1>3. FilesOK'
    <2> SUFFICES ASSUME NEW p \in DOMAIN files, NEW w \in files'[p]
                 PROVE  Path(w)' = p /\ step'[w] # "new"
        BY DEF FilesOK
    <2>1. CASE w \in files[p]
        <3>1. w \in Upload /\ Path(w) = p /\ step[w] # "new"
            BY <2>1 DEF UploadsOK, TypeOK, FilesOK
        <3> QED BY <1>1, <3>1
    <2>2. CASE w \notin files[p]
        <3>1. w = u /\ p = Path(u)
            BY <2>2
        <3> QED BY <1>1, <3>1
    <2> QED BY <2>1, <2>2
<1>4. OnlyFailuresLeaveFiles'
    <2> SUFFICES ASSUME NEW p \in DOMAIN files
                 PROVE  \E v \in Upload : Path(v)' = p /\ step'[v] \notin {"new", "done"}
        BY DEF OnlyFailuresLeaveFiles, Path
    <2>1. PICK v \in Upload : Path(v) = p /\ step[v] \notin {"new", "done"}
        BY DEF UploadsOK, OnlyFailuresLeaveFiles, Path
    <2>2. to \notin {"new", "done"}
        BY DEF Under
    <2> QED BY <1>1, <2>1, <2>2
<1> QED
    BY <1>2, <1>3, <1>4

\* What was read stays as it is.
LEMMA ReadQuiet ==
    ASSUME UploadsOK, ReaderOK, NEW u \in Upload, NEW from, NEW to,
           from \subseteq {"opened"} \cup Under, to \in {"done", "failed"} \cup Under,
           Moves(u, from, to), read' = read,
           to \in {"read", "unknown"} => step[u] \in {"read", "unknown"}
    PROVE  ReadOK'
<1> SUFFICES ASSUME NEW v \in Upload
             PROVE  /\ step'[v] = "new" => read[v] = {}
                    /\ step'[v] \in {"read", "unknown"} => read[v] # {}
                    /\ \A w \in read[v] : SamePath(v, w)'
    BY DEF ReadOK
<1>1. \A w \in read[v] : SamePath(v, w)'
    <2>1. read[v] \subseteq Upload /\ \A w \in read[v] : SamePath(v, w)
        BY DEF UploadsOK, TypeOK, ReadOK
    <2> QED BY <2>1, MoveKeeps
<1>2. /\ step[v] = "new" => read[v] = {}
      /\ step[v] \in {"read", "unknown"} => read[v] # {}
    BY DEF UploadsOK, ReadOK
<1>3. /\ step'[v] = "new" <=> step[v] = "new"
      /\ step'[v] \in {"read", "unknown"} => step[v] \in {"read", "unknown"}
    BY MoveStep
<1> QED
    BY <1>1, <1>2, <1>3

\* So do the rows.
LEMMA RowsQuiet ==
    ASSUME UploadsOK, ReaderOK, NEW u \in Upload, NEW from, NEW to,
           from \subseteq {"opened"} \cup Under, to \in {"done", "failed"} \cup Under,
           Moves(u, from, to), list' = list
    PROVE  RowsOK'
<1> SUFFICES ASSUME NEW i \in DOMAIN list
             PROVE  /\ step'[list[i].by] # "new" /\ list[i].holds # {}
                    /\ \A w \in list[i].holds : SamePath(list[i].by, w)'
    BY DEF RowsOK
<1>1. list[i].by \in Upload /\ list[i].holds \in SUBSET Upload
    <2>1. list[i] \in Row
        BY DEF UploadsOK, TypeOK
    <2> QED BY <2>1 DEF Row
<1>2. /\ step[list[i].by] # "new" /\ list[i].holds # {}
      /\ \A w \in list[i].holds : SamePath(list[i].by, w)
    BY DEF UploadsOK, RowsOK
<1>3. step'[list[i].by] # "new"
    BY <1>1, <1>2, MoveStep
<1> QED
    BY <1>1, <1>2, <1>3, MoveKeeps

\* u is now among those whose bytes are in its file.
LEMMA StoreStep == ASSUME UploadsOK, ReaderOK, NEW u \in Upload, Store(u) PROVE UploadsOK'
<1> DEFINE from == {"opened"}
           to   == "stored"
<1>1. /\ Moves(u, from, to) /\ read' = read /\ list' = list
      /\ from \subseteq {"opened"} \cup Under /\ to \in {"done", "failed"} \cup Under /\ to # "done"
      /\ to \in {"read", "unknown"} => step[u] \in {"read", "unknown"}
    BY DEF Store, Moves, Goes, Under
<1>2. /\ DOMAIN files' = DOMAIN files
      /\ \A p \in DOMAIN files :
            files'[p] = files[p] \/ (p = Path(u) /\ files'[p] = files[p] \cup {u})
    BY DEF Store
<1> HIDE DEF from, to
<1>3. /\ DOMAIN files' \subseteq (0 .. MaxTime) \X {FileName[v] : v \in Upload}
      /\ \A p \in DOMAIN files' : files'[p] \subseteq Upload
      /\ FilesOK' /\ OnlyFailuresLeaveFiles'
    BY <1>1, <1>2, FilesQuiet
<1>4. ReadOK' /\ RowsOK'
    BY <1>1, ReadQuiet, RowsQuiet
<1>5. TypeOK'
    BY <1>1, <1>3, MoveStep DEF UploadsOK, TypeOK, Moves
<1> QED
    BY <1>3, <1>4, <1>5 DEF UploadsOK

\* Looking for the hash changes none of it.
LEMMA CheckStep == ASSUME UploadsOK, ReaderOK, NEW u \in Upload, Check(u) PROVE UploadsOK'
<1> DEFINE from == {"read"}
           to   == "unknown"
<1>1. /\ Moves(u, from, to) /\ read' = read /\ list' = list /\ files' = files
      /\ from \subseteq {"opened"} \cup Under /\ to \in {"done", "failed"} \cup Under /\ to # "done"
      /\ to \in {"read", "unknown"} => step[u] \in {"read", "unknown"}
    BY DEF Check, Moves, Goes, Under
<1> HIDE DEF from, to
<1>2. FilesOK' /\ OnlyFailuresLeaveFiles'
    BY <1>1, FilesQuiet
<1>3. ReadOK' /\ RowsOK'
    BY <1>1, ReadQuiet, RowsQuiet
<1>4. TypeOK'
    BY <1>1, MoveStep DEF UploadsOK, TypeOK, Moves
<1> QED
    BY <1>2, <1>3, <1>4 DEF UploadsOK

\* Neither does a request that fails: its file stays, and u is the one to blame.
LEMMA FailStep == ASSUME UploadsOK, ReaderOK, NEW u \in Upload, Fail(u) PROVE UploadsOK'
<1> DEFINE from == {"opened"} \cup Under
           to   == "failed"
<1>1. /\ Moves(u, from, to) /\ read' = read /\ list' = list /\ files' = files
      /\ from \subseteq {"opened"} \cup Under /\ to \in {"done", "failed"} \cup Under /\ to # "done"
      /\ to \in {"read", "unknown"} => step[u] \in {"read", "unknown"}
    BY DEF Fail, Moves, Goes, Under
<1> HIDE DEF from, to
<1>2. FilesOK' /\ OnlyFailuresLeaveFiles'
    BY <1>1, FilesQuiet
<1>3. ReadOK' /\ RowsOK'
    BY <1>1, ReadQuiet, RowsQuiet
<1>4. TypeOK'
    BY <1>1, MoveStep DEF UploadsOK, TypeOK, Moves
<1> QED
    BY <1>2, <1>3, <1>4 DEF UploadsOK

\* What u reads came from uploads that share its path.
LEMMA ReadStep == ASSUME UploadsOK, ReaderOK, NEW u \in Upload, Read(u) PROVE UploadsOK'
<1> DEFINE from == {"stored"}
           to   == "read"
<1>1. /\ Moves(u, from, to) /\ list' = list /\ files' = files
      /\ from \subseteq {"opened"} \cup Under /\ to \in {"done", "failed"} \cup Under /\ to # "done"
    BY DEF Read, Moves, Goes, Under
<1>2. /\ Path(u) \in DOMAIN files /\ files[Path(u)] # {}
      /\ read' = [read EXCEPT ![u] = files[Path(u)]]
    BY DEF Read
<1> HIDE DEF from, to
<1>3. FilesOK' /\ OnlyFailuresLeaveFiles'
    BY <1>1, FilesQuiet
<1>4. RowsOK'
    BY <1>1, RowsQuiet
<1>5. read' \in [Upload -> SUBSET Upload]
    BY <1>2 DEF UploadsOK, TypeOK
<1>6. TypeOK'
    BY <1>1, <1>5, MoveStep DEF UploadsOK, TypeOK, Moves
<1>7. ReadOK'
    <2> SUFFICES ASSUME NEW v \in Upload
                 PROVE  /\ step'[v] = "new" => read'[v] = {}
                        /\ step'[v] \in {"read", "unknown"} => read'[v] # {}
                        /\ \A w \in read'[v] : SamePath(v, w)'
        BY DEF ReadOK
    <2>1. CASE v = u
        <3>1. read'[u] = files[Path(u)] /\ read'[u] # {} /\ step'[u] # "new"
            <4>1. step'[u] = to
                BY <1>1, MoveStep
            <4> QED BY <1>2, <4>1 DEF UploadsOK, TypeOK, to
        <3>2. \A w \in read'[u] : w \in Upload /\ SamePath(u, w)
            BY <1>2, <3>1 DEF UploadsOK, TypeOK, FilesOK, SamePath
        <3> QED BY <1>1, <2>1, <3>1, <3>2, MoveKeeps
    <2>2. CASE v # u
        <3>1. read'[v] = read[v] /\ step'[v] = step[v]
            BY <1>1, <1>2, <2>2, MoveStep DEF UploadsOK, TypeOK
        <3>2. \A w \in read[v] : w \in Upload /\ SamePath(v, w)
            BY DEF UploadsOK, TypeOK, ReadOK
        <3>3. \A w \in read[v] : SamePath(v, w)'
            BY <1>1, <3>2, MoveKeeps
        <3> QED BY <3>1, <3>3 DEF UploadsOK, ReadOK
    <2> QED BY <2>1, <2>2
<1> QED
    BY <1>3, <1>4, <1>6, <1>7 DEF UploadsOK

\* The row holds what was read; the file is gone, for whoever shared it too.
LEMMA SaveStep == ASSUME UploadsOK, ReaderOK, NEW u \in Upload, Save(u) PROVE UploadsOK'
<1> DEFINE from == {"unknown"}
           to   == "done"
           row  == [by |-> u, holds |-> read[u]]
<1>1. /\ Moves(u, from, to) /\ read' = read
      /\ from \subseteq {"opened"} \cup Under /\ to \in {"done", "failed"} \cup Under
      /\ to \notin {"read", "unknown"} /\ step[u] = "unknown"
    BY DEF Save, Saved, Moves, Goes, Under
<1>2. /\ list' = Append(list, row)
      /\ DOMAIN files' = DOMAIN files \ {Path(u)}
      /\ \A p \in DOMAIN files \ {Path(u)} : files'[p] = files[p]
    BY DEF Save, Saved
<1>3. row \in Row /\ row.by = u /\ row.holds = read[u]
    BY DEF Row, UploadsOK, TypeOK
<1> HIDE DEF from, to, row
<1>4. /\ \A v \in Upload : Path(v)' = Path(v)
      /\ \A v \in Upload : v # u => step'[v] = step[v]
      /\ \A v \in Upload : step[v] = "new" <=> step'[v] = "new"
    BY <1>1, MoveStep
<1>5. TypeOK'
    <2>1. list' \in Seq(Row)
        BY <1>2, <1>3 DEF UploadsOK, TypeOK
    <2>2. step' \in [Upload -> {"new", "opened", "done", "failed"} \cup Under]
        BY <1>1, MoveStep
    <2> QED BY <1>1, <1>2, <2>1, <2>2 DEF UploadsOK, TypeOK, Moves
<1>6. FilesOK'
    <2> SUFFICES ASSUME NEW p \in DOMAIN files \ {Path(u)}, NEW w \in files[p]
                 PROVE  Path(w)' = p /\ step'[w] # "new"
        BY <1>2 DEF FilesOK
    <2>1. w \in Upload /\ Path(w) = p /\ step[w] # "new"
        BY DEF UploadsOK, TypeOK, FilesOK
    <2> QED BY <1>4, <2>1
<1>7. ReadOK'
    BY <1>1, ReadQuiet
<1>8. OnlyFailuresLeaveFiles'
    <2> SUFFICES ASSUME NEW p \in DOMAIN files \ {Path(u)}
                 PROVE  \E v \in Upload : Path(v)' = p /\ step'[v] \notin {"new", "done"}
        BY <1>2 DEF OnlyFailuresLeaveFiles, Path
    <2>1. PICK v \in Upload : Path(v) = p /\ step[v] \notin {"new", "done"}
        BY DEF UploadsOK, OnlyFailuresLeaveFiles, Path
    <2> QED BY <1>4, <2>1
<1>9. RowsOK'
    <2> SUFFICES ASSUME NEW i \in DOMAIN list',
                        NEW v, v = list'[i].by
                 PROVE  /\ step'[v] # "new" /\ list'[i].holds # {}
                        /\ \A w \in list'[i].holds : SamePath(v, w)'
        BY DEF RowsOK, SamePath, Path
    <2>1. CASE i \in DOMAIN list
        <3>1. list'[i] = list[i] /\ list[i] \in Row
            BY <1>2, <1>3, <2>1 DEF UploadsOK, TypeOK
        <3>2. v \in Upload /\ list[i].holds \in SUBSET Upload
            BY <3>1 DEF Row
        <3>3. /\ step[v] # "new" /\ list[i].holds # {}
              /\ \A w \in list[i].holds : SamePath(v, w)
            BY <2>1, <3>1 DEF UploadsOK, RowsOK
        <3>4. \A w \in list[i].holds : SamePath(v, w)'
            BY <1>1, <3>2, <3>3, MoveKeeps
        <3> QED BY <1>4, <3>1, <3>2, <3>3, <3>4
    <2>2. CASE i \notin DOMAIN list
        <3>1. list'[i] = row /\ v = u
            BY <1>2, <1>3, <2>2 DEF UploadsOK, TypeOK
        <3>2. read[u] # {} /\ \A w \in read[u] : w \in Upload /\ SamePath(u, w)
            BY <1>1 DEF UploadsOK, TypeOK, ReadOK
        <3>3. \A w \in read[u] : SamePath(u, w)'
            BY <1>1, <3>2, MoveKeeps
        <3>4. step'[u] # "new"
            BY <1>1, <1>4
        <3> QED BY <1>3, <3>1, <3>2, <3>3, <3>4
    <2> QED BY <2>1, <2>2
<1> QED
    BY <1>5, <1>6, <1>7, <1>8, <1>9 DEF UploadsOK

\* The clock and the reader leave the uploads alone.
LEMMA UploadsQuiet ==
    ASSUME UploadsOK, UNCHANGED <<uploads, list>>, ReaderOK', now' \in 0 .. MaxTime
    PROVE  UploadsOK'
<1> USE DEF uploads, UploadsOK
<1>1. TypeOK'
    BY DEF TypeOK, ReaderOK
<1>2. FilesOK' /\ ReadOK' /\ RowsOK' /\ OnlyFailuresLeaveFiles'
    BY DEF FilesOK, ReadOK, RowsOK, OnlyFailuresLeaveFiles, SamePath, Path
<1> QED
    BY <1>1, <1>2
-----------------------------------------------------------------------------
(* The reader.                                                             *)

\* A page holds the rows that are between two distances from the newest.
LEMMA PageRows ==
    ASSUME NEW n \in Nat \ {0}, list \in Seq(Row)
    PROVE  /\ Page(n) = << >> <=> Len(list) <= (n - 1) * PageSize
           /\ Rows(Page(n)) \subseteq {list[i].by : i \in DOMAIN list}
           /\ \A i \in 1 .. Len(list) :
                 i <= Len(list) - (n - 1) * PageSize /\ i > Len(list) - n * PageSize
                   => list[i].by \in Rows(Page(n))
<1> DEFINE a == (n - 1) * PageSize
           b == n * PageSize
           len == Len(list)
           top == IF b < len THEN b ELSE len
           rev == Reverse(list)
           page == SubSeq(rev, a + 1, top)
<1>1. a \in Nat /\ b \in Nat /\ a < b
    <2>1. b = a + PageSize
        BY IdlAssumption
    <2>2. a \in Nat
        BY IdlAssumption
    <2> QED BY <2>1, <2>2, IdlAssumption
<1>2. Page(n) = page
    BY DEF Page, Slice
<1>3. /\ rev \in Seq(Row) /\ Len(rev) = len /\ len \in Nat
      /\ \A j \in 1 .. len : rev[j] = list[len - j + 1]
    BY DEF Reverse
<1> HIDE DEF a, b, len, rev
<1>5. CASE a < len
    <2>1. top \in 1 .. len /\ a + 1 \in 1 .. top
        BY <1>1, <1>3, <1>5
    <2> HIDE DEF top
    <2>2. /\ Len(page) = top - a /\ page \in Seq(Row)
          /\ \A k \in 1 .. top - a : page[k] = rev[a + k]
        BY <1>1, <1>3, <2>1
    <2> HIDE DEF page
    <2>3. DOMAIN page = 1 .. top - a /\ page # << >>
        <3>1. top - a \in Nat \ {0}
            BY <1>1, <2>1
        <3> QED BY <2>2, <3>1
    <2>4. \A k \in 1 .. top - a : a + k \in 1 .. len /\ len - (a + k) + 1 \in 1 .. len
        BY <1>1, <1>3, <2>1
    <2>5. \A k \in DOMAIN page : page[k] = list[len - (a + k) + 1]
        BY <1>3, <2>2, <2>3, <2>4
    <2>6. Rows(page) \subseteq {list[i].by : i \in DOMAIN list}
        <3>1. DOMAIN list = 1 .. len
            BY DEF len
        <3> QED BY <2>3, <2>4, <2>5, <3>1 DEF Rows
    <2>7. ASSUME NEW i \in 1 .. len, i <= len - a, i > len - b
          PROVE  list[i].by \in Rows(page)
        <3> DEFINE k == len - i + 1 - a
        <3>1. k \in 1 .. top - a /\ len - (a + k) + 1 = i
            BY <1>1, <1>3, <2>1, <2>7 DEF top
        <3> HIDE DEF k
        <3>2. k \in DOMAIN page /\ page[k] = list[i]
            BY <2>3, <2>5, <3>1
        <3> QED BY <3>2 DEF Rows
    <2> QED BY <1>1, <1>2, <1>3, <1>5, <2>3, <2>6, <2>7 DEF a, b, len
<1>6. CASE ~ (a < len)
    <2>1. page = << >>
        BY <1>1, <1>3, <1>6
    <2>2. Rows(<< >>) = {}
        BY DEF Rows
    <2>3. \A i \in 1 .. len : ~ (i <= len - a)
        BY <1>1, <1>3, <1>6
    <2>4. /\ page = << >> <=> len <= a
          /\ Rows(page) \subseteq {list[i].by : i \in DOMAIN list}
          /\ \A i \in 1 .. len : i <= len - a /\ i > len - b => list[i].by \in Rows(page)
        <3>1. len <= a
            BY <1>1, <1>3, <1>6
        <3> HIDE DEF page
        <3> QED BY <2>1, <2>2, <2>3, <3>1
    <2> QED BY <1>2, <2>4 DEF a, b, len
<1> QED
    BY <1>5, <1>6

\* Every row is that of an upload.
LEMMA RowsUploads == UploadsOK => \A i \in DOMAIN list : list[i].by \in Upload
<1> SUFFICES ASSUME UploadsOK, NEW i \in DOMAIN list PROVE list[i].by \in Upload
    OBVIOUS
<1>1. list[i] \in Row
    BY DEF UploadsOK, TypeOK
<1> QED
    BY <1>1 DEF Row

\* Rows that are added leave the reader's rows ahead of it.
LEMMA ReaderQuiet ==
    ASSUME UploadsOK, ReadingOK, reader' = reader,
           list' = list \/ \E r \in Row : list' = Append(list, r)
    PROVE  ReadingOK'
<1>1. list \in Seq(Row)
    BY DEF UploadsOK, TypeOK
<1>2. /\ Len(list) \in Nat /\ Len(list') \in Nat /\ Len(list) <= Len(list')
      /\ \A i \in 1 .. Len(list) : list'[i] = list[i]
    BY <1>1
<1>3. reader.page \in Nat /\ reader.there \subseteq Upload
    BY DEF ReadingOK, ReaderOK
<1>4. AheadOK'
    <2> SUFFICES ASSUME reader.page > 0, NEW x \in reader.there \ reader.seen
                 PROVE  \E i \in 1 .. Len(list') :
                           list'[i].by = x /\ i <= Len(list') - (reader.page - 1) * PageSize
        BY DEF AheadOK, Ahead
    <2>1. PICK i \in 1 .. Len(list) : list[i].by = x /\ i <= Len(list) - (reader.page - 1) * PageSize
        BY DEF ReadingOK, AheadOK, Ahead
    <2>2. (reader.page - 1) * PageSize \in Int
        BY <1>3, IdlAssumption
    <2>3. i \in 1 .. Len(list') /\ i <= Len(list') - (reader.page - 1) * PageSize
        BY <1>2, <2>1, <2>2
    <2> QED BY <1>2, <2>1, <2>3
<1> QED
    BY <1>4 DEF ReadingOK, ReaderOK, ListingComplete

\* Page 1 begins at the newest row: every row is ahead of the reader.
LEMMA StartStep ==
    ASSUME UploadsOK, ReadingOK, StartReading PROVE ReadingOK' /\ UploadsOK'
<1>1. /\ reader' = [page |-> 1, seen |-> {}, there |-> Rows(list)]
      /\ UNCHANGED <<uploads, list>> /\ now' = now
    BY DEF StartReading
<1>2. list \in Seq(Row) /\ Len(list) \in Nat /\ now \in 0 .. MaxTime
    BY DEF UploadsOK, TypeOK
<1>3. Rows(list) \subseteq Upload
    BY RowsUploads DEF Rows
<1>4. ReaderOK' /\ ListingComplete'
    BY <1>1, <1>3 DEF ReaderOK, ListingComplete
<1>5. AheadOK'
    <2> SUFFICES ASSUME NEW x \in Rows(list)
                 PROVE  \E i \in 1 .. Len(list) : list[i].by = x /\ i <= Len(list) - (1 - 1) * PageSize
        BY <1>1 DEF AheadOK, Ahead
    <2>1. PICK i \in 1 .. Len(list) : list[i].by = x
        BY <1>2 DEF Rows
    <2>2. (1 - 1) * PageSize = 0
        BY IdlAssumption
    <2> QED BY <1>2, <2>1, <2>2
<1>6. UploadsOK'
    BY <1>1, <1>2, <1>4, UploadsQuiet
<1> QED
    BY <1>4, <1>5, <1>6 DEF ReadingOK

\* A page takes from the rows ahead those that the next one no longer covers.
LEMMA PageStep ==
    ASSUME UploadsOK, ReadingOK, ReadPage PROVE ReadingOK' /\ UploadsOK'
<1> DEFINE n == reader.page
<1>1. /\ n \in Nat \ {0} /\ UNCHANGED <<uploads, list>> /\ now' = now
      /\ reader' = IF Page(n) = << >> THEN [reader EXCEPT !.page = 0]
                   ELSE [reader EXCEPT !.page = @ + 1, !.seen = @ \cup Rows(Page(n))]
    BY DEF ReadPage, ReadingOK, ReaderOK
<1>2. list \in Seq(Row) /\ Len(list) \in Nat /\ now \in 0 .. MaxTime
    BY DEF UploadsOK, TypeOK
<1>3. /\ Page(n) = << >> <=> Len(list) <= (n - 1) * PageSize
      /\ Rows(Page(n)) \subseteq {list[i].by : i \in DOMAIN list}
      /\ \A i \in 1 .. Len(list) :
            i <= Len(list) - (n - 1) * PageSize /\ i > Len(list) - n * PageSize
              => list[i].by \in Rows(Page(n))
    BY <1>1, <1>2, PageRows
<1>4. \A x \in reader.there \ reader.seen :
         \E i \in 1 .. Len(list) : list[i].by = x /\ i <= Len(list) - (n - 1) * PageSize
    BY <1>1 DEF ReadingOK, AheadOK, Ahead
<1>5. n * PageSize \in Int /\ (n - 1) * PageSize \in Int
    BY <1>1, IdlAssumption
<1>6. ReadingOK'
    <2>1. CASE Page(n) = << >>
        <3>1. /\ reader'.page = 0 /\ reader'.seen = reader.seen /\ reader'.there = reader.there
              /\ ReaderOK'
            BY <1>1, <2>1 DEF ReadingOK, ReaderOK
        <3>2. reader.there \subseteq reader.seen
            BY <1>2, <1>3, <1>4, <1>5, <2>1
        <3> QED BY <3>1, <3>2 DEF ReadingOK, AheadOK, ListingComplete
    <2>2. CASE Page(n) # << >>
        <3>1. Rows(Page(n)) \subseteq Upload
            BY <1>3, RowsUploads
        <3>2. /\ reader'.page = n + 1 /\ reader'.seen = reader.seen \cup Rows(Page(n))
              /\ reader'.there = reader.there /\ ReaderOK'
            <4> DEFINE S == Rows(Page(n))
            <4>1. reader' = [reader EXCEPT !.page = @ + 1, !.seen = @ \cup S]
                BY <1>1, <2>2
            <4> HIDE DEF S
            <4>2. S \subseteq Upload
                BY <3>1 DEF S
            <4>3. reader \in [page : Nat, seen : SUBSET Upload, there : SUBSET Upload]
                BY DEF ReadingOK, ReaderOK
            <4>4. reader' = [page |-> n + 1, seen |-> reader.seen \cup S, there |-> reader.there]
                BY <4>1, <4>3
            <4>5. ReaderOK'
                BY <1>1, <4>2, <4>3, <4>4 DEF ReaderOK
            <4> QED BY <4>4, <4>5 DEF S
        <3>3. ASSUME NEW x \in reader'.there \ reader'.seen PROVE Ahead(x)'
            <4>1. PICK i \in 1 .. Len(list) : list[i].by = x /\ i <= Len(list) - (n - 1) * PageSize
                BY <1>4, <3>2, <3>3
            <4>2. ~ (i > Len(list) - n * PageSize)
                BY <1>3, <3>2, <3>3, <4>1
            <4>3. i <= Len(list) - n * PageSize
                BY <1>2, <1>5, <4>1, <4>2
            <4>4. reader'.page - 1 = n
                BY <1>1, <3>2
            <4> QED BY <1>1, <4>1, <4>3, <4>4 DEF Ahead
        <3>4. reader'.page # 0
            BY <1>1, <3>2
        <3> QED BY <3>2, <3>3, <3>4 DEF ReadingOK, AheadOK, ListingComplete
    <2> QED BY <2>1, <2>2
<1>7. UploadsOK'
    BY <1>1, <1>2, <1>6, UploadsQuiet DEF ReadingOK
<1> QED
    BY <1>6, <1>7
-----------------------------------------------------------------------------
(* The theorems.                                                           *)

\* The invariant holds at the start.
LEMMA InitIInv == Init => IInv
<1> SUFFICES ASSUME Init PROVE IInv
    OBVIOUS
<1>1. DOMAIN files = {} /\ list \in Seq(Row) /\ DOMAIN list = {}
    BY DEF Init
<1>2. TypeOK
    BY <1>1, IdlAssumption DEF Init, TypeOK, Reader
<1>3. FilesOK /\ ReadOK /\ RowsOK /\ OnlyFailuresLeaveFiles
    BY <1>1 DEF Init, FilesOK, ReadOK, RowsOK, OnlyFailuresLeaveFiles
<1>4. ReadingOK
    BY DEF Init, Reader, ReadingOK, ReaderOK, AheadOK, ListingComplete
<1> QED
    BY <1>2, <1>3, <1>4 DEF IInv, UploadsOK

\* Every step keeps it.
LEMMA StepIInv == IInv /\ [Next]_vars => IInv'
<1> SUFFICES ASSUME UploadsOK, ReadingOK, [Next]_vars PROVE UploadsOK' /\ ReadingOK'
    BY DEF IInv
<1>1. ReaderOK
    BY DEF ReadingOK
<1>2. ASSUME NEW u \in Upload, Open(u) \/ Store(u) \/ Read(u) \/ Check(u) \/ Save(u) \/ Fail(u)
      PROVE  UploadsOK' /\ ReadingOK'
    <2>1. UploadsOK'
        BY <1>1, <1>2, OpenStep, StoreStep, ReadStep, CheckStep, SaveStep, FailStep
    <2>2. reader' = reader
        BY <1>2 DEF Open, Store, Read, Check, Save, Saved, Fail
    <2>3. list' = list \/ \E r \in Row : list' = Append(list, r)
        <3>1. CASE Save(u)
            <4>1. [by |-> u, holds |-> read[u]] \in Row
                BY DEF UploadsOK, TypeOK, Row
            <4> QED BY <3>1, <4>1 DEF Save, Saved
        <3> QED BY <1>2, <3>1 DEF Open, Store, Read, Check, Fail
    <2> QED BY <2>1, <2>2, <2>3, ReaderQuiet
<1>3. CASE Pass
    <2>1. reader' = reader /\ list' = list /\ UNCHANGED <<uploads, list>>
        BY <1>3 DEF Pass
    <2>2. now' \in 0 .. MaxTime
        BY <1>3, IdlAssumption DEF Pass, UploadsOK, TypeOK
    <2>3. ReadingOK'
        BY <2>1, ReaderQuiet
    <2> QED BY <2>1, <2>2, <2>3, UploadsQuiet DEF ReadingOK
<1>4. CASE UNCHANGED vars
    <2>1. reader' = reader /\ list' = list /\ UNCHANGED <<uploads, list>>
        BY <1>4 DEF vars
    <2>2. now' \in 0 .. MaxTime
        BY <1>4 DEF vars, UploadsOK, TypeOK
    <2>3. ReadingOK'
        BY <2>1, ReaderQuiet
    <2> QED BY <2>1, <2>2, <2>3, UploadsQuiet DEF ReadingOK
<1> QED
    BY <1>2, <1>3, <1>4, StartStep, PageStep DEF Next

\* The invariant holds in every reachable state.
THEOREM Invariance == Spec => []IInv
BY InitIInv, StepIInv, PTL DEF Spec

\* Files, rows and the reader are well typed in every reachable state.
THEOREM TypeCorrect == Spec => []TypeOK
<1>1. IInv => TypeOK
    BY DEF IInv, UploadsOK
<1> QED
    BY <1>1, Invariance, PTL

\* A row holds what its own upload sent and nothing else, unless an upload of a
\* file of the same name was given its path in the same millisecond.
THEOREM RowsHoldTheirOwn == Spec => []OwnContent
<1>1. IInv => OwnContent
    <2> SUFFICES ASSUME IInv, NEW i \in DOMAIN list, NEW u, u = list[i].by, list[i].holds # {u}
                 PROVE  \E v \in Upload \ {u} : FileName[v] = FileName[u] /\ time[v] = time[u]
                                                /\ step[v] # "new"
        BY DEF OwnContent
    <2>1. list[i].holds # {} /\ \A w \in list[i].holds : SamePath(u, w)
        BY DEF IInv, UploadsOK, RowsOK
    <2>2. list[i] \in Row
        BY DEF IInv, UploadsOK, TypeOK
    <2>3. PICK w \in list[i].holds : w # u
        BY <2>1
    <2> QED BY <2>1, <2>2, <2>3 DEF SamePath, Path, Row
<1> QED
    BY <1>1, Invariance, PTL

\* A file under uploads/ is that of a request that failed or is not over yet.
THEOREM SavedFilesAreDeleted == Spec => []OnlyFailuresLeaveFiles
<1>1. IInv => OnlyFailuresLeaveFiles
    BY DEF IInv, UploadsOK
<1> QED
    BY <1>1, Invariance, PTL

\* Someone who pages through the list misses none of the rows that it had when
\* they began, however many are added.
THEOREM ReaderMissesNothing == Spec => []ListingComplete
<1>1. IInv => ListingComplete
    BY DEF IInv, ReadingOK
<1> QED
    BY <1>1, Invariance, PTL
=============================================================================

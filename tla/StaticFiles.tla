---------------------------- MODULE StaticFiles -----------------------------
(***************************************************************************)
(* Static files (src/modules/static_handler.cpp) over the cache: workers   *)
(* answer requests in several steps - resolve the path, ask the cache,     *)
(* look at the file, read it, store it - while files change on disk.       *)
(*                                                                         *)
(* A path is the sequence of its segments, as splitting at '/' gives them: *)
(* "/a" is <<"", "a">>, "/d/" is <<"", "d", "">>.  The parser makes every  *)
(* path start with '/'.  A segment may contain a NUL, since %00 is         *)
(* decoded; the handler goes by the whole path, the file system by the     *)
(* part before the first NUL.  A file is replaced as a whole, and          *)
(* directories do not change.                                              *)
(***************************************************************************)
EXTENDS LRUCache

CONSTANTS Workers,
          Requests,     \* the paths that are requested
          Dirs,         \* directories below the root, as sequences of names
          Files,        \* regular files that may exist
          index_file,
          before_nul,   \* segment that contains a NUL -> what precedes the first
          None

\* The components that do not name an entry of their directory.
Special == {"", ".", ".."}

ASSUME FilesAssumption ==
    /\ <<>> \in Dirs /\ Dirs \cap Files = {}
    /\ \A f \in Files : f # <<>> /\ Last(f) \notin Special
    /\ DOMAIN before_nul \cap Special = {}
    /\ \A data \in Contents : data.file \in Files
    /\ Requests \subseteq Seq(STRING)
    /\ \A p \in Requests : Len(p) > 1 /\ Head(p) = ""

VARIABLES
    disk,       \* file -> its content, or Absent
    at,         \* worker -> the step of handle it is about to take
    path,       \* worker -> request.path
    fs_path,    \* worker -> the file it is looking for, also the cache key
    content,    \* worker -> what read_file returned, then what it answers
    status,     \* worker -> the status it has answered
    since       \* history: key -> keys answered from since it was

handleVars == <<at, path, fs_path, content, status>>
vars == <<cache_, lru_list_, current_size_, disk, at, path, fs_path, content, status, since>>

Init ==
    /\ CacheInit
    /\ disk \in [Files -> Contents \cup {Absent}]
    /\ \A f \in Files : disk[f] # Absent => disk[f].file = f
    /\ at = [w \in Workers |-> "idle"]
    /\ path = [w \in Workers |-> None]
    /\ fs_path = [w \in Workers |-> None]
    /\ content = [w \in Workers |-> None]
    /\ status = [w \in Workers |-> None]
    /\ since = [k \in Keys |-> {}]

-----------------------------------------------------------------------------
(* sanitize_path                                                            *)

\* Mutant of PathStep: ".." at the root is dropped, not refused.
PathStepLenient(acc, segment) ==
    IF segment \in {"", "."} THEN acc
    ELSE IF segment = ".."
    THEN [acc EXCEPT !.parts = IF @ = <<>> THEN @ ELSE Front(@)]
    ELSE [acc EXCEPT !.depth = @ + 1, !.parts = Append(@, segment)]

\* One turn of the loop; once the depth is negative the path stays blocked.
PathStep(acc, segment) ==
    IF acc.depth < 0 \/ segment \in {"", "."} THEN acc
    ELSE IF segment = ".."
    THEN [depth |-> acc.depth - 1,
          parts |-> IF acc.parts = <<>> THEN <<>> ELSE Front(acc.parts)]
    ELSE [depth |-> acc.depth + 1, parts |-> Append(acc.parts, segment)]

\* The loop over the segments; a negative depth stands for the empty result.
sanitize_path(p) ==
    LET after[n \in 0..Len(p)] ==
            IF n = 0 THEN [depth |-> 0, parts |-> <<>>] ELSE PathStep(after[n - 1], p[n])
    IN  after[Len(p)]

\* The cleaned path "/" + parts joined by '/': for the root it is "/", which
\* ends in an empty segment.
Clean(parts) == IF parts = <<>> THEN <<"">> ELSE parts

\* The segments of a name that contain a NUL.
Nuls(name) == {i \in 1..Len(name) : name[i] \in DOMAIN before_nul}

\* c_str(): the name up to its first NUL.
CString(name) ==
    IF Nuls(name) = {} THEN name
    ELSE LET n == Min(Nuls(name)) IN Append(SubSeq(name, 1, n - 1), before_nul[name[n]])

\* The name the file system sees, to which the empty segment means nothing.
NameOf(key) == CString(IF Head(key) = "" THEN Tail(key) ELSE key)

\* stat finds a directory: one below the root, or, where a cut has left a last
\* component "", "." or "..", that directory itself or its parent, which for
\* the root is outside but a directory all the same.
IsDirectory(name) ==
    \/ name \in Dirs
    \/ name # <<>> /\ Last(name) \in Special /\ Front(name) \in Dirs

-----------------------------------------------------------------------------
(* handle                                                                   *)

Answer(w, s, data) ==
    /\ at' = [at EXCEPT ![w] = "answered"]
    /\ status' = [status EXCEPT ![w] = s]
    /\ content' = [content EXCEPT ![w] = data]

\* k is answered from.
Serving(k) == [j \in Keys |-> IF j = k THEN {} ELSE since[j] \cup {k}]

\* Only what is in the cache is of interest.
StillCached(history) ==
    LET cached == {k \in Keys : cache_'[k] # Absent}
    IN  [j \in Keys |-> IF j \in cached THEN history[j] \cap cached ELSE {}]

GoOn(w, step) ==
    /\ at' = [at EXCEPT ![w] = step]
    /\ UNCHANGED status

\* The file handle looks for: the directory's index if the path is one.
Target(p) ==
    LET safe == sanitize_path(p)
    IN  IF IsDirectory(CString(safe.parts)) THEN Append(Clean(safe.parts), index_file)
        ELSE Clean(safe.parts)

\* A directory without a final '/'.
Redirected(p) == IsDirectory(CString(sanitize_path(p).parts)) /\ Last(p) # ""

\* Every string is a cache key; those the paths lead to are.
ASSUME KeysAssumption ==
    \A p \in Requests : sanitize_path(p).depth >= 0 /\ ~Redirected(p) => Target(p) \in Keys

\* Up to the cache key: blocked paths, directories without a final '/'.
Resolve(w, p) ==
    LET safe == sanitize_path(p) IN
    /\ at[w] = "idle"
    /\ path' = [path EXCEPT ![w] = p]
    /\ \/ /\ safe.depth < 0
          /\ Answer(w, 403, None)
          /\ UNCHANGED fs_path
       \/ /\ safe.depth >= 0 /\ Redirected(p)
          /\ Answer(w, 301, None)
          /\ UNCHANGED fs_path
       \/ /\ safe.depth >= 0 /\ ~Redirected(p)
          /\ fs_path' = [fs_path EXCEPT ![w] = Target(p)]
          /\ GoOn(w, "get")
          /\ UNCHANGED content
    /\ UNCHANGED <<cache_, lru_list_, current_size_, disk, since>>

Hit(w) ==
    /\ at[w] = "get"
    /\ GetHit(fs_path[w])
    /\ Answer(w, 200, cache_[fs_path[w]].data)
    /\ since' = StillCached(Serving(fs_path[w]))
    /\ UNCHANGED <<disk, path, fs_path>>

Miss(w) ==
    /\ at[w] = "get"
    /\ GetMiss(fs_path[w]) \/ GetExpired(fs_path[w])
    /\ GoOn(w, "stat")
    /\ since' = StillCached(since)
    /\ UNCHANGED <<disk, path, fs_path, content>>

OnDisk(w) ==
    IF NameOf(fs_path[w]) \in Files THEN disk[NameOf(fs_path[w])] ELSE Absent

FileExists(w) ==
    /\ at[w] = "stat"
    /\ IF OnDisk(w) = Absent
       THEN Answer(w, 404, None)
       ELSE GoOn(w, "read") /\ UNCHANGED content
    /\ UNCHANGED <<cache_, lru_list_, current_size_, disk, path, fs_path, since>>

\* The file may have gone since it was looked at.
ReadFile(w) ==
    /\ at[w] = "read"
    /\ IF OnDisk(w) = Absent
       THEN Answer(w, 500, None)
       ELSE /\ content' = [content EXCEPT ![w] = OnDisk(w)]
            /\ GoOn(w, "put")
    /\ UNCHANGED <<cache_, lru_list_, current_size_, disk, path, fs_path, since>>

\* Whatever has happened since the read, the content goes into the cache and
\* out to the client; if it is too large the cache stays as it is, with any
\* older version of the file.
Fill(w) ==
    /\ at[w] = "put"
    /\ \/ /\ Put(fs_path[w], content[w])
          /\ since' = StillCached(Serving(fs_path[w]))
       \/ /\ PutTooLarge(fs_path[w], content[w])
          /\ UNCHANGED since
    /\ Answer(w, 200, content[w])
    /\ UNCHANGED <<disk, path, fs_path>>

\* The response is handed on and the worker is free.
Return(w) ==
    /\ at[w] = "answered"
    /\ at' = [at EXCEPT ![w] = "idle"]
    /\ path' = [path EXCEPT ![w] = None]
    /\ fs_path' = [fs_path EXCEPT ![w] = None]
    /\ content' = [content EXCEPT ![w] = None]
    /\ status' = [status EXCEPT ![w] = None]
    /\ UNCHANGED <<cache_, lru_list_, current_size_, disk, since>>

-----------------------------------------------------------------------------
(* The environment                                                          *)

\* A file is replaced, created or removed.
Deploy(f, data) ==
    /\ disk[f] # data
    /\ data # Absent => data.file = f
    /\ disk' = [disk EXCEPT ![f] = data]
    /\ UNCHANGED <<cache_, lru_list_, current_size_, since, handleVars>>

Tick ==
    /\ Age
    /\ UNCHANGED <<disk, since, handleVars>>

\* remove and clear, which the cache offers and nothing calls yet.
Maintain ==
    /\ Clear \/ \E k \in Keys : RemoveKey(k)
    /\ since' = StillCached(since)
    /\ UNCHANGED <<disk, handleVars>>

Handle(w) ==
    \/ Hit(w) \/ Miss(w) \/ FileExists(w) \/ ReadFile(w) \/ Fill(w) \/ Return(w)

Next ==
    \/ \E w \in Workers : Handle(w) \/ \E p \in Requests : Resolve(w, p)
    \/ \E f \in Files, data \in Contents \cup {Absent} : Deploy(f, data)
    \/ Tick
    \/ Maintain

\* A worker leaves its control point: what Handle(w), which is possible at
\* every point but "idle", does to at.
Proceed(w) ==
    /\ at[w] # "idle"
    /\ \E step \in {"idle", "stat", "read", "put", "answered"} :
          step # at[w] /\ at' = [at EXCEPT ![w] = step]

\* Workers that have begun go on and time passes; requests, deployments and
\* maintenance need not happen.
Spec ==
    /\ Init
    /\ [][Next]_vars
    /\ \A w \in Workers : WF_at(Proceed(w))
    /\ WF_cache_(Tick)

-----------------------------------------------------------------------------
(* What a path denotes, defined without a stack                             *)

Count(p, i, j, S) == Cardinality({n \in i..j : p[n] \in S})
Ups(p, i, j)   == Count(p, i, j, {".."})
Downs(p, i, j) == (j - i + 1) - Count(p, i, j, {"", ".", ".."})

\* Some first part of the path goes up more often than down.
Escapes(p) == \E j \in 1..Len(p) : Ups(p, 1, j) > Downs(p, 1, j)

\* The places of the names that no ".." up to place n takes back.
Stay(p, n) ==
    {i \in 1..n : /\ p[i] \notin {"", ".", ".."}
                  /\ \A j \in i..n : Ups(p, i + 1, j) <= Downs(p, i + 1, j)}

\* The i-th smallest of a set of numbers.
Nth(S, i) == CHOOSE n \in S : Cardinality({m \in S : m <= n}) = i

Denotes(p) ==
    LET kept == Stay(p, Len(p))
    IN  [i \in 1..Cardinality(kept) |-> p[Nth(kept, i)]]

\* The file system is asked for the directory's index, or for the path, and
\* sees either up to its first NUL.
DenotesDirectory(p) == IsDirectory(CString(Denotes(p)))
Wanted(p) ==
    CString(IF DenotesDirectory(p) THEN Append(Denotes(p), index_file) ELSE Denotes(p))

-----------------------------------------------------------------------------
(* Properties                                                               *)

\* Whatever "..", "." and empty segments a path has, the answer is about the
\* file it denotes: a path that would leave the root is refused and no other;
\* a directory without a final '/' is redirected; a body is that of the very
\* file denoted, through whichever cache key it went; and what is no file is
\* not found.  The segments are those of the whole decoded path, but the file
\* denoted is the one their names spell up to the first NUL, so a path that
\* goes on behind it is answered as if it ended there.
AnswersTheRequest ==
    \A w \in Workers : at[w] = "answered" =>
        LET p == path[w]
            bare == DenotesDirectory(p) /\ Last(p) # ""
        IN
        /\ status[w] = 403 <=> Escapes(p)
        /\ status[w] = 301 <=> ~Escapes(p) /\ bare
        /\ status[w] = 200 => content[w].file = Wanted(p)
        /\ ~Escapes(p) /\ ~bare /\ Wanted(p) \notin Files => status[w] = 404

\* put evicts what it must, by order of use, and no more: another entry goes
\* if and only if it does not fit beside the new one and all entries answered
\* from since.
EvictsWhatItMust ==
    [][\A w \in Workers : Fill(w) /\ content[w].size <= max_size_bytes_ =>
          \A k \in Cached \ {fs_path[w]} :
             cache_'[k] = Absent
                <=> Bytes((since[k] \cup {k}) \ {fs_path[w]}) + content[w].size
                       > max_size_bytes_
      ]_vars

\* The answer a worker gives is what is on disk.
CurrentAnswer(w) ==
    /\ status'[w] = 200 => content'[w] = disk[NameOf(fs_path'[w])]
    /\ status'[w] = 404 => OnDisk(w) = Absent
    /\ status'[w] # 500

\* A file that has changed under a cached or half-finished answer is served
\* in its old version for a time, never for ever: once the files change no
\* more, from some point on every answer is the file as it is, however often
\* a stale entry is asked for and whatever old content was still on its way
\* into the cache.
StaleNeverForever ==
    <>[][FALSE]_disk =>
    <>[][\A w \in Workers : at[w] # "answered" /\ at'[w] = "answered" => CurrentAnswer(w)]_at
=============================================================================

------------------------------- MODULE Assets -------------------------------
(***************************************************************************)
(* The thumbnails and waveforms of a medium (preview/assets and the two    *)
(* handlers in httpapi): requests that may carry an If-None-Match, a cache *)
(* on disk with a budget that may be lowered, and a file that is replaced, *)
(* written to and indexed anew meanwhile.                                  *)
(*                                                                         *)
(*  - A version of the file is its size and mtime; every change of it is a *)
(*    new one.  A range of the medium and a form are a Kind.               *)
(*  - Scanner.Open gives the file that was indexed or an error (Library).  *)
(*  - The mtime of a cached file, which orders the files by their last     *)
(*    use, is that order; the mutex makes a look-up and a publication one  *)
(*    step each.                                                           *)
(***************************************************************************)
EXTENDS Integers, FiniteSets

CONSTANTS
  Client, Kind,
  Size,       \* bytes of an asset of each kind
  Limit,      \* what MaxBytes may be set to
  Versions,   \* bound on the versions of the file
  None

AssetsAssumption ==
  /\ Size \in [Kind -> Nat \ {0}]
  /\ Limit # {} /\ Limit \subseteq Nat \ {0} /\ Versions \in Nat \ {0}

VARIABLES
  disk,       \* the version of the file
  catalog,    \* the version that is indexed
  cache,      \* what each cached asset was rendered from, by its key
  older,      \* which of two cached assets was used longer ago
  budget,     \* MaxBytes
  over,       \* history: the limit was lowered below what is cached
  step,       \* where each request is
  kind,       \* the asset it asks for
  known,      \* the version its If-None-Match stands for
  item,       \* the version the handler has read from the catalogue
  source,     \* the version of the file it has opened
  detached,   \* requests whose open file has lost its name
  reads,      \* the versions its ffmpeg has read from
  answer,     \* what it was told
  since       \* history: the versions the file has had since it came

media   == <<disk, catalog>>
store   == <<cache, older, budget, over>>
locals  == <<step, kind, known, item, source, detached, reads, answer>>
vars    == <<media, store, locals, since>>

\* The bytes of some assets: byte b of an asset is the asset with b.
Bytes(keys) == Cardinality(UNION {{k} \X (1..Size[k[1]]) : k \in keys})

Cached == DOMAIN cache

\* Only these assets are left, in the order they have.
Keep(assets, order, keys) ==
    /\ cache' = [k \in keys |-> assets[k]]
    /\ older' = order \cap (keys \X keys)

\* An asset that is used becomes the most recently used.
Touched(order, keys, key) ==
    {pair \in order : key \notin {pair[1], pair[2]}} \cup ((keys \ {key}) \X {key})

Init ==
    /\ disk = 1 /\ catalog = 1
    /\ cache = [k \in {} |-> {}] /\ older = {} /\ budget \in Limit /\ over = FALSE
    /\ step = [c \in Client |-> "idle"] /\ kind = [c \in Client |-> None]
    /\ known = [c \in Client |-> None] /\ item = [c \in Client |-> None]
    /\ source = [c \in Client |-> None] /\ detached = {}
    /\ reads = [c \in Client |-> {}] /\ answer = [c \in Client |-> None]
    /\ since = [c \in Client |-> {}]

At(c, at) == step[c] = at
Goto(c, at) == step' = [step EXCEPT ![c] = at]

\* The answer goes out, or an error; what the request knew is forgotten.
Reply(c, a) ==
    /\ answer' = [answer EXCEPT ![c] = a]
    /\ Goto(c, IF a = None THEN "idle" ELSE "answered")
    /\ kind' = [kind EXCEPT ![c] = None] /\ known' = [known EXCEPT ![c] = None]
    /\ item' = [item EXCEPT ![c] = None] /\ source' = [source EXCEPT ![c] = None]
    /\ reads' = [reads EXCEPT ![c] = {}] /\ detached' = detached \ {c}

-----------------------------------------------------------------------------
(* The handlers *)

\* The medium is read from the catalogue ...
Arrive(c) ==
    /\ At(c, "idle")
    /\ \E k \in Kind, v \in 1..disk \cup {None} :
          /\ kind' = [kind EXCEPT ![c] = k]
          /\ known' = [known EXCEPT ![c] = v]
    /\ item' = [item EXCEPT ![c] = catalog]
    /\ since' = [since EXCEPT ![c] = {disk}]
    /\ Goto(c, "validate")
    /\ UNCHANGED <<media, store, source, detached, reads, answer>>

\* ... ValidateSource opens it as it is indexed now, and the If-None-Match is
\* compared with what was read before.
Validate(c) ==
    /\ At(c, "validate")
    /\ IF catalog # disk THEN Reply(c, None)
       ELSE IF known[c] = item[c]
       THEN Reply(c, [status |-> "not_modified", of |-> {item[c]}])
       ELSE /\ Goto(c, "open")
            /\ known' = [known EXCEPT ![c] = None] /\ item' = [item EXCEPT ![c] = None]
            /\ UNCHANGED <<kind, source, detached, reads, answer>>
    /\ UNCHANGED <<media, store, since>>

\* The client reads its answer and goes.
Leave(c) ==
    /\ At(c, "answered")
    /\ Reply(c, None)
    /\ since' = [since EXCEPT ![c] = {}]
    /\ UNCHANGED <<media, store>>

-----------------------------------------------------------------------------
(* Thumbnails and Waveform *)

OpenSource(c) ==
    /\ At(c, "open")
    /\ IF catalog # disk THEN Reply(c, None)
       ELSE /\ source' = [source EXCEPT ![c] = disk]
            /\ Goto(c, "cached")
            /\ UNCHANGED <<kind, known, item, detached, reads, answer>>
    /\ UNCHANGED <<media, store, since>>

\* Fault: the key leaves the file's identity out.
KeyOfKind(c) == <<kind[c], 1>>

\* assetKey, from the record the file was opened with.
KeyOf(c) == <<kind[c], source[c]>>

\* Fault: eviction removes one asset only.
EvictOne(order, keys) ==
    {k \in keys : Bytes(keys) <= budget \/ \E j \in keys : <<j, k>> \in order}

\* evictLocked: the least recently used go until the rest fits, so an asset stays if it
\* fits together with those used since.
Evict(order, keys) ==
    {k \in keys : Bytes({k} \cup {j \in keys : <<k, j>> \in order}) <= budget}

\* A hit is touched.
LookUp(c) ==
    /\ At(c, "cached")
    /\ over' = FALSE
    /\ LET kept == Evict(older, Cached)
           key  == KeyOf(c) IN
       IF key \notin kept
       THEN /\ Keep(cache, older, kept)
            /\ reads' = [reads EXCEPT ![c] = {source[c]}]
            /\ Goto(c, "render") /\ UNCHANGED <<kind, known, item, source, detached, answer>>
       ELSE /\ Keep(cache, Touched(older, kept, key), kept)
            /\ Reply(c, [status |-> "hit", of |-> cache[key]])
    /\ UNCHANGED <<media, budget, since>>

\* ffmpeg has read the open file, without a second look at it, and the asset
\* takes the place of one of the same key.
Publish(c) ==
    /\ At(c, "render") /\ Size[kind[c]] <= budget
    /\ LET key   == KeyOf(c)
           keys  == Cached \cup {key}
           order == Touched(older, keys, key) IN
       Keep([k \in keys |-> IF k = key THEN reads[c] ELSE cache[k]], order, Evict(order, keys))
    /\ over' = FALSE
    /\ Reply(c, [status |-> "miss", of |-> reads[c]])
    /\ UNCHANGED <<media, budget, since>>

\* Cancelled after the rename: the file under the final name is removed.
Unpublish(c) ==
    /\ At(c, "render")
    /\ Keep(cache, older, Cached \ {KeyOf(c)})
    /\ Reply(c, None)
    /\ UNCHANGED <<media, budget, over, since>>

\* No process slot, an asset over the limit, an error or a cancellation.
Fail(c) ==
    /\ step[c] \in {"validate", "open", "cached", "render"}
    /\ Reply(c, None)
    /\ UNCHANGED <<media, store, since>>

-----------------------------------------------------------------------------
(* The settings, the library and the file system *)

SetMaxBytes(n) ==
    /\ budget' = n
    /\ over' = (over \/ Bytes(Cached) > n)
    /\ UNCHANGED <<media, cache, older, locals, since>>

Index ==
    /\ catalog' = disk
    /\ UNCHANGED <<disk, store, locals, since>>

Witness == since' = [c \in Client |-> IF step[c] = "idle" THEN {} ELSE since[c] \cup {disk'}]

\* Another file takes the name; whoever has the old one open goes on with it.
Replace ==
    /\ disk < Versions
    /\ disk' = disk + 1
    /\ detached' = {c \in Client : source[c] # None}
    /\ Witness
    /\ UNCHANGED <<catalog, store, step, kind, known, item, source, reads, answer>>

\* The file is written in place, and whoever has it open may read both.
Rewrite ==
    /\ disk < Versions
    /\ disk' = disk + 1
    /\ reads' = [c \in Client |-> IF step[c] = "render" /\ c \notin detached
                                  THEN reads[c] \cup {disk'} ELSE reads[c]]
    /\ Witness
    /\ UNCHANGED <<catalog, store, step, kind, known, item, source, detached, answer>>

-----------------------------------------------------------------------------

Next ==
    \/ \E c \in Client :
          \/ Arrive(c) \/ Validate(c) \/ OpenSource(c) \/ LookUp(c)
          \/ Publish(c) \/ Unpublish(c) \/ Fail(c) \/ Leave(c)
    \/ \E n \in Limit : SetMaxBytes(n)
    \/ Index \/ Replace \/ Rewrite

Spec == Init /\ [][Next]_vars

-----------------------------------------------------------------------------
(* Properties *)

\* What a request is shown, from the cache or just rendered, comes from
\* versions the file has had while the request was there: nothing older is
\* served from the cache, however replacement, indexing and other requests
\* interleave with it.
FreshBytes ==
    \A c \in Client : answer[c] # None /\ answer[c].status # "not_modified" =>
        answer[c].of \subseteq since[c]

\* Whatever the limit and however large the assets, the cache is within its
\* budget once anybody has used it after the limit was lowered.
WithinBudget == over \/ Bytes(Cached) <= budget
=============================================================================

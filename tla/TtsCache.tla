------------------------------ MODULE TtsCache ------------------------------
(***************************************************************************)
(* The on-disk cache of speech (src/crates/server/src/engine/cache.rs).    *)
(*                                                                         *)
(* TtsCache has no lock.  get runs in a connection's task, put in the tee  *)
(* task of a cache miss, and each is a sequence of file operations that    *)
(* others interleave with; a crash may fall between any two.  An entry is  *)
(* a pair of files: the waveform (pcm) and its metadata (meta).  fs::write *)
(* truncates the file and then fills it, so it is two steps; fs::rename    *)
(* is one.  last_accessed_unix only breaks ties between equal hits, which  *)
(* are here broken either way.                                             *)
(***************************************************************************)
EXTENDS Integers, FiniteSets

CONSTANTS Keys,      \* digests
          Tasks,     \* calls of get and put
          Uses,      \* ways the cache is used
          MaxHits,   \* bound: more hits than this are not told apart
          Nothing    \* no such file, or no value

\* A use of the cache: the calls that run at the same time, the digests and
\* the sizes of waveforms they have, max_bytes, and whether I/O errors and
\* crashes happen.
ASSUME TtsCacheAssumption ==
  /\ IsFiniteSet(Keys) /\ IsFiniteSet(Tasks) /\ MaxHits \in Nat
  /\ \A u \in Uses :
       /\ u.tasks \subseteq Tasks /\ u.keys \subseteq Keys
       /\ u.sizes \subseteq Nat /\ u.max_bytes \in Nat
       /\ u.faults \in BOOLEAN
       /\ Nothing \notin [of : u.keys, size : u.sizes, whole : BOOLEAN]
  /\ Nothing \notin [hits : Int, bytes : Int]

VARIABLES
  use,     \* the use of the cache that is made
  pcm,     \* key -> the waveform file
  meta,    \* key -> the metadata file
  tmp,     \* path -> the temporary file put writes before the rename
  pc,      \* task -> where the call is
  key,     \* task -> its digest
  wave,    \* task -> the waveform it stores, or has read
  mine,    \* task -> the metadata it is about to write; Nothing once the
           \* file it has open for that is deleted
  left,    \* task -> keys evict_if_needed has not listed yet
  seen,    \* task -> the metadata it has listed
  total,   \* task -> its total_bytes
  answer   \* task -> what its last get returned

files == <<pcm, meta, tmp>>
vars == <<use, pcm, meta, tmp, pc, key, wave, mine, left, seen, total, answer>>

Wave == [of : use.keys, size : use.sizes, whole : BOOLEAN]
Meta == [hits : 0..MaxHits, bytes : use.sizes]
Torn == [hits |-> -1, bytes |-> -1]     \* empty, or not JSON: unreadable

\* Mutant of Readable: metadata is taken as it is, parsed or not.
ReadableUnparsed(k) == meta[k] # Nothing

Readable(k) == meta[k] \notin {Nothing, Torn}

TypeOK ==
  /\ pcm \in [Keys -> Wave \cup {Nothing}]
  /\ meta \in [Keys -> Meta \cup {Torn, Nothing}]
  /\ tmp \in [Keys \X Tasks -> Wave \cup {Nothing}]
  /\ pc \in [Tasks -> {"idle", "getMeta", "getTruncate", "getWrite", "putData",
                       "putRename", "putTruncate", "putMeta", "scan", "evict",
                       "evictMeta"}]
  /\ key \in [Tasks -> Keys]
  /\ wave \in [Tasks -> Wave \cup {Nothing}]
  /\ mine \in [Tasks -> Meta \cup {Nothing}]
  /\ left \in [Tasks -> SUBSET Keys]
  /\ seen \in [Tasks -> [Keys -> Meta \cup {Nothing}]]
  /\ total \in [Tasks -> Nat]
  /\ answer \in [Tasks -> Wave \cup {Nothing}]

Init ==
  /\ use \in Uses
  /\ pcm = [k \in Keys |-> Nothing]
  /\ meta = [k \in Keys |-> Nothing]
  /\ tmp = [p \in Keys \X Tasks |-> Nothing]
  /\ pc = [t \in Tasks |-> "idle"]
  /\ key \in {[t \in Tasks |-> k] : k \in use.keys}
  /\ wave = [t \in Tasks |-> Nothing]
  /\ mine = [t \in Tasks |-> Nothing]
  /\ left = [t \in Tasks |-> {}]
  /\ seen = [t \in Tasks |-> [k \in Keys |-> Nothing]]
  /\ total = [t \in Tasks |-> 0]
  /\ answer = [t \in Tasks |-> Nothing]

-----------------------------------------------------------------------------
At(t, from) == pc[t] = from
GoTo(t, to) == pc' = [pc EXCEPT ![t] = to]

\* The call returns and its locals are gone.
Return(t, result) ==
  /\ GoTo(t, "idle")
  /\ answer' = [answer EXCEPT ![t] = result]
  /\ wave' = [wave EXCEPT ![t] = Nothing]
  /\ mine' = [mine EXCEPT ![t] = Nothing]
  /\ left' = [left EXCEPT ![t] = {}]
  /\ seen' = [seen EXCEPT ![t] = [k \in Keys |-> Nothing]]
  /\ total' = [total EXCEPT ![t] = 0]

locals == <<left, seen, total>>

(***************************************************************************)
(* fs::write(meta_path): truncate or create, then fill.  When another      *)
(* write has filled the file meanwhile, the shorter text may leave the     *)
(* tail of the longer one behind it; when an eviction has deleted it, what *)
(* is written goes to a file without a name.                               *)
(***************************************************************************)
TruncateMeta(t) == meta' = [meta EXCEPT ![key[t]] = Torn]

FillMeta(t) ==
  \/ mine[t] # Nothing /\ meta' = [meta EXCEPT ![key[t]] = mine[t]]
  \/ mine[t] # Nothing /\ Readable(key[t]) /\ TruncateMeta(t)
  \/ mine[t] = Nothing /\ UNCHANGED meta

\* fs::remove_file(meta_path), under the calls that have the file open.
RemoveMeta(k) ==
  /\ meta' = [meta EXCEPT ![k] = Nothing]
  /\ mine' = [t \in Tasks |->
       IF key[t] = k /\ pc[t] \in {"getWrite", "putMeta"} THEN Nothing
       ELSE mine[t]]

(***************************************************************************)
(* get                                                                     *)
(***************************************************************************)
\* The waveform is read; none, or an empty one, is a miss.
Get(t, k) ==
  /\ At(t, "idle")
  /\ key' = [key EXCEPT ![t] = k]
  /\ IF pcm[k] = Nothing \/ (pcm[k] # Nothing /\ pcm[k].size = 0)
       THEN Return(t, Nothing)
       ELSE /\ wave' = [wave EXCEPT ![t] = pcm[k]]
            /\ answer' = [answer EXCEPT ![t] = Nothing]
            /\ GoTo(t, "getMeta")
            /\ UNCHANGED <<mine, locals>>
  /\ UNCHANGED files

\* Metadata that is missing or unreadable is a miss.
GetMeta(t) ==
  /\ At(t, "getMeta")
  /\ IF Readable(key[t])
       THEN /\ mine' = [mine EXCEPT ![t] = [meta[key[t]] EXCEPT
                              !.hits = IF @ < MaxHits THEN @ + 1 ELSE @]]
            /\ GoTo(t, "getTruncate")
            /\ UNCHANGED <<wave, locals, answer>>
       ELSE Return(t, Nothing)
  /\ UNCHANGED <<files, key>>

GetTruncate(t) ==
  /\ At(t, "getTruncate")
  /\ TruncateMeta(t)
  /\ GoTo(t, "getWrite")
  /\ UNCHANGED <<pcm, tmp, key, wave, mine, locals, answer>>

GetWrite(t) ==
  /\ At(t, "getWrite")
  /\ FillMeta(t)
  /\ Return(t, wave[t])
  /\ UNCHANGED <<pcm, tmp, key>>

\* A metadata update that fails is logged; the waveform is returned.
GetUpdateFails(t) ==
  /\ use.faults /\ pc[t] \in {"getTruncate", "getWrite"}
  /\ Return(t, wave[t])
  /\ UNCHANGED <<files, key>>

(***************************************************************************)
(* put                                                                     *)
(***************************************************************************)
\* Mutant of TmpPath: no nonce, every put of a digest writes one path.
SharedTmpPath(t, k) == <<k, CHOOSE u \in Tasks : TRUE>>

\* The nonce of TMP_FILE_COUNTER makes the path this call's own.
TmpPath(t, k) == <<k, t>>

\* The temporary file is created empty, then filled.
Put(t, k, size) ==
  /\ At(t, "idle")
  /\ key' = [key EXCEPT ![t] = k]
  /\ wave' = [wave EXCEPT ![t] = [of |-> k, size |-> size, whole |-> TRUE]]
  /\ tmp' = [tmp EXCEPT ![TmpPath(t, k)] =
                               [of |-> k, size |-> size, whole |-> FALSE]]
  /\ answer' = [answer EXCEPT ![t] = Nothing]
  /\ GoTo(t, "putData")
  /\ UNCHANGED <<pcm, meta, mine, locals>>

PutData(t) ==
  /\ At(t, "putData")
  /\ tmp' = [tmp EXCEPT ![TmpPath(t, key[t])] = wave[t]]
  /\ GoTo(t, "putRename")
  /\ UNCHANGED <<pcm, meta, key, wave, mine, locals, answer>>

PutRename(t) ==
  /\ At(t, "putRename")
  /\ IF tmp[TmpPath(t, key[t])] = Nothing
       THEN Return(t, Nothing) /\ UNCHANGED files
       ELSE /\ pcm' = [pcm EXCEPT ![key[t]] = tmp[TmpPath(t, key[t])]]
            /\ tmp' = [tmp EXCEPT ![TmpPath(t, key[t])] = Nothing]
            /\ GoTo(t, "putTruncate")
            /\ UNCHANGED <<meta, wave, mine, locals, answer>>
  /\ UNCHANGED key

\* A fresh entry has no hits, whatever the one it replaces had.
PutTruncate(t) ==
  /\ At(t, "putTruncate")
  /\ TruncateMeta(t)
  /\ mine' = [mine EXCEPT ![t] = [hits |-> 0, bytes |-> wave[t].size]]
  /\ GoTo(t, "putMeta")
  /\ UNCHANGED <<pcm, tmp, key, wave, locals, answer>>

\* Then evict_if_needed begins to list the directory.
PutMeta(t) ==
  /\ At(t, "putMeta")
  /\ FillMeta(t)
  /\ mine' = [mine EXCEPT ![t] = Nothing]
  /\ left' = [left EXCEPT ![t] = use.keys]
  /\ GoTo(t, "scan")
  /\ UNCHANGED <<pcm, tmp, key, wave, seen, total, answer>>

\* put returns the error of any of its writes, and leaves its files behind.
PutFails(t) ==
  /\ use.faults /\ pc[t] \in {"putData", "putRename", "putTruncate", "putMeta"}
  /\ Return(t, Nothing)
  /\ UNCHANGED <<files, key>>

(***************************************************************************)
(* evict_if_needed                                                         *)
(***************************************************************************)
\* One metadata file is read; what is missing or unreadable, or cannot be
\* read, does not count.
Scan(t) ==
  /\ At(t, "scan")
  /\ \E k \in left[t] :
       /\ left' = [left EXCEPT ![t] = @ \ {k}]
       /\ \/ /\ Readable(k)
             /\ seen' = [seen EXCEPT ![t][k] = meta[k]]
             /\ total' = [total EXCEPT ![t] = @ + meta[k].bytes]
          \/ (use.faults \/ ~Readable(k)) /\ UNCHANGED <<seen, total>>
  /\ UNCHANGED <<files, pc, key, wave, mine, answer>>

\* A directory cannot be listed: nothing is evicted, which put only logs.
ScanFails(t) ==
  /\ use.faults /\ At(t, "scan")
  /\ Return(t, Nothing)
  /\ UNCHANGED <<files, key>>

Listed(t) == {k \in Keys : seen[t][k] # Nothing}

Scanned(t) ==
  /\ At(t, "scan") /\ left[t] = {}
  /\ GoTo(t, "evict")
  /\ UNCHANGED <<files, key, wave, mine, locals, answer>>

\* Mutant of Coldest: the entries are not sorted.
AnyListed(t) == Listed(t)

\* Least used first, as the sort leaves them.
Coldest(t) ==
  {k \in Listed(t) : \A j \in Listed(t) : seen[t][k].hits <= seen[t][j].hits}

EvictDone(t) ==
  /\ At(t, "evict") /\ (total[t] <= use.max_bytes \/ Listed(t) = {})
  /\ Return(t, Nothing)
  /\ UNCHANGED <<files, key>>

\* u64::saturating_sub
Less(n, m) == IF n > m THEN n - m ELSE 0

\* Mutant of EvictPcm: one eviction is taken to be enough.
EvictPcmOnce(t) ==
  /\ At(t, "evict") /\ total[t] > use.max_bytes
  /\ \E k \in Coldest(t) :
       /\ pcm' = [pcm EXCEPT ![k] = Nothing]
       /\ key' = [key EXCEPT ![t] = k]
       /\ total' = [total EXCEPT ![t] = 0]
  /\ GoTo(t, "evictMeta")
  /\ UNCHANGED <<meta, tmp, wave, mine, left, seen, answer>>

\* Either file may stay, when it cannot be deleted; the entry is counted out.
EvictPcm(t) ==
  /\ At(t, "evict") /\ total[t] > use.max_bytes
  /\ \E k \in Coldest(t) :
       /\ \/ pcm' = [pcm EXCEPT ![k] = Nothing]
          \/ use.faults /\ UNCHANGED pcm
       /\ key' = [key EXCEPT ![t] = k]
       /\ total' = [total EXCEPT ![t] = Less(@, seen[t][k].bytes)]
  /\ GoTo(t, "evictMeta")
  /\ UNCHANGED <<meta, tmp, wave, mine, left, seen, answer>>

\* Mutant of EvictMeta: the metadata file is forgotten.
EvictKeepsMeta(t) ==
  /\ At(t, "evictMeta")
  /\ seen' = [seen EXCEPT ![t][key[t]] = Nothing]
  /\ GoTo(t, "evict")
  /\ UNCHANGED <<files, key, wave, mine, left, total, answer>>

EvictMeta(t) ==
  /\ At(t, "evictMeta")
  /\ RemoveMeta(key[t]) \/ (use.faults /\ UNCHANGED <<meta, mine>>)
  /\ seen' = [seen EXCEPT ![t][key[t]] = Nothing]
  /\ GoTo(t, "evict")
  /\ UNCHANGED <<pcm, tmp, key, wave, left, total, answer>>

\* The process dies between two file operations; the files stay.
Crash ==
  /\ use.faults /\ \E t \in use.tasks : pc[t] # "idle"
  /\ pc' = [t \in Tasks |-> "idle"]
  /\ wave' = [t \in Tasks |-> Nothing] /\ mine' = [t \in Tasks |-> Nothing]
  /\ left' = [t \in Tasks |-> {}] /\ total' = [t \in Tasks |-> 0]
  /\ seen' = [t \in Tasks |-> [k \in Keys |-> Nothing]]
  /\ answer' = [t \in Tasks |-> Nothing]
  /\ UNCHANGED <<files, key>>

Step(t) ==
  \/ \E k \in use.keys : Get(t, k) \/ \E size \in use.sizes : Put(t, k, size)
  \/ GetMeta(t) \/ GetTruncate(t) \/ GetWrite(t) \/ GetUpdateFails(t)
  \/ PutData(t) \/ PutRename(t) \/ PutTruncate(t) \/ PutMeta(t) \/ PutFails(t)
  \/ Scan(t) \/ ScanFails(t) \/ Scanned(t)
  \/ EvictPcm(t) \/ EvictMeta(t) \/ EvictDone(t)

Next == (Crash \/ \E t \in use.tasks : Step(t)) /\ UNCHANGED use

Spec == Init /\ [][Next]_vars

-----------------------------------------------------------------------------
(***************************************************************************)
(* Properties                                                              *)
(***************************************************************************)
\* A hit is a whole waveform that was put for this very digest: no
\* interleaving of gets, puts and evictions, no failed write and no crash lets
\* a caller hear part of one or another text's (put: `a concurrent get never
\* observes a partial write').
HitIsWhole ==
  \A t \in Tasks :
    answer[t] # Nothing => answer[t].whole /\ answer[t].of = key[t]

Stored == {k \in Keys : pcm[k] # Nothing}

\* Each byte of the waveforms of these digests.
BytesIn(keys) == UNION {{k} \X (1..pcm[k].size) : k \in keys}

\* No call is in progress, and none has ever overlapped another or failed.
Orderly ==
  /\ Cardinality(use.tasks) = 1 /\ ~use.faults
  /\ \A t \in Tasks : pc[t] = "idle"

\* The waveforms on disk fit the configured maximum size (lib.rs:116, `Maximum
\* size of the TTS cache') whenever calls have come one after the other.
SizeBounded == Orderly => Cardinality(BytesIn(Stored)) <= use.max_bytes

\* After calls that came one after the other every entry is a pair of files,
\* and its metadata tells the size of its waveform, which is what eviction
\* counts by.
EntriesArePairs ==
  Orderly => \A k \in Keys :
    /\ pcm[k] # Nothing <=> meta[k] # Nothing
    /\ pcm[k] # Nothing => Readable(k) /\ meta[k].bytes = pcm[k].size

\* A call that nothing overlaps never evicts an entry while it keeps one that
\* was used less (TtsCache, `Eviction': lowest hits first).
ColdestGoFirst ==
  [][\A t \in Tasks :
       use.tasks = {t} /\ ~use.faults /\ At(t, "evict") /\ pc'[t] = "evictMeta" =>
       \A k \in Stored : pcm'[k] # Nothing =>
         meta[key'[t]].hits <= meta[k].hits]_vars
=============================================================================

--------------------------- MODULE TtsCacheProofs ---------------------------
(***************************************************************************)
(* Theorems about the cache on disk, for any number of digests, of calls   *)
(* and of bytes.                                                           *)
(*                                                                         *)
(* However calls overlap, fail and crash, a hit is a whole waveform that   *)
(* was put for the digest asked for (CacheInv), and the files keep their   *)
(* types (TypeInv).  When calls come one after the other, every entry is a *)
(* pair of files, the pairs fit the configured size, and those least used  *)
(* go first: AloneInv follows the one entry that is half written or half   *)
(* evicted, and the sum of what evict_if_needed has listed.                *)
(***************************************************************************)
EXTENDS TtsCache, TLAPS, FiniteSetTheorems

USE DEF files, locals, At, GoTo

Shape ==
  /\ use \in Uses /\ key \in [Tasks -> Keys]
  /\ DOMAIN pc = Tasks /\ DOMAIN wave = Tasks /\ DOMAIN answer = Tasks
  /\ DOMAIN pcm = Keys /\ DOMAIN tmp = Keys \X Tasks

WholeOf(w, k) == w.whole /\ w.of = k

\* What is renamed onto a waveform file is whole, and so is the file.
FileInv == \A k \in Keys : pcm[k] # Nothing => WholeOf(pcm[k], k)

\* A call that has a waveform in hand has a whole one, of its own digest, and
\* has written no other to the temporary path that it alone uses.
CallInv(t) ==
  /\ answer[t] # Nothing => pc[t] = "idle" /\ WholeOf(answer[t], key[t])
  /\ pc[t] \in {"getMeta", "getTruncate", "getWrite", "putData", "putRename"} =>
       WholeOf(wave[t], key[t])
  /\ pc[t] = "putRename" => tmp[<<key[t], t>>] \in {Nothing, wave[t]}

CacheInv == Shape /\ FileInv /\ \A t \in Tasks : CallInv(t)

\* A step of t leaves the other calls alone, and their temporary paths.
OnlyOf(t) ==
  \A s \in Tasks \ {t} :
    /\ pc'[s] = pc[s] /\ key'[s] = key[s]
    /\ wave'[s] = wave[s] /\ answer'[s] = answer[s]
    /\ \A k \in Keys : tmp'[<<k, s>>] = tmp[<<k, s>>]

\* Calls that a step leaves alone keep their part of the invariant.
LEMMA Others ==
  ASSUME CacheInv, NEW t \in Tasks, OnlyOf(t), Shape', FileInv', CallInv(t)'
  PROVE  CacheInv'
<1>1. ASSUME NEW s \in Tasks \ {t}
      PROVE  CallInv(s)'
  <2>1. key[s] \in Keys /\ CallInv(s)
    BY DEF CacheInv, Shape
  <2> QED BY <2>1 DEF OnlyOf, CallInv
<1> QED BY <1>1 DEF CacheInv

\* A call that returns has nothing in hand but what it returns.
LEMMA Returns ==
  ASSUME Shape, FileInv, NEW t \in Tasks, NEW result, Return(t, result),
         \A s \in Tasks \ {t} : key'[s] = key[s], key' \in [Tasks -> Keys],
         UNCHANGED <<use, pcm, tmp>>,
         result # Nothing => WholeOf(result, key'[t])
  PROVE  OnlyOf(t) /\ Shape' /\ FileInv' /\ CallInv(t)'
<1>1. pc'[t] = "idle" /\ answer'[t] = result
  BY DEF Shape, Return
<1>2. Shape' /\ OnlyOf(t)
  BY DEF Shape, Return, OnlyOf
<1>3. FileInv'
  BY DEF FileInv
<1> QED BY <1>1, <1>2, <1>3 DEF CallInv

\* What get reads of a file it may return.
LEMMA Get_Cache ==
  ASSUME CacheInv, NEW t \in Tasks, NEW k \in Keys, Get(t, k), UNCHANGED use
  PROVE  CacheInv'
<1>1. /\ key' = [key EXCEPT ![t] = k] /\ key'[t] = k
      /\ key' \in [Tasks -> Keys] /\ UNCHANGED files
  BY DEF CacheInv, Shape, Get
<1>2. CASE Return(t, Nothing)
  <2>1. OnlyOf(t) /\ Shape' /\ FileInv' /\ CallInv(t)'
    BY <1>1, <1>2, Returns DEF CacheInv, Shape
  <2> QED BY <2>1, Others
<1>3. CASE ~Return(t, Nothing)
  <2>1. /\ pcm[k] # Nothing /\ wave' = [wave EXCEPT ![t] = pcm[k]]
        /\ answer' = [answer EXCEPT ![t] = Nothing]
        /\ pc' = [pc EXCEPT ![t] = "getMeta"]
    BY <1>3 DEF Get
  <2>2. Shape' /\ OnlyOf(t)
    BY <1>1, <2>1 DEF CacheInv, Shape, OnlyOf
  <2>3. FileInv'
    BY <1>1 DEF CacheInv, FileInv
  <2>4. wave'[t] = pcm[k] /\ answer'[t] = Nothing /\ pc'[t] = "getMeta"
    BY <2>1 DEF CacheInv, Shape
  <2>5. CallInv(t)'
    BY <1>1, <2>1, <2>4 DEF CacheInv, FileInv, CallInv
  <2> QED BY <2>2, <2>3, <2>5, Others
<1> QED BY <1>2, <1>3

\* The other steps of get keep what it has read, or return it.
LEMMA Getting_Cache ==
  ASSUME CacheInv, NEW t \in Tasks, UNCHANGED use,
         GetMeta(t) \/ GetTruncate(t) \/ GetWrite(t) \/ GetUpdateFails(t)
  PROVE  CacheInv'
<1>1. /\ pc[t] \in {"getMeta", "getTruncate", "getWrite"}
      /\ UNCHANGED <<pcm, tmp, key>>
  BY DEF GetMeta, GetTruncate, GetWrite, GetUpdateFails
<1>2. Shape /\ FileInv /\ CallInv(t) /\ key' \in [Tasks -> Keys]
  BY <1>1 DEF CacheInv, Shape
<1>3. ASSUME NEW result \in {Nothing, wave[t]}, Return(t, result)
      PROVE  CacheInv'
  <2>1. result # Nothing => WholeOf(result, key'[t])
    BY <1>1, <1>2 DEF CallInv
  <2>2. OnlyOf(t) /\ Shape' /\ FileInv' /\ CallInv(t)'
    BY <1>1, <1>2, <1>3, <2>1, Returns
  <2> QED BY <2>2, Others
<1>4. CASE /\ UNCHANGED <<wave, answer>>
           /\ \/ pc' = [pc EXCEPT ![t] = "getTruncate"]
              \/ pc' = [pc EXCEPT ![t] = "getWrite"]
  <2>1. Shape' /\ OnlyOf(t) /\ FileInv'
    BY <1>1, <1>2, <1>4 DEF Shape, OnlyOf, FileInv
  <2>2. pc'[t] \in {"getTruncate", "getWrite"}
    BY <1>2, <1>4 DEF Shape
  <2>3. CallInv(t)'
    BY <1>1, <1>2, <1>4, <2>2 DEF CallInv
  <2> QED BY <2>1, <2>3, Others
<1>5. \/ Return(t, Nothing) \/ Return(t, wave[t])
      \/ /\ UNCHANGED <<wave, answer>>
         /\ \/ pc' = [pc EXCEPT ![t] = "getTruncate"]
            \/ pc' = [pc EXCEPT ![t] = "getWrite"]
  BY DEF GetMeta, GetTruncate, GetWrite, GetUpdateFails
<1> QED BY <1>3, <1>4, <1>5

\* put begins with a temporary file of its own.
LEMMA Put_Cache ==
  ASSUME CacheInv, NEW t \in Tasks, NEW k \in Keys, NEW size, Put(t, k, size),
         UNCHANGED use
  PROVE  CacheInv'
<1>1. /\ key'[t] = k /\ key' \in [Tasks -> Keys] /\ pc'[t] = "putData"
      /\ wave'[t] = [of |-> k, size |-> size, whole |-> TRUE]
      /\ answer'[t] = Nothing
  BY DEF CacheInv, Shape, Put
<1>2. Shape'
  BY <1>1 DEF CacheInv, Shape, Put
<1>3. OnlyOf(t)
  BY DEF CacheInv, Shape, Put, OnlyOf, TmpPath
<1>4. FileInv'
  BY DEF CacheInv, FileInv, Put
<1>5. CallInv(t)'
  BY <1>1 DEF CallInv, WholeOf
<1> QED BY <1>2, <1>3, <1>4, <1>5, Others

\* The temporary file is filled.
LEMMA PutData_Cache ==
  ASSUME CacheInv, NEW t \in Tasks, PutData(t), UNCHANGED use
  PROVE  CacheInv'
<1>1. /\ pc[t] = "putData" /\ pc'[t] = "putRename"
      /\ UNCHANGED <<pcm, key, wave, answer>>
      /\ tmp' = [tmp EXCEPT ![<<key[t], t>>] = wave[t]]
      /\ key[t] \in Keys
  BY DEF CacheInv, Shape, PutData, TmpPath
<1>2. Shape'
  BY <1>1 DEF CacheInv, Shape, PutData
<1>3. OnlyOf(t)
  BY <1>1 DEF CacheInv, Shape, PutData, OnlyOf
<1>4. FileInv'
  BY <1>1 DEF CacheInv, FileInv
<1>5. tmp'[<<key[t], t>>] = wave[t]
  BY <1>1 DEF CacheInv, Shape
<1>6. CallInv(t)'
  BY <1>1, <1>5 DEF CacheInv, CallInv
<1> QED BY <1>2, <1>3, <1>4, <1>6, Others

\* Only a file that is filled is renamed.
LEMMA PutRename_Cache ==
  ASSUME CacheInv, NEW t \in Tasks, PutRename(t), UNCHANGED use
  PROVE  CacheInv'
<1>1. /\ pc[t] = "putRename" /\ UNCHANGED key /\ key[t] \in Keys
      /\ Shape /\ FileInv /\ CallInv(t)
  BY DEF CacheInv, Shape, PutRename
<1>2. CASE tmp[<<key[t], t>>] = Nothing
  <2>1. Return(t, Nothing) /\ UNCHANGED files /\ key' \in [Tasks -> Keys]
    BY <1>1, <1>2 DEF PutRename, TmpPath, Shape
  <2>2. OnlyOf(t) /\ Shape' /\ FileInv' /\ CallInv(t)'
    BY <1>1, <2>1, Returns
  <2> QED BY <2>2, Others
<1>3. CASE tmp[<<key[t], t>>] # Nothing
  <2>1. /\ pcm' = [pcm EXCEPT ![key[t]] = tmp[<<key[t], t>>]]
        /\ tmp' = [tmp EXCEPT ![<<key[t], t>>] = Nothing]
        /\ pc' = [pc EXCEPT ![t] = "putTruncate"]
        /\ UNCHANGED <<wave, answer>>
    BY <1>3 DEF PutRename, TmpPath
  <2>2. WholeOf(tmp[<<key[t], t>>], key[t])
    BY <1>1, <1>3 DEF CallInv
  <2>3. FileInv'
    BY <1>1, <2>1, <2>2 DEF Shape, FileInv
  <2>4. Shape'
    BY <1>1, <2>1 DEF Shape
  <2>5. OnlyOf(t)
    BY <1>1, <2>1 DEF Shape, OnlyOf
  <2>6. pc'[t] = "putTruncate"
    BY <1>1, <2>1 DEF Shape
  <2>7. CallInv(t)'
    BY <1>1, <2>1, <2>6 DEF CallInv
  <2> QED BY <2>3, <2>4, <2>5, <2>7, Others
<1> QED BY <1>2, <1>3

\* What put and the eviction do later touches no waveform but to remove it.
LEMMA Later_Cache ==
  ASSUME CacheInv, NEW t \in Tasks, UNCHANGED use,
         \/ PutTruncate(t) \/ PutMeta(t) \/ PutFails(t) \/ Scan(t) \/ ScanFails(t)
         \/ Scanned(t) \/ EvictPcm(t) \/ EvictMeta(t) \/ EvictDone(t)
  PROVE  CacheInv'
<1>1. Shape /\ FileInv /\ CallInv(t)
  BY DEF CacheInv
<1>2. CASE PutFails(t) \/ ScanFails(t) \/ EvictDone(t)
  <2>1. Return(t, Nothing) /\ UNCHANGED <<files, key>> /\ key' \in [Tasks -> Keys]
    BY <1>1, <1>2 DEF PutFails, ScanFails, EvictDone, Shape
  <2>2. OnlyOf(t) /\ Shape' /\ FileInv' /\ CallInv(t)'
    BY <1>1, <2>1, Returns
  <2> QED BY <2>2, Others
<1>3. CASE PutTruncate(t) \/ PutMeta(t) \/ Scan(t) \/ Scanned(t) \/ EvictMeta(t)
  <2>1. UNCHANGED <<pcm, tmp, key, wave, answer>>
    BY <1>3 DEF PutTruncate, PutMeta, Scan, Scanned, EvictMeta
  <2>2. /\ pc[t] # "idle" /\ DOMAIN pc' = Tasks
        /\ pc'[t] \in {"putMeta", "scan", "evict"}
        /\ \A s \in Tasks \ {t} : pc'[s] = pc[s]
    BY <1>1, <1>3 DEF Shape, PutTruncate, PutMeta, Scan, Scanned, EvictMeta
  <2>3. Shape' /\ OnlyOf(t) /\ FileInv'
    BY <1>1, <2>1, <2>2 DEF Shape, OnlyOf, FileInv
  <2>4. CallInv(t)'
    BY <1>1, <2>1, <2>2 DEF CallInv
  <2> QED BY <2>3, <2>4, Others
<1>4. CASE EvictPcm(t)
  <2>1. /\ pc[t] = "evict" /\ pc' = [pc EXCEPT ![t] = "evictMeta"]
        /\ UNCHANGED <<tmp, wave, answer>>
    BY <1>4 DEF EvictPcm
  <2>2. PICK k \in Keys : /\ pcm' = [pcm EXCEPT ![k] = Nothing] \/ UNCHANGED pcm
                          /\ key' = [key EXCEPT ![t] = k]
    BY <1>4 DEF EvictPcm, Coldest, Listed
  <2>3. Shape'
    BY <1>1, <2>1, <2>2 DEF Shape
  <2>4. OnlyOf(t)
    BY <1>1, <2>1, <2>2 DEF Shape, OnlyOf
  <2>5. FileInv'
    BY <1>1, <2>2 DEF Shape, FileInv
  <2>6. pc'[t] = "evictMeta"
    BY <1>1, <2>1 DEF Shape
  <2>7. CallInv(t)'
    BY <1>1, <2>1, <2>6 DEF CallInv
  <2> QED BY <2>3, <2>4, <2>5, <2>7, Others
<1> QED BY <1>2, <1>3, <1>4

\* A crash leaves the files, and no call.
LEMMA Crash_Cache ==
  ASSUME CacheInv, Crash, UNCHANGED use
  PROVE  CacheInv'
<1>1. Shape' /\ FileInv'
  BY DEF CacheInv, Shape, FileInv, Crash
<1>2. \A t \in Tasks : pc'[t] = "idle" /\ answer'[t] = Nothing
  BY DEF Crash
<1> QED BY <1>1, <1>2 DEF CacheInv, CallInv

\* No step breaks the invariant.
LEMMA Next_Cache ==
  ASSUME CacheInv, [Next]_vars
  PROVE  CacheInv'
<1>1. CASE UNCHANGED vars
  BY <1>1 DEF vars, CacheInv, Shape, FileInv, CallInv
<1>2. CASE Crash /\ UNCHANGED use
  BY <1>2, Crash_Cache
<1>3. ASSUME NEW t \in use.tasks, Step(t), UNCHANGED use
      PROVE  CacheInv'
  <2>1. t \in Tasks /\ use.keys \subseteq Keys
    BY TtsCacheAssumption DEF CacheInv, Shape
  <2>2. ASSUME NEW k \in use.keys, Get(t, k)
        PROVE  CacheInv'
    BY <1>3, <2>1, <2>2, Get_Cache
  <2>3. ASSUME NEW k \in use.keys, NEW size \in use.sizes, Put(t, k, size)
        PROVE  CacheInv'
    BY <1>3, <2>1, <2>3, Put_Cache
  <2>4. CASE GetMeta(t) \/ GetTruncate(t) \/ GetWrite(t) \/ GetUpdateFails(t)
    BY <1>3, <2>1, <2>4, Getting_Cache
  <2>5. CASE PutData(t)
    BY <1>3, <2>1, <2>5, PutData_Cache
  <2>6. CASE PutRename(t)
    BY <1>3, <2>1, <2>6, PutRename_Cache
  <2>7. CASE \/ PutTruncate(t) \/ PutMeta(t) \/ PutFails(t) \/ Scan(t) \/ ScanFails(t)
             \/ Scanned(t) \/ EvictPcm(t) \/ EvictMeta(t) \/ EvictDone(t)
    BY <1>3, <2>1, <2>7, Later_Cache
  <2> QED BY <1>3, <2>2, <2>3, <2>4, <2>5, <2>6, <2>7 DEF Step
<1> QED BY <1>1, <1>2, <1>3 DEF Next

\* No interleaving of gets, puts and evictions, no failed write and no crash
\* makes get return part of a waveform, or another text's (TtsCache::put: `a
\* concurrent get never observes a partial write').
THEOREM HitsAreWhole == Spec => []HitIsWhole
<1>1. ASSUME Init PROVE CacheInv
  <2>1. use \in Uses /\ use.keys \subseteq Keys
    BY <1>1, TtsCacheAssumption DEF Init
  <2>2. Shape
    BY <1>1, <2>1 DEF Init, Shape
  <2>3. FileInv
    BY <1>1 DEF Init, FileInv
  <2>4. \A t \in Tasks : CallInv(t)
    BY <1>1 DEF Init, CallInv
  <2> QED BY <2>2, <2>3, <2>4 DEF CacheInv
<1>2. ASSUME CacheInv PROVE HitIsWhole
  BY <1>2 DEF CacheInv, CallInv, WholeOf, HitIsWhole
<1> QED BY <1>1, <1>2, Next_Cache, PTL DEF Spec

-----------------------------------------------------------------------------
(***************************************************************************)
(* Types                                                                   *)
(***************************************************************************)
\* What is written is what the state says is about to be written.
InHandTypes(t) ==
  /\ pc[t] = "getTruncate" => mine[t] \in Meta
  /\ pc[t] \in {"putData", "putRename", "putTruncate", "putMeta"} =>
       wave[t] \in Wave

TypeInv == TypeOK /\ use \in Uses /\ \A t \in Tasks : InHandTypes(t)

(***************************************************************************)
(* Calls that come one after the other                                     *)
(***************************************************************************)
\* An entry is a pair of files, and its metadata tells the waveform's size.
Paired(k) ==
  /\ pcm[k] # Nothing <=> meta[k] # Nothing
  /\ pcm[k] # Nothing => Readable(k) /\ meta[k].bytes = pcm[k].size

\* BytesIn of any waveform files, counted.
BytesOf(waves, K) == UNION {{k} \X (1..waves[k].size) : k \in K}
Count(waves, K) == Cardinality(BytesOf(waves, K))

Fits == Count(pcm, Stored) <= use.max_bytes

\* The entry that is half written, or half evicted.
InHand(t) ==
  IF pc[t] \in {"getWrite", "putTruncate", "putMeta", "evictMeta"}
    THEN {key[t]} ELSE {}

Evicting(t) == pc[t] \in {"scan", "evict", "evictMeta"}

\* Of that entry one file is known.
HalfInv(t) ==
  /\ pc[t] \in {"getMeta", "getTruncate", "getWrite"} => pcm[key[t]] # Nothing
  /\ pc[t] \in {"getTruncate", "getWrite", "putMeta"} =>
       mine[t] # Nothing /\ mine[t].bytes = pcm[key[t]].size
  /\ pc[t] \in {"putTruncate", "putMeta"} => pcm[key[t]] = wave[t]
  /\ pc[t] \in {"getWrite", "putMeta"} => meta[key[t]] = Torn
  /\ pc[t] = "evictMeta" => pcm[key[t]] = Nothing

\* What evict_if_needed has listed is what there is, and total_bytes its size.
ListInv(t) ==
  /\ ~Evicting(t) => Listed(t) = {} /\ total[t] = 0
  /\ Evicting(t) =>
       /\ \A k \in Keys \ InHand(t) : seen[t][k] \in {Nothing, meta[k]}
       /\ Stored \subseteq left[t] \cup Listed(t)
       /\ left[t] \cap Listed(t) = {}
       /\ total[t] = Count(pcm, Listed(t) \cap Stored)
  /\ pc[t] \in {"evict", "evictMeta"} => left[t] = {}

\* The only call there is leaves pairs of files that fit.
AloneInv(t) ==
  /\ \A s \in Tasks \ {t} : pc[s] = "idle"
  /\ \A k \in Keys \ InHand(t) : Paired(k)
  /\ HalfInv(t) /\ ListInv(t)
  /\ pc[t] \notin {"putTruncate", "putMeta"} /\ ~Evicting(t) => Fits

Alone(t) == use.tasks = {t} /\ ~use.faults

SequentialInv ==
  CacheInv /\ TypeInv /\ \A t \in Tasks : Alone(t) => AloneInv(t)
-----------------------------------------------------------------------------
(***************************************************************************)
(* Types                                                                   *)
(***************************************************************************)
\* The types that only the use decides.
LEMMA UseFacts ==
  ASSUME use \in Uses
  PROVE  /\ use.tasks \subseteq Tasks /\ use.keys \subseteq Keys
         /\ use.sizes \subseteq Nat /\ use.max_bytes \in Nat
         /\ Nothing \notin Wave /\ Nothing \notin Meta /\ Torn \notin Meta
         /\ Torn # Nothing
<1>1. /\ use.tasks \subseteq Tasks /\ use.keys \subseteq Keys
      /\ use.sizes \subseteq Nat /\ use.max_bytes \in Nat
      /\ Nothing \notin [of : use.keys, size : use.sizes, whole : BOOLEAN]
      /\ Nothing \notin [hits : Int, bytes : Int] /\ MaxHits \in Nat
  BY TtsCacheAssumption
<1>2. Nothing \notin Wave
  BY <1>1 DEF Wave
<1>3. Nothing \notin Meta
  BY <1>1 DEF Meta
<1>4. Torn \notin Meta
  BY <1>1 DEF Meta, Torn
<1>5. Torn # Nothing
  BY <1>1 DEF Torn
<1> QED BY <1>1, <1>2, <1>3, <1>4, <1>5

\* What a wave and metadata are made of.
LEMMA RecordFacts ==
  ASSUME use \in Uses
  PROVE  /\ \A w \in Wave : w.of \in Keys /\ w.size \in Nat /\ w.size \in use.sizes
         /\ \A m \in Meta : m.hits \in 0..MaxHits /\ m.bytes \in Nat
                              /\ m.bytes \in use.sizes
         /\ \A h \in 0..MaxHits : \A n \in use.sizes :
              [hits |-> h, bytes |-> n] \in Meta
         /\ \A k \in use.keys : \A n \in use.sizes : \A b \in BOOLEAN :
              [of |-> k, size |-> n, whole |-> b] \in Wave
BY UseFacts DEF Wave, Meta

\* The use stays what it is, and with it the types.
LEMMA SameTypes ==
  ASSUME UNCHANGED use
  PROVE  Wave' = Wave /\ Meta' = Meta /\ Torn' = Torn
BY DEF Wave, Meta, Torn

\* A call that returns has locals of no value.
LEMMA Return_Types ==
  ASSUME TypeInv, NEW t \in Tasks, UNCHANGED <<use, files, key>>,
         NEW result \in Wave \cup {Nothing}, Return(t, result)
  PROVE  TypeInv'
<1>1. Wave' = Wave /\ Meta' = Meta /\ Torn' = Torn
  BY SameTypes
<1>2. [k \in Keys |-> Nothing] \in [Keys -> Meta \cup {Nothing}]
  OBVIOUS
<1>3. TypeOK'
  BY <1>1, <1>2 DEF TypeInv, TypeOK, Return
<1>4. pc'[t] = "idle" /\ \A s \in Tasks \ {t} :
        pc'[s] = pc[s] /\ mine'[s] = mine[s] /\ wave'[s] = wave[s]
  BY DEF TypeInv, TypeOK, Return
<1>5. \A s \in Tasks : InHandTypes(s)'
  BY <1>1, <1>4 DEF TypeInv, InHandTypes
<1> QED BY <1>3, <1>5 DEF TypeInv

\* A call that goes on changes its own locals only.
LEMMA Goes_Types ==
  ASSUME TypeInv, NEW t \in Tasks, UNCHANGED use, TypeOK',
         InHandTypes(t)',
         \A s \in Tasks \ {t} :
           pc'[s] = pc[s] /\ mine'[s] = mine[s] /\ wave'[s] = wave[s]
  PROVE  TypeInv'
<1>1. Wave' = Wave /\ Meta' = Meta
  BY SameTypes
<1>2. \A s \in Tasks : InHandTypes(s)'
  BY <1>1 DEF TypeInv, InHandTypes
<1> QED BY <1>2 DEF TypeInv

\* A metadata file is torn, or metadata.
LEMMA Meta_Types ==
  ASSUME TypeOK, NEW t \in Tasks, UNCHANGED use, FillMeta(t) \/ TruncateMeta(t)
  PROVE  (meta \in [Keys -> Meta \cup {Torn, Nothing}])'
<1>1. Meta' = Meta /\ Torn' = Torn
  BY SameTypes
<1>2. meta' \in [Keys -> Meta \cup {Torn, Nothing}]
  BY DEF TypeOK, FillMeta, TruncateMeta
<1> QED BY <1>1, <1>2

\* The steps of get.
LEMMA Get_Types ==
  ASSUME TypeInv, NEW t \in Tasks, UNCHANGED use,
         \/ \E k \in use.keys : Get(t, k)
         \/ GetMeta(t) \/ GetTruncate(t) \/ GetWrite(t) \/ GetUpdateFails(t)
  PROVE  TypeInv'
<1>1. /\ Wave' = Wave /\ Meta' = Meta /\ Torn' = Torn
      /\ use.keys \subseteq Keys /\ Nothing \notin Wave
  BY SameTypes, UseFacts DEF TypeInv
<1>2. TypeOK /\ InHandTypes(t)
  BY DEF TypeInv
<1>3. ASSUME NEW k \in use.keys, Get(t, k)
      PROVE  TypeInv'
  <2>1. pc' = [pc EXCEPT ![t] = pc'[t]] /\ pc'[t] \in {"idle", "getMeta"}
    BY <1>2, <1>3 DEF Get, Return, TypeOK
  <2>2. /\ wave' = [wave EXCEPT ![t] = wave'[t]] /\ wave'[t] \in Wave \cup {Nothing}
        /\ answer' = [answer EXCEPT ![t] = Nothing]
        /\ key' = [key EXCEPT ![t] = k] /\ k \in Keys /\ UNCHANGED files
    BY <1>1, <1>2, <1>3 DEF Get, Return, TypeOK
  <2>3. /\ (mine \in [Tasks -> Meta \cup {Nothing}])'
        /\ (left \in [Tasks -> SUBSET Keys])'
        /\ (seen \in [Tasks -> [Keys -> Meta \cup {Nothing}]])'
        /\ (total \in [Tasks -> Nat])'
        /\ \A s \in Tasks \ {t} : mine'[s] = mine[s]
    <3>1. [j \in Keys |-> Nothing] \in [Keys -> Meta \cup {Nothing}]
      OBVIOUS
    <3>2. CASE Return(t, Nothing)
      BY <1>1, <1>2, <3>1, <3>2 DEF Return, TypeOK
    <3>3. CASE UNCHANGED <<mine, locals>>
      BY <1>1, <1>2, <3>3 DEF TypeOK
    <3> QED BY <1>3, <3>2, <3>3 DEF Get
  <2>4. TypeOK'
    BY <1>1, <1>2, <2>1, <2>2, <2>3 DEF TypeOK
  <2>5. pc'[t] \in {"idle", "getMeta"}
    BY <2>1
  <2> QED BY <1>2, <2>1, <2>2, <2>3, <2>4, <2>5, Goes_Types DEF InHandTypes, TypeOK
<1>4. CASE GetMeta(t)
  <2>1. CASE Return(t, Nothing) /\ UNCHANGED <<files, key>>
    BY <2>1, Return_Types
  <2>2. CASE ~Return(t, Nothing)
    <3> DEFINE m == [meta[key[t]] EXCEPT !.hits = IF @ < MaxHits THEN @ + 1 ELSE @]
    <3>1. /\ Readable(key[t]) /\ mine' = [mine EXCEPT ![t] = m]
          /\ pc' = [pc EXCEPT ![t] = "getTruncate"]
          /\ UNCHANGED <<files, key, wave, locals, answer>>
      BY <1>4, <2>2 DEF GetMeta
    <3>2. meta[key[t]] \in Meta
      BY <1>2, <3>1 DEF Readable, TypeOK
    <3>3. m \in Meta
      BY <3>2, TtsCacheAssumption DEF Meta
    <3> HIDE DEF m
    <3>4. TypeOK'
      BY <1>1, <1>2, <3>1, <3>3 DEF TypeOK
    <3>5. pc'[t] = "getTruncate" /\ mine'[t] = m
      BY <1>2, <3>1 DEF TypeOK
    <3>6. InHandTypes(t)'
      BY <1>1, <3>3, <3>5 DEF InHandTypes
    <3>7. \A s \in Tasks \ {t} :
            pc'[s] = pc[s] /\ mine'[s] = mine[s] /\ wave'[s] = wave[s]
      BY <1>2, <3>1 DEF TypeOK
    <3> QED BY <3>4, <3>6, <3>7, Goes_Types
  <2> QED BY <1>4, <2>1, <2>2 DEF GetMeta
<1>5. CASE GetTruncate(t)
  <2>1. (meta \in [Keys -> Meta \cup {Torn, Nothing}])'
    BY <1>2, <1>5, Meta_Types DEF GetTruncate
  <2>2. TypeOK'
    BY <1>1, <1>2, <1>5, <2>1 DEF TypeOK, GetTruncate
  <2>3. pc'[t] = "getWrite"
    BY <1>2, <1>5 DEF TypeOK, GetTruncate
  <2>4. InHandTypes(t)'
    BY <2>3 DEF InHandTypes
  <2>5. \A s \in Tasks \ {t} :
          pc'[s] = pc[s] /\ mine'[s] = mine[s] /\ wave'[s] = wave[s]
    BY <1>2, <1>5 DEF TypeOK, GetTruncate
  <2> QED BY <2>2, <2>4, <2>5, Goes_Types
<1>6. CASE GetWrite(t)
  <2>1. (meta \in [Keys -> Meta \cup {Torn, Nothing}])'
    BY <1>2, <1>6, Meta_Types DEF GetWrite
  <2>2. [k \in Keys |-> Nothing] \in [Keys -> Meta \cup {Nothing}]
    OBVIOUS
  <2>3. TypeOK'
    BY <1>1, <1>2, <1>6, <2>1, <2>2 DEF TypeOK, GetWrite, Return
  <2>4. pc'[t] = "idle" /\ \A s \in Tasks \ {t} :
          pc'[s] = pc[s] /\ mine'[s] = mine[s] /\ wave'[s] = wave[s]
    BY <1>2, <1>6 DEF TypeOK, GetWrite, Return
  <2>5. InHandTypes(t)'
    BY <2>4 DEF InHandTypes
  <2> QED BY <2>3, <2>4, <2>5, Goes_Types
<1>7. CASE GetUpdateFails(t)
  <2>1. wave[t] \in Wave \cup {Nothing}
    BY <1>2 DEF TypeOK
  <2> QED BY <1>7, <2>1, Return_Types DEF GetUpdateFails
<1> QED BY <1>3, <1>4, <1>5, <1>6, <1>7

\* The steps of put.
LEMMA Put_Types ==
  ASSUME TypeInv, NEW t \in Tasks, UNCHANGED use,
         \/ \E k \in use.keys : \E size \in use.sizes : Put(t, k, size)
         \/ PutData(t) \/ PutRename(t) \/ PutTruncate(t) \/ PutMeta(t)
         \/ PutFails(t)
  PROVE  TypeInv'
<1>1. /\ Wave' = Wave /\ Meta' = Meta /\ Torn' = Torn
      /\ use.keys \subseteq Keys /\ use \in Uses
  BY SameTypes, UseFacts DEF TypeInv
<1>2. TypeOK /\ InHandTypes(t)
  BY DEF TypeInv
<1>3. ASSUME NEW k \in use.keys, NEW size \in use.sizes, Put(t, k, size)
      PROVE  TypeInv'
  <2>1. /\ [of |-> k, size |-> size, whole |-> TRUE] \in Wave
        /\ [of |-> k, size |-> size, whole |-> FALSE] \in Wave
    BY DEF Wave
  <2>2. PICK v \in Wave, w \in Wave :
          /\ wave' = [wave EXCEPT ![t] = v]
          /\ tmp' = [tmp EXCEPT ![<<k, t>>] = w]
    BY <1>3, <2>1 DEF Put, TmpPath
  <2>3. /\ pc' = [pc EXCEPT ![t] = "putData"] /\ key' = [key EXCEPT ![t] = k]
        /\ answer' = [answer EXCEPT ![t] = Nothing] /\ k \in Keys
        /\ UNCHANGED <<pcm, meta, mine, locals>>
    BY <1>1, <1>3 DEF Put
  <2>4. TypeOK'
    BY <1>1, <1>2, <2>2, <2>3 DEF TypeOK
  <2>5. pc'[t] = "putData" /\ wave'[t] = v
    BY <1>2, <2>2, <2>3 DEF TypeOK
  <2>6. InHandTypes(t)'
    BY <1>1, <2>5 DEF InHandTypes
  <2>7. \A s \in Tasks \ {t} :
          pc'[s] = pc[s] /\ mine'[s] = mine[s] /\ wave'[s] = wave[s]
    BY <1>2, <2>2, <2>3 DEF TypeOK
  <2> QED BY <2>4, <2>6, <2>7, Goes_Types
<1>4. ASSUME NEW to \in {"putRename", "putTruncate", "putMeta"}, TypeOK',
             pc' = [pc EXCEPT ![t] = to], UNCHANGED wave, wave[t] \in Wave,
             \A s \in Tasks \ {t} : mine'[s] = mine[s]
      PROVE  TypeInv'
  <2>1. pc'[t] = to /\ \A s \in Tasks \ {t} : pc'[s] = pc[s]
    BY <1>2, <1>4 DEF TypeOK
  <2>2. InHandTypes(t)'
    BY <1>1, <1>4, <2>1 DEF InHandTypes
  <2> QED BY <1>4, <2>1, <2>2, Goes_Types
<1>5. CASE PutData(t)
  <2>1. wave[t] \in Wave /\ key[t] \in Keys
    BY <1>2, <1>5 DEF PutData, InHandTypes, TypeOK
  <2>2. TypeOK'
    BY <1>1, <1>2, <1>5, <2>1 DEF TypeOK, PutData, TmpPath
  <2> QED BY <1>4, <1>5, <2>1, <2>2 DEF PutData
<1>6. CASE PutRename(t)
  <2>1. CASE Return(t, Nothing) /\ UNCHANGED <<files, key>>
    BY <2>1, Return_Types
  <2>2. CASE ~(Return(t, Nothing) /\ UNCHANGED <<files, key>>)
    <3>1. /\ pc[t] = "putRename"
          /\ tmp[<<key[t], t>>] # Nothing
          /\ pcm' = [pcm EXCEPT ![key[t]] = tmp[<<key[t], t>>]]
          /\ tmp' = [tmp EXCEPT ![<<key[t], t>>] = Nothing]
          /\ pc' = [pc EXCEPT ![t] = "putTruncate"]
          /\ UNCHANGED <<meta, key, wave, mine, locals, answer>>
      BY <1>6, <2>2 DEF PutRename, TmpPath
    <3>2. wave[t] \in Wave /\ key[t] \in Keys
      BY <1>2, <3>1 DEF InHandTypes, TypeOK
    <3>3. tmp[<<key[t], t>>] \in Wave
      BY <1>2, <3>1, <3>2 DEF TypeOK
    <3>4. TypeOK'
      BY <1>1, <1>2, <3>1, <3>2, <3>3 DEF TypeOK
    <3> QED BY <1>4, <3>1, <3>2, <3>4
  <2> QED BY <2>1, <2>2
<1>7. CASE PutTruncate(t)
  <2>1. wave[t] \in Wave
    BY <1>2, <1>7 DEF PutTruncate, InHandTypes
  <2>2. [hits |-> 0, bytes |-> wave[t].size] \in Meta
    BY <1>1, <2>1, RecordFacts, TtsCacheAssumption
  <2>3. (meta \in [Keys -> Meta \cup {Torn, Nothing}])'
    BY <1>2, <1>7, Meta_Types DEF PutTruncate
  <2>4. PICK m \in Meta : mine' = [mine EXCEPT ![t] = m]
    BY <1>7, <2>2 DEF PutTruncate
  <2>5. TypeOK'
    BY <1>1, <1>2, <1>7, <2>3, <2>4 DEF TypeOK, PutTruncate
  <2>6. \A s \in Tasks \ {t} : mine'[s] = mine[s]
    BY <1>2, <2>4 DEF TypeOK
  <2> QED BY <1>4, <1>7, <2>1, <2>5, <2>6 DEF PutTruncate
<1>8. CASE PutMeta(t)
  <2>1. (meta \in [Keys -> Meta \cup {Torn, Nothing}])'
    BY <1>2, <1>8, Meta_Types DEF PutMeta
  <2>2. TypeOK'
    BY <1>1, <1>2, <1>8, <2>1 DEF TypeOK, PutMeta
  <2>3. pc'[t] = "scan" /\ \A s \in Tasks \ {t} :
          pc'[s] = pc[s] /\ mine'[s] = mine[s]
    BY <1>2, <1>8 DEF TypeOK, PutMeta
  <2>4. InHandTypes(t)'
    BY <2>3 DEF InHandTypes
  <2> QED BY <1>8, <2>2, <2>3, <2>4, Goes_Types DEF PutMeta
<1>9. CASE PutFails(t)
  BY <1>9, Return_Types DEF PutFails
<1> QED BY <1>3, <1>5, <1>6, <1>7, <1>8, <1>9

\* The steps of evict_if_needed.
LEMMA Evict_Types ==
  ASSUME TypeInv, NEW t \in Tasks, UNCHANGED use,
         \/ Scan(t) \/ ScanFails(t) \/ Scanned(t)
         \/ EvictPcm(t) \/ EvictMeta(t) \/ EvictDone(t)
  PROVE  TypeInv'
<1>1. /\ Wave' = Wave /\ Meta' = Meta /\ Torn' = Torn
      /\ \A m \in Meta : m.bytes \in Nat
  BY SameTypes, RecordFacts DEF TypeInv
<1>2. TypeOK
  BY DEF TypeInv
<1>3. ASSUME TypeOK', UNCHANGED <<wave, mine>>,
             NEW to \in {"scan", "evict", "evictMeta"},
             pc' = [pc EXCEPT ![t] = to]
      PROVE  TypeInv'
  <2>1. pc'[t] = to /\ \A s \in Tasks \ {t} : pc'[s] = pc[s]
    BY <1>2, <1>3 DEF TypeOK
  <2>2. InHandTypes(t)'
    BY <2>1 DEF InHandTypes
  <2> QED BY <1>3, <2>1, <2>2, Goes_Types
<1>4. CASE Scan(t)
  <2>1. PICK k \in left[t] :
          /\ left' = [left EXCEPT ![t] = @ \ {k}]
          /\ \/ /\ Readable(k) /\ seen' = [seen EXCEPT ![t][k] = meta[k]]
                /\ total' = [total EXCEPT ![t] = @ + meta[k].bytes]
             \/ UNCHANGED <<seen, total>>
    BY <1>4 DEF Scan
  <2>2. k \in Keys /\ (Readable(k) => meta[k] \in Meta)
    BY <1>2 DEF TypeOK, Readable
  <2>3. /\ seen' \in [Tasks -> [Keys -> Meta \cup {Nothing}]]
        /\ total' \in [Tasks -> Nat] /\ left' \in [Tasks -> SUBSET Keys]
    <3>1. seen \in [Tasks -> [Keys -> Meta \cup {Nothing}]]
          /\ total \in [Tasks -> Nat] /\ left \in [Tasks -> SUBSET Keys]
      BY <1>2 DEF TypeOK
    <3>2. left' \in [Tasks -> SUBSET Keys]
      BY <2>1, <3>1
    <3>3. CASE /\ Readable(k) /\ seen' = [seen EXCEPT ![t][k] = meta[k]]
               /\ total' = [total EXCEPT ![t] = @ + meta[k].bytes]
      <4>1. [seen[t] EXCEPT ![k] = meta[k]] \in [Keys -> Meta \cup {Nothing}]
        BY <2>2, <3>1, <3>3
      <4>2. seen' = [seen EXCEPT ![t] = [seen[t] EXCEPT ![k] = meta[k]]]
        BY <3>3
      <4>3. seen' \in [Tasks -> [Keys -> Meta \cup {Nothing}]]
        BY <3>1, <4>1, <4>2
      <4>4. total' \in [Tasks -> Nat]
        BY <1>1, <2>2, <3>1, <3>3
      <4> QED BY <3>2, <4>3, <4>4
    <3> QED BY <2>1, <3>1, <3>2, <3>3
  <2>4. UNCHANGED <<files, pc, key, wave, mine, answer>>
    BY <1>4 DEF Scan
  <2>5. TypeOK'
    BY <1>1, <1>2, <2>3, <2>4 DEF TypeOK
  <2>6. pc' = [pc EXCEPT ![t] = "scan"]
    BY <1>2, <1>4, <2>4 DEF Scan, TypeOK
  <2> QED BY <1>3, <2>4, <2>5, <2>6
<1>5. CASE Scanned(t)
  <2>1. TypeOK'
    BY <1>1, <1>2, <1>5 DEF Scanned, TypeOK
  <2> QED BY <1>3, <1>5, <2>1 DEF Scanned
<1>6. CASE EvictPcm(t)
  <2>1. PICK k \in Coldest(t) :
          /\ pcm' = [pcm EXCEPT ![k] = Nothing] \/ UNCHANGED pcm
          /\ key' = [key EXCEPT ![t] = k]
          /\ total' = [total EXCEPT ![t] = Less(@, seen[t][k].bytes)]
    BY <1>6 DEF EvictPcm
  <2>2. k \in Keys /\ seen[t][k] \in Meta
    BY <1>2 DEF Coldest, Listed, TypeOK
  <2>3. Less(total[t], seen[t][k].bytes) \in Nat
    BY <1>1, <1>2, <2>2 DEF Less, TypeOK
  <2>4. TypeOK'
    BY <1>1, <1>2, <1>6, <2>1, <2>2, <2>3 DEF EvictPcm, TypeOK
  <2> QED BY <1>3, <1>6, <2>4 DEF EvictPcm
<1>7. CASE EvictMeta(t)
  <2>1. \/ UNCHANGED <<meta, mine>>
        \/ /\ meta' = [meta EXCEPT ![key[t]] = Nothing]
           /\ mine' = [s \in Tasks |->
                IF key[s] = key[t] /\ pc[s] \in {"getWrite", "putMeta"} THEN Nothing
                ELSE mine[s]]
    BY <1>7 DEF EvictMeta, RemoveMeta
  <2>2. /\ meta' \in [Keys -> Meta \cup {Torn, Nothing}]
        /\ mine' \in [Tasks -> Meta \cup {Nothing}]
    BY <1>2, <2>1 DEF TypeOK
  <2>3. TypeOK'
    BY <1>1, <1>2, <1>7, <2>2 DEF EvictMeta, TypeOK
  <2>4. /\ pc'[t] = "evict" /\ UNCHANGED wave
        /\ \A s \in Tasks \ {t} :
             pc'[s] = pc[s] /\ (pc[s] = "getTruncate" => mine'[s] = mine[s])
    BY <1>2, <1>7, <2>1 DEF EvictMeta, TypeOK
  <2>5. \A s \in Tasks : InHandTypes(s)'
    BY <1>1, <2>4 DEF TypeInv, InHandTypes
  <2> QED BY <2>3, <2>5 DEF TypeInv
<1>8. CASE ScanFails(t) \/ EvictDone(t)
  BY <1>8, Return_Types DEF ScanFails, EvictDone
<1> QED BY <1>4, <1>5, <1>6, <1>7, <1>8

\* No step breaks the types.
LEMMA Next_Types ==
  ASSUME TypeInv, [Next]_vars
  PROVE  TypeInv'
<1>1. CASE UNCHANGED vars
  BY <1>1 DEF vars, TypeInv, TypeOK, InHandTypes, Wave, Meta, Torn
<1>2. CASE Crash /\ UNCHANGED use
  <2>1. Wave' = Wave /\ Meta' = Meta /\ Torn' = Torn
    BY <1>2, SameTypes
  <2>2. TypeOK'
    BY <1>2, <2>1 DEF TypeInv, TypeOK, Crash
  <2>3. \A t \in Tasks : pc'[t] = "idle"
    BY <1>2 DEF Crash
  <2> QED BY <1>2, <2>2, <2>3 DEF TypeInv, InHandTypes
<1>3. ASSUME NEW t \in use.tasks, Step(t), UNCHANGED use
      PROVE  TypeInv'
  <2>1. t \in Tasks
    BY UseFacts DEF TypeInv
  <2> QED BY <1>3, <2>1, Get_Types, Put_Types, Evict_Types DEF Step
<1> QED BY <1>1, <1>2, <1>3 DEF Next

\* For every use, however its calls overlap, fail and crash: files and locals
\* keep their types; in particular metadata is one that was written or is torn,
\* and total_bytes is never negative (evict_if_needed).
THEOREM FilesAreTyped == Spec => []TypeOK
<1>1. ASSUME Init PROVE TypeInv
  <2>1. use \in Uses /\ use.keys \subseteq Keys
    BY <1>1, TtsCacheAssumption DEF Init
  <2>2. TypeOK
    BY <1>1, <2>1 DEF Init, TypeOK
  <2>3. \A t \in Tasks : InHandTypes(t)
    BY <1>1 DEF Init, InHandTypes
  <2> QED BY <2>1, <2>2, <2>3 DEF TypeInv
<1>2. TypeInv => TypeOK
  BY DEF TypeInv
<1> QED BY <1>1, <1>2, Next_Types, PTL DEF Spec

-----------------------------------------------------------------------------
(***************************************************************************)
(* Calls that come one after the other: counting bytes                     *)
(***************************************************************************)
\* A waveform has as many bytes as its length says.
LEMMA BytesOfOne ==
  ASSUME NEW k, NEW n \in Nat
  PROVE  IsFiniteSet({k} \X (1..n)) /\ Cardinality({k} \X (1..n)) = n
<1>1. IsFiniteSet(1..n) /\ Cardinality(1..n) = n
  BY FS_Interval
<1>2. IsFiniteSet({k}) /\ Cardinality({k}) = 1
  BY FS_Singleton
<1>3. IsFiniteSet({k} \X (1..n)) /\ Cardinality({k} \X (1..n)) = 1 * n
  BY <1>1, <1>2, FS_Product, ZenonT(30)
<1> QED BY <1>3

\* The bytes of some digests can be counted.
LEMMA BytesFinite ==
  ASSUME NEW f, NEW K \in SUBSET Keys, \A k \in K : f[k].size \in Nat
  PROVE  IsFiniteSet(BytesOf(f, K)) /\ Count(f, K) \in Nat
<1> DEFINE g == [k \in K |-> {k} \X (1..f[k].size)]
<1> DEFINE G == {{k} \X (1..f[k].size) : k \in K}
<1>1. IsFiniteSet(K)
  BY FS_Subset, TtsCacheAssumption
<1>2. g \in Surjection(K, G)
  <2>1. g \in [K -> G]
    OBVIOUS
  <2>2. \A y \in G : \E k \in K : g[k] = y
    OBVIOUS
  <2> QED BY <2>1, <2>2 DEF Surjection
<1>3. IsFiniteSet(G)
  <2> HIDE DEF g, G
  <2> QED BY <1>1, <1>2, FS_Surjection
<1>4. \A T \in G : IsFiniteSet(T)
  <2>1. ASSUME NEW k \in K
        PROVE  IsFiniteSet({k} \X (1..f[k].size))
    BY <2>1, BytesOfOne
  <2> QED BY <2>1
<1>5. IsFiniteSet(UNION G)
  <2> HIDE DEF G
  <2> QED BY <1>3, <1>4, FS_UNION
<1>6. IsFiniteSet(BytesOf(f, K))
  BY <1>5 DEF BytesOf
<1> QED BY <1>6, FS_CardinalityType DEF Count

\* No digests have no bytes.
LEMMA BytesNone ==
  ASSUME NEW f
  PROVE  Count(f, {}) = 0
<1>1. BytesOf(f, {}) = {}
  BY DEF BytesOf
<1> QED BY <1>1, FS_EmptySet DEF Count

\* Another digest brings its own bytes.
LEMMA BytesMore ==
  ASSUME NEW f, NEW K \in SUBSET Keys, NEW k \in Keys \ K,
         \A j \in K \cup {k} : f[j].size \in Nat
  PROVE  Count(f, K \cup {k}) = Count(f, K) + f[k].size
<1> DEFINE own == {k} \X (1..f[k].size)
<1>1. BytesOf(f, K \cup {k}) = BytesOf(f, K) \cup own
  BY DEF BytesOf
<1>2. BytesOf(f, K) \cap own = {}
  BY DEF BytesOf
<1>3. IsFiniteSet(own) /\ Cardinality(own) = f[k].size
  <2>1. f[k].size \in Nat
    OBVIOUS
  <2> QED BY <2>1, BytesOfOne
<1>4. IsFiniteSet(BytesOf(f, K)) /\ Count(f, K) \in Nat
  BY BytesFinite
<1> HIDE DEF own
<1>5. Cardinality(BytesOf(f, K) \cup own)
        = Cardinality(BytesOf(f, K)) + Cardinality(own) - Cardinality({})
  BY <1>2, <1>3, <1>4, FS_Union
<1>6. Cardinality({}) = 0
  BY FS_EmptySet
<1>7. Count(f, K \cup {k}) = Cardinality(BytesOf(f, K) \cup own)
  BY <1>1 DEF Count
<1>8. Count(f, K) = Cardinality(BytesOf(f, K)) /\ f[k].size \in Nat
  BY DEF Count
<1> QED BY <1>3, <1>4, <1>5, <1>6, <1>7, <1>8

\* The bytes of digests whose files are the same.
LEMMA BytesSame ==
  ASSUME NEW f, NEW g, NEW K, \A k \in K : f[k] = g[k]
  PROVE  Count(f, K) = Count(g, K)
BY DEF Count, BytesOf

-----------------------------------------------------------------------------
(***************************************************************************)
(* Calls that come one after the other: the steps                          *)
(***************************************************************************)
\* What a step finds.
LEMMA AloneFacts ==
  ASSUME TypeInv, NEW t \in Tasks, AloneInv(t)
  PROVE  /\ DOMAIN pc = Tasks /\ DOMAIN wave = Tasks /\ DOMAIN mine = Tasks
         /\ DOMAIN left = Tasks /\ DOMAIN seen = Tasks /\ DOMAIN total = Tasks
         /\ DOMAIN pcm = Keys /\ DOMAIN meta = Keys /\ DOMAIN key = Tasks
         /\ DOMAIN tmp = Keys \X Tasks
         /\ \A s \in Tasks : DOMAIN seen[s] = Keys
         /\ key[t] \in Keys /\ total[t] \in Nat /\ use.max_bytes \in Nat
         /\ Stored \subseteq Keys /\ Nothing \notin Wave /\ Torn # Nothing
         /\ Nothing \notin Meta /\ Torn \notin Meta
         /\ \A k \in Stored : pcm[k] \in Wave /\ pcm[k].size \in Nat
<1>1. TypeOK /\ use \in Uses
  BY DEF TypeInv
<1>2. /\ DOMAIN pc = Tasks /\ DOMAIN wave = Tasks /\ DOMAIN mine = Tasks
      /\ DOMAIN left = Tasks /\ DOMAIN seen = Tasks /\ DOMAIN total = Tasks
      /\ DOMAIN pcm = Keys /\ DOMAIN meta = Keys /\ DOMAIN key = Tasks
      /\ DOMAIN tmp = Keys \X Tasks
      /\ \A s \in Tasks : DOMAIN seen[s] = Keys
      /\ key[t] \in Keys /\ total[t] \in Nat
  BY <1>1 DEF TypeOK
<1>3. \A k \in Stored : pcm[k] \in Wave
  BY <1>1 DEF TypeOK, Stored
<1> QED BY <1>1, <1>2, <1>3, UseFacts, RecordFacts DEF Stored

\* A call returns from a disk that is in order.
LEMMA Return_Alone ==
  ASSUME TypeInv, NEW t \in Tasks, AloneInv(t), Fits,
         UNCHANGED <<use, pcm>>, \A k \in Keys : Paired(k)',
         NEW result, Return(t, result)
  PROVE  AloneInv(t)'
<1>1. /\ pc'[t] = "idle" /\ total'[t] = 0
      /\ seen'[t] = [k \in Keys |-> Nothing]
      /\ \A s \in Tasks \ {t} : pc'[s] = pc[s]
  BY AloneFacts DEF Return
<1>2. InHand(t)' = {} /\ ~Evicting(t)' /\ HalfInv(t)'
  BY <1>1 DEF InHand, Evicting, HalfInv
<1>3. Listed(t)' = {}
  BY <1>1 DEF Listed
<1>4. ListInv(t)'
  BY <1>1, <1>2, <1>3 DEF ListInv
<1>5. Fits'
  BY DEF Fits, Stored
<1> QED BY <1>1, <1>2, <1>4, <1>5 DEF AloneInv

\* A call goes on, to a place where it does not evict.
LEMMA Goes_Alone ==
  ASSUME TypeInv, NEW t \in Tasks, AloneInv(t), ~Evicting(t),
         UNCHANGED <<use, seen, total>>,
         NEW to, to \notin {"scan", "evict", "evictMeta"},
         pc' = [pc EXCEPT ![t] = to],
         \A k \in Keys \ InHand(t)' : Paired(k)',
         HalfInv(t)',
         to \notin {"putTruncate", "putMeta"} => Fits'
  PROVE  AloneInv(t)'
<1>1. pc'[t] = to /\ \A s \in Tasks \ {t} : pc'[s] = pc[s]
  BY AloneFacts
<1>2. ~Evicting(t)' /\ Listed(t)' = Listed(t) /\ total'[t] = total[t]
  BY <1>1 DEF Evicting, Listed
<1>3. ListInv(t)'
  BY <1>1, <1>2 DEF ListInv, AloneInv, Evicting
<1> QED BY <1>1, <1>3 DEF AloneInv

\* The steps of get.
LEMMA Get_Alone ==
  ASSUME TypeInv, NEW t \in Tasks, AloneInv(t), UNCHANGED use, ~use.faults,
         \/ \E k \in use.keys : Get(t, k)
         \/ GetMeta(t) \/ GetTruncate(t) \/ GetWrite(t) \/ GetUpdateFails(t)
  PROVE  AloneInv(t)'
<1>1. pc[t] \in {"idle", "getMeta", "getTruncate", "getWrite"}
  BY DEF Get, GetMeta, GetTruncate, GetWrite, GetUpdateFails
<1>2. ~Evicting(t) /\ Fits
  BY <1>1 DEF AloneInv, Evicting
<1>3. pc[t] # "getWrite" => \A k \in Keys : Paired(k)
  BY <1>1 DEF AloneInv, InHand
<1>4. ASSUME UNCHANGED files
      PROVE  Fits' /\ \A k \in Keys : Paired(k) => Paired(k)'
  BY <1>2, <1>4 DEF Fits, Stored, Paired, Readable, Torn
<1>5. ASSUME NEW k \in use.keys, Get(t, k)
      PROVE  AloneInv(t)'
  <2>1. pc[t] = "idle" /\ UNCHANGED files /\ k \in Keys
    BY <1>5, UseFacts DEF Get, TypeInv
  <2>2. CASE Return(t, Nothing)
    BY <1>2, <1>3, <1>4, <2>1, <2>2, Return_Alone
  <2>3. CASE ~Return(t, Nothing)
    <3>1. /\ pcm[k] # Nothing /\ key' = [key EXCEPT ![t] = k]
          /\ pc' = [pc EXCEPT ![t] = "getMeta"]
          /\ UNCHANGED <<seen, total>>
      BY <1>5, <2>3 DEF Get
    <3>2. pc'[t] = "getMeta" /\ key'[t] = k
      BY <3>1, AloneFacts
    <3>3. HalfInv(t)' /\ InHand(t)' = {}
      BY <2>1, <3>1, <3>2 DEF HalfInv, InHand
    <3> QED BY <1>2, <1>3, <1>4, <2>1, <3>1, <3>3, Goes_Alone
  <2> QED BY <2>2, <2>3
<1>6. CASE GetMeta(t)
  <2>1. pc[t] = "getMeta" /\ UNCHANGED <<files, key>>
    BY <1>6 DEF GetMeta
  <2>2. CASE Return(t, Nothing)
    BY <1>2, <1>3, <1>4, <2>1, <2>2, Return_Alone
  <2>3. CASE ~Return(t, Nothing)
    <3> DEFINE m == [meta[key[t]] EXCEPT !.hits = IF @ < MaxHits THEN @ + 1 ELSE @]
    <3>1. /\ Readable(key[t]) /\ mine' = [mine EXCEPT ![t] = m]
          /\ pc' = [pc EXCEPT ![t] = "getTruncate"]
          /\ UNCHANGED <<seen, total>>
      BY <1>6, <2>3 DEF GetMeta
    <3>2. meta[key[t]] \in Meta
      BY <3>1, AloneFacts DEF Readable, TypeInv, TypeOK
    <3>3. m.bytes = meta[key[t]].bytes /\ m # Nothing
      BY <3>2, TtsCacheAssumption DEF Meta, TypeInv
    <3> HIDE DEF m
    <3>4. pc'[t] = "getTruncate" /\ mine'[t] = m
      BY <3>1, AloneFacts
    <3>5. pcm[key[t]] # Nothing /\ key[t] \in Keys
      BY <2>1, AloneFacts DEF AloneInv, HalfInv
    <3>6. meta[key[t]].bytes = pcm[key[t]].size
      BY <1>3, <2>1, <3>5 DEF Paired
    <3>7. HalfInv(t)' /\ InHand(t)' = {}
      BY <2>1, <3>3, <3>4, <3>5, <3>6 DEF HalfInv, InHand
    <3> QED BY <1>2, <1>3, <1>4, <2>1, <3>1, <3>7, Goes_Alone
  <2> QED BY <2>2, <2>3
<1>7. CASE GetTruncate(t)
  <2>1. /\ pc[t] = "getTruncate" /\ meta' = [meta EXCEPT ![key[t]] = Torn]
        /\ pc' = [pc EXCEPT ![t] = "getWrite"]
        /\ UNCHANGED <<pcm, key, mine, seen, total>>
    BY <1>7 DEF GetTruncate, TruncateMeta
  <2>2. pc'[t] = "getWrite" /\ meta'[key[t]] = Torn
        /\ \A k \in Keys \ {key[t]} : meta'[k] = meta[k]
    BY <2>1, AloneFacts
  <2>3. InHand(t)' = {key[t]}
    BY <2>1, <2>2 DEF InHand
  <2>4. \A k \in Keys \ {key[t]} : Paired(k)'
    BY <1>3, <2>1, <2>2 DEF Paired, Readable, Torn
  <2>5. HalfInv(t)'
    BY <2>1, <2>2 DEF AloneInv, HalfInv, Torn
  <2>6. Fits'
    BY <1>2, <2>1 DEF Fits, Stored
  <2> QED BY <1>2, <2>1, <2>3, <2>4, <2>5, <2>6, Goes_Alone
<1>8. CASE GetWrite(t)
  <2>1. /\ pc[t] = "getWrite" /\ FillMeta(t) /\ Return(t, wave[t])
        /\ UNCHANGED <<pcm, key>>
    BY <1>8 DEF GetWrite
  <2>2. /\ meta[key[t]] = Torn /\ mine[t].bytes = pcm[key[t]].size
        /\ pcm[key[t]] # Nothing /\ mine[t] # Nothing /\ key[t] \in Keys
    BY <2>1, AloneFacts DEF AloneInv, HalfInv
  <2>3. meta' = [meta EXCEPT ![key[t]] = mine[t]]
    BY <2>1, <2>2 DEF FillMeta, Readable
  <2>4. Paired(key[t])'
    <3>1. mine[t] \in Meta
      BY <2>2 DEF TypeInv, TypeOK
    <3>2. mine[t] # Torn
      BY <3>1, AloneFacts
    <3>3. meta'[key[t]] = mine[t]
      BY <2>2, <2>3, AloneFacts
    <3> QED BY <2>1, <2>2, <3>2, <3>3 DEF Paired, Readable, Torn
  <2>5. \A k \in Keys \ {key[t]} : Paired(k)'
    BY <2>1, <2>3, AloneFacts DEF AloneInv, InHand, Paired, Readable, Torn
  <2> QED BY <1>2, <2>1, <2>4, <2>5, Return_Alone
<1>9. ~GetUpdateFails(t)
  BY DEF GetUpdateFails
<1> QED BY <1>5, <1>6, <1>7, <1>8, <1>9

\* The steps of put.
LEMMA Put_Alone ==
  ASSUME TypeInv, CacheInv, NEW t \in Tasks, AloneInv(t), UNCHANGED use,
         ~use.faults,
         \/ \E k \in use.keys : \E size \in use.sizes : Put(t, k, size)
         \/ PutData(t) \/ PutRename(t) \/ PutTruncate(t) \/ PutFails(t)
  PROVE  AloneInv(t)'
<1>1. pc[t] \in {"idle", "putData", "putRename", "putTruncate"}
  BY DEF Put, PutData, PutRename, PutTruncate, PutFails
<1>2. ~Evicting(t) /\ key[t] \in Keys
  BY <1>1, AloneFacts DEF Evicting
<1>3. pc[t] # "putTruncate" => Fits /\ \A k \in Keys : Paired(k)
  BY <1>1, <1>2 DEF AloneInv, InHand
<1>4. ASSUME UNCHANGED <<pcm, meta>>
      PROVE  (Fits => Fits') /\ \A k \in Keys : Paired(k) => Paired(k)'
  BY <1>4 DEF Fits, Stored, Paired, Readable, Torn
<1>5. ASSUME NEW k \in use.keys, NEW size \in use.sizes, Put(t, k, size)
      PROVE  AloneInv(t)'
  <2>1. /\ pc[t] = "idle" /\ pc' = [pc EXCEPT ![t] = "putData"]
        /\ UNCHANGED <<pcm, meta, seen, total>>
    BY <1>5 DEF Put
  <2>2. pc'[t] = "putData"
    BY <2>1, AloneFacts
  <2>3. HalfInv(t)' /\ InHand(t)' = {}
    BY <2>2 DEF HalfInv, InHand
  <2> QED BY <1>2, <1>3, <1>4, <2>1, <2>3, Goes_Alone
<1>6. CASE PutData(t)
  <2>1. /\ pc[t] = "putData" /\ pc' = [pc EXCEPT ![t] = "putRename"]
        /\ UNCHANGED <<pcm, meta, seen, total>>
    BY <1>6 DEF PutData
  <2>2. pc'[t] = "putRename"
    BY <2>1, AloneFacts
  <2>3. HalfInv(t)' /\ InHand(t)' = {}
    BY <2>2 DEF HalfInv, InHand
  <2> QED BY <1>2, <1>3, <1>4, <2>1, <2>3, Goes_Alone
<1>7. CASE PutRename(t)
  <2>1. pc[t] = "putRename"
    BY <1>7 DEF PutRename
  <2>2. CASE Return(t, Nothing) /\ UNCHANGED files
    BY <1>3, <1>4, <2>1, <2>2, Return_Alone
  <2>3. CASE ~(Return(t, Nothing) /\ UNCHANGED files)
    <3>1. /\ tmp[<<key[t], t>>] # Nothing
          /\ pcm' = [pcm EXCEPT ![key[t]] = tmp[<<key[t], t>>]]
          /\ pc' = [pc EXCEPT ![t] = "putTruncate"]
          /\ UNCHANGED <<meta, key, wave, seen, total>>
      BY <1>7, <2>3 DEF PutRename, TmpPath
    <3>2. tmp[<<key[t], t>>] = wave[t]
      BY <2>1, <3>1 DEF CacheInv, CallInv
    <3>3. pc'[t] = "putTruncate" /\ pcm'[key[t]] = wave[t]
          /\ \A k \in Keys \ {key[t]} : pcm'[k] = pcm[k]
      BY <1>2, <3>1, <3>2, AloneFacts
    <3>4. InHand(t)' = {key[t]}
      BY <3>1, <3>3 DEF InHand
    <3>5. \A k \in Keys \ {key[t]} : Paired(k)'
      BY <1>3, <2>1, <3>1, <3>3 DEF Paired, Readable, Torn
    <3>6. HalfInv(t)'
      BY <3>1, <3>3 DEF HalfInv
    <3> QED BY <1>2, <3>1, <3>4, <3>5, <3>6, Goes_Alone
  <2> QED BY <2>2, <2>3
<1>8. CASE PutTruncate(t)
  <2>1. /\ pc[t] = "putTruncate" /\ meta' = [meta EXCEPT ![key[t]] = Torn]
        /\ pc' = [pc EXCEPT ![t] = "putMeta"]
        /\ mine' = [mine EXCEPT ![t] = [hits |-> 0, bytes |-> wave[t].size]]
        /\ UNCHANGED <<pcm, key, wave, seen, total>>
    BY <1>8 DEF PutTruncate, TruncateMeta
  <2>2. pc'[t] = "putMeta" /\ meta'[key[t]] = Torn
        /\ mine'[t] = [hits |-> 0, bytes |-> wave[t].size]
        /\ \A k \in Keys \ {key[t]} : meta'[k] = meta[k]
    BY <1>2, <2>1, AloneFacts
  <2>3. InHand(t)' = {key[t]}
    BY <2>1, <2>2 DEF InHand
  <2>4. \A k \in Keys \ {key[t]} : Paired(k)'
    BY <2>1, <2>2 DEF AloneInv, InHand, Paired, Readable, Torn
  <2>5. pcm[key[t]] = wave[t] /\ wave[t] \in Wave
    BY <2>1 DEF AloneInv, HalfInv, TypeInv, InHandTypes
  <2>6. wave[t].size \in Nat
    BY <2>5, RecordFacts DEF TypeInv
  <2>7. mine'[t] # Nothing /\ mine'[t].bytes = pcm[key[t]].size
    BY <2>2, <2>5, <2>6, TtsCacheAssumption
  <2>8. HalfInv(t)'
    BY <2>1, <2>2, <2>5, <2>7 DEF HalfInv, Torn
  <2> QED BY <1>2, <2>1, <2>3, <2>4, <2>8, Goes_Alone
<1>9. ~PutFails(t)
  BY DEF PutFails
<1> QED BY <1>5, <1>6, <1>7, <1>8, <1>9

\* put has written a pair of files, and the eviction begins with nothing listed.
LEMMA PutMeta_Alone ==
  ASSUME TypeInv, CacheInv, NEW t \in Tasks, AloneInv(t), UNCHANGED use,
         PutMeta(t)
  PROVE  AloneInv(t)'
<1>1. /\ pc[t] = "putMeta" /\ pc' = [pc EXCEPT ![t] = "scan"]
      /\ FillMeta(t)
      /\ left' = [left EXCEPT ![t] = use.keys]
      /\ UNCHANGED <<pcm, key, wave, seen, total>>
  BY DEF PutMeta
<1>2. /\ pcm[key[t]] = wave[t] /\ meta[key[t]] = Torn /\ wave[t] \in Wave
      /\ key[t] \in Keys
      /\ mine[t] # Nothing /\ mine[t].bytes = pcm[key[t]].size
  BY <1>1, AloneFacts DEF AloneInv, HalfInv, TypeInv, InHandTypes
<1>3. meta' = [meta EXCEPT ![key[t]] = mine[t]]
  BY <1>1, <1>2 DEF FillMeta, Readable
<1>4. pc'[t] = "scan" /\ \A s \in Tasks \ {t} : pc'[s] = pc[s]
  BY <1>1, AloneFacts
<1>5. InHand(t)' = {} /\ Evicting(t)' /\ HalfInv(t)'
  BY <1>4 DEF InHand, Evicting, HalfInv
<1>6. Paired(key[t])'
  <2>1. wave[t] # Nothing /\ mine[t] \in Meta
    BY <1>2, AloneFacts DEF TypeInv, TypeOK
  <2>2. mine[t] # Torn
    BY <2>1, AloneFacts
  <2>3. meta'[key[t]] = mine[t]
    BY <1>2, <1>3, AloneFacts
  <2> QED BY <1>1, <1>2, <2>1, <2>2, <2>3 DEF Paired, Readable, Torn
<1>7. \A k \in Keys \ {key[t]} : Paired(k)'
  BY <1>1, <1>2, <1>3, AloneFacts DEF AloneInv, InHand, Paired, Readable, Torn
<1>8. Listed(t) = {} /\ total[t] = 0
  BY <1>1 DEF AloneInv, ListInv, Evicting
<1>9. /\ Listed(t)' = {} /\ total'[t] = 0
      /\ \A k \in Keys : seen'[t][k] = Nothing
  BY <1>1, <1>8 DEF Listed
<1>10. Stored' \subseteq left'[t]
  <2>1. \A k \in Stored : pcm[k] \in Wave /\ pcm[k].of = k
    BY AloneFacts DEF CacheInv, FileInv, WholeOf, Stored
  <2>2. Stored \subseteq use.keys
    BY <2>1 DEF Wave
  <2> QED BY <1>1, <2>2, AloneFacts DEF Stored
<1>11. Count(pcm', {}) = 0 /\ Listed(t)' \cap Stored' = {}
  BY <1>9, BytesNone
<1>12. ListInv(t)'
  BY <1>4, <1>5, <1>9, <1>10, <1>11 DEF ListInv
<1>13. \A k \in Keys : Paired(k)'
  <2>1. key'[t] = key[t]
    BY <1>1
  <2> QED BY <1>6, <1>7, <2>1 DEF Paired, Readable, Torn
<1>14. \A s \in Tasks \ {t} : pc'[s] = "idle"
  BY <1>4 DEF AloneInv
<1> QED BY <1>5, <1>12, <1>13, <1>14 DEF AloneInv

\* What evict_if_needed knows of the disk while it lists and deletes.
LEMMA EvictFacts ==
  ASSUME TypeInv, NEW t \in Tasks, AloneInv(t), Evicting(t)
  PROVE  /\ \A k \in Keys \ InHand(t) : Paired(k)
         /\ \A k \in Keys \ InHand(t) : seen[t][k] \in {Nothing, meta[k]}
         /\ Stored \subseteq left[t] \cup Listed(t)
         /\ left[t] \cap Listed(t) = {}
         /\ total[t] = Count(pcm, Listed(t) \cap Stored)
         /\ Listed(t) \subseteq Keys
         /\ pc[t] \in {"evict", "evictMeta"} => left[t] = {}
BY DEF AloneInv, ListInv, Listed

\* One entry more is listed, if it is one.
LEMMA Scan_Alone ==
  ASSUME TypeInv, NEW t \in Tasks, AloneInv(t), UNCHANGED use, ~use.faults,
         Scan(t)
  PROVE  AloneInv(t)'
<1>1. pc[t] = "scan" /\ UNCHANGED <<files, pc, key, wave, mine>>
  BY DEF Scan
<1>2. PICK k \in left[t] :
        /\ left' = [left EXCEPT ![t] = @ \ {k}]
        /\ IF Readable(k)
             THEN /\ seen' = [seen EXCEPT ![t][k] = meta[k]]
                  /\ total' = [total EXCEPT ![t] = @ + meta[k].bytes]
             ELSE UNCHANGED <<seen, total>>
  BY DEF Scan
<1>3. Evicting(t) /\ InHand(t) = {} /\ k \in Keys /\ left'[t] = left[t] \ {k}
  BY <1>1, <1>2, AloneFacts DEF Evicting, InHand, TypeInv, TypeOK
<1>4. /\ \A j \in Keys : Paired(j) /\ seen[t][j] \in {Nothing, meta[j]}
      /\ Stored \subseteq left[t] \cup Listed(t)
      /\ left[t] \cap Listed(t) = {} /\ Listed(t) \subseteq Keys
      /\ total[t] = Count(pcm, Listed(t) \cap Stored)
  BY <1>3, EvictFacts
<1>5. /\ Stored' = Stored /\ Evicting(t)' /\ InHand(t)' = {} /\ HalfInv(t)'
      /\ \A j \in Keys : Paired(j)'
  BY <1>1, <1>3, <1>4 DEF Stored, Evicting, InHand, HalfInv, Paired, Readable, Torn
<1>6. CASE ~Readable(k)
  <2>1. k \notin Stored
    BY <1>3, <1>4, <1>6 DEF Stored, Paired
  <2>2. Listed(t)' = Listed(t) /\ UNCHANGED <<seen, total>>
    BY <1>2, <1>6 DEF Listed
  <2>3. ListInv(t)'
    BY <1>1, <1>3, <1>4, <1>5, <2>1, <2>2 DEF ListInv
  <2> QED BY <1>1, <1>5, <2>3 DEF AloneInv
<1>7. CASE Readable(k)
  <2>1. /\ k \in Stored /\ k \notin Listed(t) /\ meta[k].bytes = pcm[k].size
        /\ meta[k] # Nothing
    BY <1>2, <1>3, <1>4, <1>7 DEF Stored, Paired, Readable
  <2>2. /\ seen'[t][k] = meta[k] /\ \A j \in Keys \ {k} : seen'[t][j] = seen[t][j]
        /\ total'[t] = total[t] + meta[k].bytes
    BY <1>2, <1>3, <1>7, AloneFacts
  <2>3. Listed(t)' = Listed(t) \cup {k}
    BY <1>3, <2>1, <2>2 DEF Listed
  <2>4. Count(pcm, (Listed(t) \cap Stored) \cup {k})
          = Count(pcm, Listed(t) \cap Stored) + pcm[k].size
    <3> DEFINE K == Listed(t) \cap Stored
    <3>1. K \in SUBSET Keys /\ k \in Keys \ K
          /\ \A j \in K \cup {k} : pcm[j].size \in Nat
      BY <1>3, <1>4, <2>1, AloneFacts
    <3> HIDE DEF K
    <3>2. Count(pcm, K \cup {k}) = Count(pcm, K) + pcm[k].size
      BY <3>1, BytesMore
    <3> QED BY <3>2 DEF K
  <2>5. (Listed(t) \cup {k}) \cap Stored = (Listed(t) \cap Stored) \cup {k}
    BY <2>1
  <2>6. total'[t] = Count(pcm', Listed(t)' \cap Stored')
    BY <1>1, <1>4, <1>5, <2>1, <2>2, <2>3, <2>4, <2>5
  <2>7. /\ \A j \in Keys : seen'[t][j] \in {Nothing, meta'[j]}
        /\ Stored' \subseteq left'[t] \cup Listed(t)'
        /\ left'[t] \cap Listed(t)' = {}
    BY <1>1, <1>3, <1>4, <1>5, <2>2, <2>3
  <2>8. ListInv(t)'
    BY <1>1, <1>5, <2>6, <2>7 DEF ListInv
  <2> QED BY <1>1, <1>5, <2>8 DEF AloneInv
<1> QED BY <1>6, <1>7

\* Everything is listed.
LEMMA Scanned_Alone ==
  ASSUME TypeInv, NEW t \in Tasks, AloneInv(t), UNCHANGED use, Scanned(t)
  PROVE  AloneInv(t)'
<1>1. /\ pc[t] = "scan" /\ left[t] = {} /\ pc' = [pc EXCEPT ![t] = "evict"]
      /\ UNCHANGED <<files, key, wave, mine, locals>>
  BY DEF Scanned
<1>2. pc'[t] = "evict" /\ \A s \in Tasks \ {t} : pc'[s] = pc[s]
  BY <1>1, AloneFacts
<1>3. /\ Evicting(t) /\ InHand(t) = {} /\ Evicting(t)' /\ InHand(t)' = {}
      /\ HalfInv(t)' /\ Stored' = Stored /\ Listed(t)' = Listed(t)
  BY <1>1, <1>2 DEF Evicting, InHand, HalfInv, Stored, Listed
<1>4. \A k \in Keys : Paired(k)'
  BY <1>1, <1>3, EvictFacts DEF Paired, Readable, Torn
<1>5. ListInv(t)'
  BY <1>1, <1>2, <1>3, EvictFacts DEF ListInv
<1> QED BY <1>2, <1>3, <1>4, <1>5 DEF AloneInv

\* The waveform of the coldest entry is deleted and its bytes are subtracted.
LEMMA EvictPcm_Alone ==
  ASSUME TypeInv, NEW t \in Tasks, AloneInv(t), UNCHANGED use, ~use.faults,
         EvictPcm(t)
  PROVE  AloneInv(t)'
<1>1. /\ pc[t] = "evict" /\ pc' = [pc EXCEPT ![t] = "evictMeta"]
      /\ UNCHANGED <<meta, left, seen>>
  BY DEF EvictPcm
<1>2. PICK k \in Listed(t) :
        /\ pcm' = [pcm EXCEPT ![k] = Nothing]
        /\ key' = [key EXCEPT ![t] = k]
        /\ total' = [total EXCEPT ![t] = Less(@, seen[t][k].bytes)]
  BY DEF EvictPcm, Coldest
<1>3. Evicting(t) /\ InHand(t) = {}
  BY <1>1 DEF Evicting, InHand
<1>4. /\ \A j \in Keys : Paired(j) /\ seen[t][j] \in {Nothing, meta[j]}
      /\ Stored \subseteq Listed(t) /\ left[t] = {} /\ Listed(t) \subseteq Keys
      /\ total[t] = Count(pcm, Listed(t) \cap Stored)
  BY <1>1, <1>3, EvictFacts
<1>5. Listed(t) = Stored
  BY <1>4 DEF Listed, Stored, Paired
<1>6. k \in Keys /\ k \in Stored /\ seen[t][k].bytes = pcm[k].size
  BY <1>4, <1>5 DEF Listed, Stored, Paired
<1>7. /\ pc'[t] = "evictMeta" /\ key'[t] = k /\ pcm'[k] = Nothing
      /\ \A j \in Keys \ {k} : pcm'[j] = pcm[j]
      /\ \A s \in Tasks \ {t} : pc'[s] = pc[s]
      /\ total'[t] = Less(total[t], seen[t][k].bytes)
  BY <1>1, <1>2, <1>6, AloneFacts
<1>8. /\ Evicting(t)' /\ InHand(t)' = {k} /\ HalfInv(t)'
      /\ Stored' = Stored \ {k} /\ Listed(t)' = Listed(t)
  BY <1>1, <1>6, <1>7 DEF Evicting, InHand, HalfInv, Stored, Listed
<1>9. \A j \in Keys \ {k} : Paired(j)'
  BY <1>1, <1>4, <1>7 DEF Paired, Readable, Torn
<1>10. total'[t] = Count(pcm', Stored')
  <2> DEFINE K == Stored \ {k}
  <2>1. K \in SUBSET Keys /\ k \in Keys \ K /\ K \cup {k} = Stored
        /\ \A j \in K \cup {k} : pcm[j].size \in Nat
    BY <1>6, AloneFacts
  <2> HIDE DEF K
  <2>2. Count(pcm, Stored) = Count(pcm, K) + pcm[k].size
    BY <2>1, BytesMore
  <2>3. Count(pcm, K) \in Nat /\ pcm[k].size \in Nat
    BY <2>1, BytesFinite
  <2>4. total[t] = Count(pcm, Stored)
    BY <1>4, <1>5
  <2>5. Less(total[t], pcm[k].size) = Count(pcm, K)
    BY <2>2, <2>3, <2>4 DEF Less
  <2>6. Count(pcm, K) = Count(pcm', K)
    <3>1. \A j \in K : pcm[j] = pcm'[j]
      BY <1>7, <2>1
    <3> QED BY <3>1, BytesSame
  <2>7. Stored' = K
    BY <1>8 DEF K
  <2> QED BY <1>6, <1>7, <2>5, <2>6, <2>7
<1>11. Listed(t)' \cap Stored' = Stored'
  BY <1>5, <1>8
<1>12. ListInv(t)'
  BY <1>1, <1>4, <1>5, <1>7, <1>8, <1>10, <1>11 DEF ListInv
<1> QED BY <1>7, <1>8, <1>9, <1>12 DEF AloneInv

\* Its metadata is deleted, and with it the entry.
LEMMA EvictMeta_Alone ==
  ASSUME TypeInv, NEW t \in Tasks, AloneInv(t), UNCHANGED use, ~use.faults,
         EvictMeta(t)
  PROVE  AloneInv(t)'
<1> DEFINE k == key[t]
<1>1. /\ pc[t] = "evictMeta" /\ pc' = [pc EXCEPT ![t] = "evict"]
      /\ meta' = [meta EXCEPT ![k] = Nothing]
      /\ seen' = [seen EXCEPT ![t][k] = Nothing]
      /\ UNCHANGED <<pcm, key, left, total>>
  BY DEF EvictMeta, RemoveMeta
<1>2. /\ k \in Keys /\ pcm[k] = Nothing /\ Evicting(t) /\ InHand(t) = {k}
  BY <1>1, AloneFacts DEF AloneInv, HalfInv, Evicting, InHand
<1>3. /\ \A j \in Keys \ {k} : Paired(j) /\ seen[t][j] \in {Nothing, meta[j]}
      /\ Stored \subseteq Listed(t) /\ left[t] = {} /\ Listed(t) \subseteq Keys
      /\ total[t] = Count(pcm, Listed(t) \cap Stored)
  BY <1>1, <1>2, EvictFacts
<1> HIDE DEF k
<1>4. /\ pc'[t] = "evict" /\ meta'[k] = Nothing /\ seen'[t][k] = Nothing
      /\ \A j \in Keys \ {k} : meta'[j] = meta[j] /\ seen'[t][j] = seen[t][j]
      /\ \A s \in Tasks \ {t} : pc'[s] = pc[s]
  BY <1>1, <1>2, AloneFacts
<1>5. /\ Evicting(t)' /\ InHand(t)' = {} /\ HalfInv(t)' /\ Stored' = Stored
      /\ Listed(t)' = Listed(t) \ {k} /\ k \notin Stored
  BY <1>1, <1>2, <1>4 DEF Evicting, InHand, HalfInv, Stored, Listed
<1>6. \A j \in Keys : Paired(j)'
  BY <1>1, <1>2, <1>3, <1>4 DEF Paired, Readable, Torn
<1>7. Listed(t)' \cap Stored' = Listed(t) \cap Stored
  BY <1>5
<1>8. ListInv(t)'
  BY <1>1, <1>3, <1>4, <1>5, <1>7 DEF ListInv
<1> QED BY <1>4, <1>5, <1>6, <1>8 DEF AloneInv

\* The eviction ends when what is left fits, or when nothing is left.
LEMMA EvictDone_Alone ==
  ASSUME TypeInv, NEW t \in Tasks, AloneInv(t), UNCHANGED use, EvictDone(t)
  PROVE  AloneInv(t)'
<1>1. /\ pc[t] = "evict" /\ UNCHANGED files /\ Return(t, Nothing)
      /\ total[t] <= use.max_bytes \/ Listed(t) = {}
  BY DEF EvictDone
<1>2. Evicting(t) /\ InHand(t) = {}
  BY <1>1 DEF Evicting, InHand
<1>3. /\ \A k \in Keys : Paired(k)
      /\ Stored \subseteq Listed(t)
      /\ total[t] = Count(pcm, Listed(t) \cap Stored)
  BY <1>1, <1>2, EvictFacts
<1>4. Listed(t) \cap Stored = Stored
  BY <1>3
<1>5. Fits
  <2>1. CASE total[t] <= use.max_bytes
    BY <1>3, <1>4, <2>1 DEF Fits
  <2>2. CASE Listed(t) = {}
    <3>1. Stored = {} /\ Count(pcm, {}) = 0 /\ use.max_bytes \in Nat
      BY <1>3, <2>2, BytesNone, AloneFacts
    <3> QED BY <3>1 DEF Fits
  <2> QED BY <1>1, <2>1, <2>2
<1>6. \A k \in Keys : Paired(k)'
  BY <1>1, <1>3 DEF Paired, Readable, Torn
<1> QED BY <1>1, <1>5, <1>6, Return_Alone

\* No step of the only call breaks the order of the disk.
LEMMA Next_Alone ==
  ASSUME TypeInv, CacheInv, NEW t \in Tasks, Alone(t), AloneInv(t), [Next]_vars
  PROVE  AloneInv(t)'
<1>1. CASE UNCHANGED vars
  <2>1. Fits' = Fits /\ Listed(t)' = Listed(t) /\ Stored' = Stored
    BY <1>1 DEF vars, Fits, Stored, Listed
  <2>2. (\A k \in Keys \ InHand(t) : Paired(k))' /\ HalfInv(t)'
    BY <1>1 DEF vars, AloneInv, InHand, Paired, Readable, Torn, HalfInv
  <2>3. ListInv(t)'
    BY <1>1, <2>1 DEF vars, AloneInv, ListInv, Evicting, InHand
  <2> QED BY <1>1, <2>1, <2>2, <2>3 DEF vars, AloneInv, Evicting
<1>2. CASE Crash /\ UNCHANGED use
  BY <1>2 DEF Crash, Alone
<1>3. ASSUME NEW s \in use.tasks, Step(s), UNCHANGED use
      PROVE  AloneInv(t)'
  <2>1. s = t /\ ~use.faults
    BY DEF Alone
  <2>2. CASE \/ \E k \in use.keys : Get(t, k)
             \/ GetMeta(t) \/ GetTruncate(t) \/ GetWrite(t) \/ GetUpdateFails(t)
    BY <1>3, <2>1, <2>2, Get_Alone
  <2>3. CASE \/ \E k \in use.keys : \E size \in use.sizes : Put(t, k, size)
             \/ PutData(t) \/ PutRename(t) \/ PutTruncate(t) \/ PutFails(t)
    BY <1>3, <2>1, <2>3, Put_Alone
  <2>4. CASE \/ PutMeta(t) \/ Scan(t) \/ ScanFails(t) \/ Scanned(t)
             \/ EvictPcm(t) \/ EvictMeta(t) \/ EvictDone(t)
    <3>1. ~ScanFails(t)
      BY <2>1 DEF ScanFails
    <3> QED
      BY <1>3, <2>1, <2>4, <3>1, PutMeta_Alone, Scan_Alone, Scanned_Alone,
         EvictPcm_Alone, EvictMeta_Alone, EvictDone_Alone
  <2> QED BY <1>3, <2>1, <2>2, <2>3, <2>4 DEF Step
<1> QED BY <1>1, <1>2, <1>3 DEF Next

\* The invariants of all uses and of calls one after the other.
LEMMA Next_Sequential ==
  ASSUME SequentialInv, [Next]_vars
  PROVE  SequentialInv'
<1>1. TypeInv' /\ CacheInv'
  BY Next_Types, Next_Cache DEF SequentialInv
<1>2. UNCHANGED use
  BY DEF Next, vars
<1>3. ASSUME NEW t \in Tasks, Alone(t)'
      PROVE  AloneInv(t)'
  <2>1. Alone(t)
    BY <1>2, <1>3 DEF Alone
  <2> QED BY <2>1, Next_Alone DEF SequentialInv
<1> QED BY <1>1, <1>3 DEF SequentialInv

\* An empty cache is in order.
LEMMA Init_Sequential ==
  ASSUME Init
  PROVE  SequentialInv
<1>1. use \in Uses /\ use.keys \subseteq Keys /\ use.max_bytes \in Nat
  BY TtsCacheAssumption DEF Init
<1>2. TypeOK
  BY <1>1 DEF Init, TypeOK
<1>3. TypeInv
  BY <1>1, <1>2 DEF Init, TypeInv, InHandTypes
<1>4. CacheInv
  <2>1. Shape
    BY <1>1 DEF Init, Shape
  <2> QED BY <2>1 DEF Init, CacheInv, FileInv, CallInv
<1>5. ASSUME NEW t \in Tasks
      PROVE  AloneInv(t)
  <2>1. /\ \A s \in Tasks : pc[s] = "idle" /\ total[t] = 0
        /\ \A k \in Keys : pcm[k] = Nothing /\ meta[k] = Nothing
        /\ \A k \in Keys : seen[t][k] = Nothing
    BY DEF Init
  <2>2. Stored = {} /\ Listed(t) = {} /\ InHand(t) = {} /\ ~Evicting(t)
    BY <2>1 DEF Stored, Listed, InHand, Evicting
  <2>3. Fits
    BY <1>1, <2>2, BytesNone DEF Fits
  <2>4. HalfInv(t) /\ ListInv(t) /\ \A k \in Keys : Paired(k)
    BY <2>1, <2>2 DEF HalfInv, ListInv, Paired
  <2> QED BY <2>1, <2>2, <2>3, <2>4 DEF AloneInv
<1> QED BY <1>3, <1>4, <1>5 DEF SequentialInv

\* Of an orderly use the disk is in order.
LEMMA OrderlyFacts ==
  ASSUME SequentialInv, Orderly
  PROVE  Fits /\ \A k \in Keys : Paired(k)
<1>1. use.tasks \subseteq Tasks /\ IsFiniteSet(use.tasks)
  BY UseFacts, FS_Subset, TtsCacheAssumption DEF SequentialInv, TypeInv
<1>2. PICK t : use.tasks = {t}
  BY <1>1, FS_Singleton DEF Orderly
<1>3. t \in Tasks /\ AloneInv(t) /\ pc[t] = "idle"
  BY <1>1, <1>2 DEF SequentialInv, Alone, Orderly
<1> QED BY <1>3 DEF AloneInv, InHand, Evicting

\* The waveforms on disk fit max_bytes whenever calls have come one after the
\* other, whatever their sizes and however often an entry was replaced or read
\* (evict_if_needed; lib.rs 116, `Maximum size of the TTS cache').
THEOREM TheCacheFits == Spec => []SizeBounded
<1>1. SequentialInv => SizeBounded
  BY OrderlyFacts DEF SizeBounded, Fits, Count, BytesOf, BytesIn
<1> QED BY <1>1, Init_Sequential, Next_Sequential, PTL DEF Spec

\* After such calls every entry is a waveform and metadata that tells its size:
\* no step of put, get or eviction leaves one without the other.
THEOREM EntriesStayPairs == Spec => []EntriesArePairs
<1>1. SequentialInv => EntriesArePairs
  BY OrderlyFacts DEF EntriesArePairs, Paired
<1> QED BY <1>1, Init_Sequential, Next_Sequential, PTL DEF Spec

\* A call that nothing overlaps evicts no entry while it keeps one with fewer
\* hits (TtsCache, `Eviction': lowest hits first).
THEOREM TheColdestGoFirst == Spec => ColdestGoFirst
<1> DEFINE Gone(t) ==
      use.tasks = {t} /\ ~use.faults /\ At(t, "evict") /\ pc'[t] = "evictMeta" =>
        \A k \in Stored : pcm'[k] # Nothing =>
          meta[key'[t]].hits <= meta[k].hits
<1>1. ASSUME SequentialInv, [Next]_vars, NEW t \in Tasks
      PROVE  Gone(t)
  <2>1. SUFFICES ASSUME use.tasks = {t}, ~use.faults, pc[t] = "evict",
                        pc'[t] = "evictMeta"
                 PROVE  \A k \in Stored : meta[key'[t]].hits <= meta[k].hits
    OBVIOUS
  <2>2. TypeInv /\ AloneInv(t) /\ Evicting(t) /\ InHand(t) = {}
    BY <1>1, <2>1 DEF SequentialInv, Alone, Evicting, InHand
  <2>3. DOMAIN pc = Tasks
    BY <2>2, AloneFacts
  <2>4. Step(t)
    BY <1>1, <2>1 DEF Next, Crash, vars
  <2>5. EvictPcm(t)
    BY <2>1, <2>3, <2>4
       DEF Step, Get, GetMeta, GetTruncate, GetWrite, GetUpdateFails, Put, PutData,
           PutRename, PutTruncate, PutMeta, PutFails, Scan, ScanFails, Scanned,
           EvictMeta, EvictDone, Return
  <2>6. PICK k \in Coldest(t) : key' = [key EXCEPT ![t] = k]
    BY <2>5 DEF EvictPcm
  <2>7. key'[t] = k
    BY <2>2, <2>6, AloneFacts
  <2>8. /\ \A j \in Keys : seen[t][j] \in {Nothing, meta[j]}
        /\ Stored \subseteq Listed(t)
    BY <2>1, <2>2, EvictFacts
  <2>9. ASSUME NEW j \in Stored
        PROVE  meta[k].hits <= meta[j].hits
    <3>1. seen[t][k].hits <= seen[t][j].hits
      BY <2>6, <2>8 DEF Coldest
    <3>2. seen[t][k] = meta[k] /\ seen[t][j] = meta[j]
      BY <2>6, <2>8 DEF Coldest, Listed
    <3> QED BY <3>1, <3>2
  <2> QED BY <2>7, <2>9
<1>2. SequentialInv /\ [Next]_vars => [\A t \in Tasks : Gone(t)]_vars
  BY <1>1
<1> QED BY <1>2, Init_Sequential, Next_Sequential, PTL DEF Spec, ColdestGoFirst
=============================================================================

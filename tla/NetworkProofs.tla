---------------------------- MODULE NetworkProofs ----------------------------
(***************************************************************************)
(* Proofs about two parts of the networking layer: the HTTP cache          *)
(* (HttpCache), for any number of threads and URLs, any capacity and any   *)
(* number of faults, and the WebSocket client (WebSocket), for every       *)
(* stream of frames, every buffer and every cut of the stream into reads,  *)
(* with its refinement of MessageStream.                                   *)
(***************************************************************************)
EXTENDS HttpCache, WebSocket, SeqFacts

-----------------------------------------------------------------------------
(* The HTTP cache: the inductive invariant.                                *)

CacheControls == {"none", "max-age", "no-cache", "no-store"}
Bodies == {b \in [ver : {0} \cup Versions, len : Nat] : b.len = 0 => b.ver = 0}
Outs == [status : {0, 200, 304}, body : Bodies, ver : {0} \cup Versions,
         tagged : BOOLEAN, cc : CacheControls]
ThreadSet == [pc : Pcs, url : Urls \cup {None}, get : BOOLEAN,
              cond : {0} \cup Versions, out : Outs]

\* The entries of a URL in memory; the threads that fetch it with GET.
Ram(u) == {e \in ToSet(entries) : e.url = u}
Gets(t, u) == th[t].pc # "idle" /\ th[t].url = u /\ th[t].get

\* Nothing has failed, or nothing went wrong with u.
Good(u) == faults = 0 \/ u \notin suspect

\* A thread writes the files of u; it has written the .meta.
Saving(u) == \E t \in Threads : th[t].pc \in {"save_meta", "save_bin"} /\ th[t].url = u
Writing(u) == \E t \in Threads : th[t].pc = "save_bin" /\ th[t].url = u

\* Types, as far as TypeOK leaves them open.
Typed ==
    /\ TypeOK
    /\ th \in [Threads -> ThreadSet]
    /\ bin \in [Urls -> {NoBin} \cup Bodies]
    /\ \A e \in ToSet(entries) : e.body \in Bodies /\ e.ver \in DOMAIN BodyLen[e.url]
    /\ \A u \in Urls : meta[u] = NoMeta \/ meta[u].ver \in DOMAIN BodyLen[u]
    /\ origin \in [Urls -> [ver : Versions, tagged : BOOLEAN, cc : CacheControls]]
    /\ \A u \in Urls : origin[u].ver \in DOMAIN BodyLen[u]
    /\ now \in Nat /\ faults \in Nat

\* What the program counter of a fetch says about it.
Fetching ==
    \A t \in Threads :
        /\ th[t].pc # "idle" => th[t].url \in Urls
        /\ th[t].pc = "answered" => th[t].cond = th[t].out.ver /\ th[t].out.status = 304
        /\ th[t].out.status # 200 => th[t].out.body = NoBytes
        /\ th[t].pc \in {"answered", "received", "unlink_bin", "save_meta", "save_bin"}
              => th[t].out.ver \in DOMAIN BodyLen[th[t].url]
        /\ th[t].pc \in {"unlink_bin", "save_meta", "save_bin"} =>
              th[t].get /\ th[t].out.status = 200
        /\ th[t].pc \in {"save_meta", "save_bin"} =>
              \E e \in ToSet(entries) : /\ e.url = th[t].url /\ e.body = th[t].out.body
                                        /\ e.ver = th[t].out.ver

\* The files agree with the entry e, or hold no entry.
DiskIs(u, e) ==
    \/ meta[u] = NoMeta
    \/ meta[u] = MetaOf(e) /\ (e.body.len = 0 \/ bin[u] \in {NoBin, e.body})

\* The .bin is as long as the .meta says.
DiskWhole(u) ==
    meta[u] = NoMeta \/ meta[u].len = 0 \/ bin[u] = NoBin \/ bin[u].len = meta[u].len

Disk ==
    \A u \in Urls : Good(u) =>
        /\ ~Writing(u) => DiskWhole(u)
        /\ \A e \in Ram(u) : /\ ~Saving(u) => DiskIs(u, e)
                             /\ Writing(u) => meta[u] \in {NoMeta, MetaOf(e)}

\* The rest is about URLs nothing went wrong with.  The entry and the files are
\* what arrived of one response, and so is what a GET is about to store.
Responses ==
    \A u \in Urls \ suspect :
        /\ \A e \in Ram(u) : e.body \in ArrivedBody(u, e.ver)
        /\ ~Writing(u) =>
              \/ meta[u] = NoMeta
              \/ /\ Bytes(meta[u].ver, meta[u].len) \in ArrivedBody(u, meta[u].ver)
                 /\ meta[u].len = 0 \/ bin[u] = Bytes(meta[u].ver, meta[u].len)
        /\ \A t \in Threads : Gets(t, u) =>
              /\ th[t].pc \in {"received", "unlink_bin", "save_meta", "save_bin"}
                    /\ th[t].out.status = 200 => th[t].out.body \in ArrivedBody(u, th[t].out.ver)
              /\ th[t].pc = "unlink_bin" => meta[u] = NoMeta

\* One GET at a time: from the look-up to the answer the entry is the one its
\* validator came from, and it stays stale.
OneGet ==
    \A u \in Urls \ suspect : \A t \in Threads : Gets(t, u) =>
        /\ \A s \in Threads : Gets(s, u) => s = t
        /\ th[t].pc \in {"request", "answered"} /\ th[t].cond > 0 =>
              /\ \A e \in Ram(u) : e.ver = th[t].cond
              /\ meta[u] = NoMeta \/ meta[u].ver = th[t].cond
        /\ th[t].pc \notin {"save_meta", "save_bin"} =>
              /\ \A e \in Ram(u) : e.until <= now
              /\ meta[u] = NoMeta \/ meta[u].until <= now

\* No entry that can still answer is older than what was given last.
Current ==
    \A u \in Urls \ suspect :
        /\ last[u] <= origin[u].ver
        /\ \A e \in Ram(u) : e.ver <= origin[u].ver /\ (last[u] <= e.ver \/ e.until <= now)
        /\ meta[u] = NoMeta \/ (meta[u].ver <= origin[u].ver
                                /\ (last[u] <= meta[u].ver \/ meta[u].until <= now))
        /\ \A t \in Threads :
              Gets(t, u) /\ th[t].pc \in {"answered", "received", "unlink_bin", "save_meta", "save_bin"}
                 => last[u] <= th[t].out.ver /\ th[t].out.ver <= origin[u].ver

CacheInv == Typed /\ TableIsSound /\ Fetching /\ Disk /\ Responses /\ OneGet /\ Current

-----------------------------------------------------------------------------
(* Bodies, the files and the table.                                        *)

\* The versions of a resource, the body of one, and what may arrive of it.
LEMMA VersionFacts ==
    /\ Versions \subseteq Nat \ {0}
    /\ \A u \in Urls : \A v \in DOMAIN BodyLen[u] :
          /\ v \in Versions /\ v \in Nat \ {0} /\ BodyLen[u][v] \in Nat
          /\ Body(u, v) \in ArrivedBody(u, v)
          /\ v \in Cut[u] =>
                \A n \in 0 .. BodyLen[u][v] : Bytes(v, n) \in ArrivedBody(u, v)
          /\ \A b \in ArrivedBody(u, v) :
                /\ b \in Bodies /\ b.len \in Nat /\ b = Bytes(v, b.len)
                /\ b.ver > 0 => b.ver = v
    /\ NoBytes \in Bodies
    /\ Nothing \in Outs
<1>1. ASSUME NEW u \in Urls, NEW v \in DOMAIN BodyLen[u]
      PROVE  v \in Versions /\ v \in Nat \ {0} /\ BodyLen[u][v] \in Nat
  <2>1. BodyLen[u] \in Seq(Nat)
    BY HttpCacheAssumption
  <2>. QED
    BY <2>1 DEF Versions
<1>2. Versions \subseteq Nat \ {0}
  BY <1>1 DEF Versions
<1>3. ASSUME NEW u \in Urls, NEW v \in DOMAIN BodyLen[u]
      PROVE  /\ Body(u, v) \in ArrivedBody(u, v)
             /\ v \in Cut[u] =>
                   \A n \in 0 .. BodyLen[u][v] : Bytes(v, n) \in ArrivedBody(u, v)
  BY <1>1, <1>3 DEF Body, ArrivedBody
<1>6. ASSUME NEW u \in Urls, NEW v \in DOMAIN BodyLen[u], NEW b \in ArrivedBody(u, v)
      PROVE  /\ b \in Bodies /\ b.len \in Nat /\ b = Bytes(v, b.len)
             /\ b.ver > 0 => b.ver = v
  <2>1. PICK n \in Nat : b = Bytes(v, n)
    BY <1>1, <1>6 DEF ArrivedBody
  <2>. QED
    BY <2>1, <1>1, <1>6 DEF Bytes, Bodies
<1>4. NoBytes \in Bodies
  BY DEF NoBytes, Bytes, Bodies
<1>5. Nothing \in Outs
  BY <1>4 DEF Nothing, Outs, CacheControls
<1>. QED
  BY <1>1, <1>2, <1>3, <1>4, <1>5, <1>6

\* Versions, and 0 for none, are numbers.
LEMMA VersionNat == \A x \in {0} \cup Versions : x \in Nat
<1>1. \A x \in Versions : x \in Nat
  BY VersionFacts
<1>. HIDE DEF Versions
<1>. QED
  BY <1>1

\* A table: at most MAX_ENTRIES entries, none of a URL twice.
TableOK(tab) ==
    /\ tab \in Seq(EntrySet) /\ Len(tab) <= MAX_ENTRIES
    /\ \A i, j \in DOMAIN tab : tab[i].url = tab[j].url => i = j

\* The entries of u a look-up can find: in memory, or in the files.
Known(u) == Ram(u) \cup ToSet(LoadFromDisk(u))

\* A table has one entry of a URL.
LEMMA TableUnique ==
    ASSUME NEW tab, TableOK(tab), NEW d \in ToSet(tab), NEW e \in ToSet(tab),
           d.url = e.url
    PROVE  d = e
<1>1. PICK i \in DOMAIN tab : tab[i] = d
  BY DEF ToSet, TableOK
<1>2. PICK j \in DOMAIN tab : tab[j] = e
  BY DEF ToSet, TableOK
<1>. QED
  BY <1>1, <1>2 DEF TableOK

\* The slot of a new entry.
LEMMA PutFacts ==
    ASSUME TableOK(entries), NEW e \in EntrySet, \A d \in ToSet(entries) : d.url # e.url
    PROVE  /\ TableOK(Put(e))
           /\ ToSet(Put(e)) \subseteq ToSet(entries) \cup {e}
           /\ e \in ToSet(Put(e))
<1>. DEFINE S == EntrySet
<1>0. /\ entries \in Seq(S) /\ Len(entries) \in Nat /\ MAX_ENTRIES \in Nat \ {0}
      /\ e \in S /\ Len(entries) <= MAX_ENTRIES
      /\ \A i, j \in 1 .. Len(entries) : entries[i].url = entries[j].url => i = j
  BY HttpCacheAssumption DEF TableOK
<1>. HIDE DEF S
<1>1. \A i \in 1 .. Len(entries) : entries[i].url # e.url
  BY <1>0 DEF ToSet
<1>2. CASE Len(entries) >= MAX_ENTRIES
  <2>1. entries # <<>> /\ Len(entries) # 0
    BY <1>0, <1>2
  <2>2. /\ Tail(entries) \in Seq(S) /\ Len(Tail(entries)) = Len(entries) - 1
        /\ \A i \in 1 .. Len(entries) - 1 : Tail(entries)[i] = entries[i + 1]
    BY <1>0, <2>1
  <2>3. ToSet(Tail(entries)) \subseteq ToSet(entries)
    BY <1>0, <2>1, TailFacts
  <2>. DEFINE tl == Tail(entries)
              r == Append(tl, e)
  <2>4. /\ r \in Seq(S) /\ ToSet(r) = ToSet(tl) \cup {e}
    <3>1. tl \in Seq(S) /\ e \in S
      BY <1>0, <2>2
    <3>. HIDE DEF tl
    <3>. QED
      BY <3>1, AppendFacts
  <2>5. /\ Len(r) = Len(entries)
        /\ \A i \in 1 .. Len(entries) - 1 : r[i] = entries[i + 1]
        /\ r[Len(entries)] = e
    BY <1>0, <2>1, <2>2
  <2>. HIDE DEF r
  <2>6. \A i, j \in 1 .. Len(entries) : r[i].url = r[j].url => i = j
    <3>1. SUFFICES ASSUME NEW i \in 1 .. Len(entries), NEW j \in 1 .. Len(entries),
                          r[i].url = r[j].url, i < j
                   PROVE  FALSE
      BY <1>0
    <3>2. i \in 1 .. Len(entries) - 1 /\ i + 1 \in 1 .. Len(entries)
      BY <1>0, <3>1
    <3>3. CASE j = Len(entries)
      BY <1>1, <2>5, <3>1, <3>2, <3>3
    <3>4. CASE j # Len(entries)
      <4>1. j \in 1 .. Len(entries) - 1 /\ j + 1 \in 1 .. Len(entries) /\ i + 1 # j + 1
        BY <1>0, <3>1, <3>4
      <4>. QED
        BY <1>0, <2>5, <3>1, <3>2, <4>1
    <3>. QED
      BY <3>3, <3>4
  <2>7. Put(e) = r
    BY <1>2 DEF Put, r
  <2>. QED
    BY <1>0, <2>3, <2>4, <2>5, <2>6, <2>7 DEF TableOK, S
<1>3. CASE ~(Len(entries) >= MAX_ENTRIES)
  <2>. DEFINE r == Append(entries, e)
  <2>1. /\ r \in Seq(S) /\ ToSet(r) = ToSet(entries) \cup {e}
    BY <1>0, AppendFacts
  <2>2. /\ Len(r) = Len(entries) + 1 /\ r[Len(entries) + 1] = e
        /\ \A i \in 1 .. Len(entries) : r[i] = entries[i]
    BY <1>0
  <2>. HIDE DEF r
  <2>3. \A i, j \in 1 .. Len(entries) + 1 : r[i].url = r[j].url => i = j
    <3>1. SUFFICES ASSUME NEW i \in 1 .. Len(entries) + 1, NEW j \in 1 .. Len(entries) + 1,
                          r[i].url = r[j].url, i < j
                   PROVE  FALSE
      BY <1>0
    <3>2. i \in 1 .. Len(entries)
      BY <1>0, <3>1
    <3>3. CASE j = Len(entries) + 1
      BY <1>1, <2>2, <3>1, <3>2, <3>3
    <3>4. CASE j # Len(entries) + 1
      <4>1. j \in 1 .. Len(entries) /\ i # j
        BY <1>0, <3>1, <3>4
      <4>. QED
        BY <1>0, <2>2, <3>1, <3>2, <4>1
    <3>. QED
      BY <3>3, <3>4
  <2>4. Put(e) = r
    BY <1>3 DEF Put, r
  <2>5. Len(r) <= MAX_ENTRIES
    BY <1>0, <1>3, <2>2
  <2>. QED
    BY <1>0, <2>1, <2>2, <2>3, <2>4, <2>5 DEF TableOK, S
<1>. QED
  BY <1>2, <1>3

\* What the files of a URL hold.
LEMMA LoadFacts ==
    ASSUME Typed, NEW u \in Urls, LoadFromDisk(u) # <<>>
    PROVE  \E e \in EntrySet :
              /\ LoadFromDisk(u) = <<e>>
              /\ e.url = u /\ e.body \in Bodies /\ e.ver \in DOMAIN BodyLen[u]
              /\ meta[u] # NoMeta /\ meta[u] \in MetaSet
              /\ e.ver = meta[u].ver /\ e.tagged = meta[u].tagged
              /\ e.until = meta[u].until
              /\ meta[u].len = 0 => e.body = NoBytes
              /\ meta[u].len # 0 => /\ bin[u] # NoBin /\ bin[u] \in Bodies
                                    /\ bin[u].len = meta[u].len => e.body = bin[u]
<1>1. meta[u] # NoMeta /\ ~(meta[u].len > 0 /\ bin[u] = NoBin)
  BY DEF LoadFromDisk
<1>2. /\ meta[u] \in MetaSet /\ meta[u].ver \in DOMAIN BodyLen[u]
      /\ bin[u] \in {NoBin} \cup Bodies
  BY <1>1 DEF Typed, TypeOK
<1>. DEFINE n == IF meta[u].len = 0 THEN 0
                 ELSE IF bin[u].len < meta[u].len THEN bin[u].len
                 ELSE meta[u].len
            v == IF n = 0 THEN 0 ELSE bin[u].ver
            e == Entry(u, Bytes(v, n), meta[u].ver, meta[u].tagged, meta[u].until)
<1>3. LoadFromDisk(u) = <<e>>
  BY <1>1 DEF LoadFromDisk
<1>4. meta[u].len \in Nat /\ meta[u].ver \in Versions /\ meta[u].tagged \in BOOLEAN
      /\ meta[u].until \in Nat
  BY <1>2 DEF MetaSet
<1>5. meta[u].len # 0 => bin[u] # NoBin /\ bin[u] \in Bodies /\ bin[u].len \in Nat
                         /\ bin[u].ver \in {0} \cup Versions
                         /\ bin[u] = [ver |-> bin[u].ver, len |-> bin[u].len]
                         /\ (bin[u].len = 0 => bin[u].ver = 0)
  BY <1>1, <1>2, <1>4 DEF Bodies
<1>6. n \in Nat /\ v \in {0} \cup Versions
  BY <1>4, <1>5
<1>7. Bytes(v, n) \in Bodies
  BY <1>6 DEF Bytes, Bodies
<1>8. meta[u].len = 0 => Bytes(v, n) = NoBytes
  BY DEF Bytes, NoBytes
<1>9. meta[u].len # 0 /\ bin[u].len = meta[u].len => Bytes(v, n) = bin[u]
  BY <1>4, <1>5 DEF Bytes
<1>. HIDE DEF n, v
<1>10. e \in EntrySet
  <2>1. v \in Nat
    BY <1>6, VersionNat, Zenon
  <2>2. Bytes(v, n) \in [ver : Nat, len : Nat]
    BY <1>6, <2>1 DEF Bytes
  <2>. QED
    BY <1>4, <2>2 DEF EntrySet, Entry
<1>11. /\ e.url = u /\ e.body = Bytes(v, n) /\ e.ver = meta[u].ver
       /\ e.tagged = meta[u].tagged /\ e.until = meta[u].until
  BY DEF Entry
<1>. HIDE DEF e
<1>. QED
  BY <1>1, <1>2, <1>3, <1>5, <1>7, <1>8, <1>9, <1>10, <1>11

\* What find_idx returns and leaves.
LEMMA FindFacts ==
    ASSUME Typed, TableOK(entries), NEW u \in Urls
    PROVE  /\ TableOK(FindIdx(u).table)
           /\ \A d \in ToSet(FindIdx(u).table) : d \in Known(d.url)
           /\ \/ FindIdx(u).found = <<>> /\ Known(u) = {}
              \/ \E e \in Known(u) : /\ e.url = u /\ e \in EntrySet
                                     /\ FindIdx(u).found = <<e>>
                                     /\ e \in ToSet(FindIdx(u).table)
<1>0. \A d \in ToSet(entries) : d \in Known(d.url) /\ d \in EntrySet
  BY DEF Known, Ram, ToSet, TableOK
<1>1. CASE InRam(u) # {}
  <2>1. Slot(u) \in InRam(u)
    BY <1>1 DEF Slot
  <2>. DEFINE e == entries[Slot(u)]
  <2>2. e \in ToSet(entries) /\ e.url = u
    BY <2>1 DEF InRam, ToSet
  <2>. HIDE DEF e
  <2>3. FindIdx(u).found = <<e>> /\ FindIdx(u).table = entries
    BY <1>1 DEF FindIdx, e
  <2>4. e \in Known(u) /\ e \in EntrySet
    BY <1>0, <2>2
  <2>. QED
    BY <1>0, <2>2, <2>3, <2>4
<1>2. CASE InRam(u) = {}
  <2>1. Ram(u) = {}
    BY <1>2 DEF InRam, Ram, ToSet
  <2>2. CASE LoadFromDisk(u) = <<>>
    <3>1. FindIdx(u).found = <<>> /\ FindIdx(u).table = entries
      BY <1>2, <2>2 DEF FindIdx
    <3>2. Known(u) = {}
      BY <2>1, <2>2, EmptyFacts DEF Known
    <3>. QED
      BY <1>0, <3>1, <3>2
  <2>3. CASE LoadFromDisk(u) # <<>>
    <3>1. PICK e \in EntrySet : LoadFromDisk(u) = <<e>> /\ e.url = u
      BY <2>3, LoadFacts
    <3>2. FindIdx(u).found = <<e>> /\ FindIdx(u).table = Put(e)
      BY <1>2, <2>3, <3>1 DEF FindIdx
    <3>3. e \in Known(u)
      BY <3>1 DEF Known, ToSet
    <3>4. \A d \in ToSet(entries) : d.url # e.url
      BY <2>1, <3>1 DEF Ram
    <3>5. /\ TableOK(Put(e)) /\ ToSet(Put(e)) \subseteq ToSet(entries) \cup {e}
          /\ e \in ToSet(Put(e))
      BY <3>4, PutFacts
    <3>. QED
      BY <1>0, <3>1, <3>2, <3>3, <3>5
  <2>. QED
    BY <2>2, <2>3
<1>. QED
  BY <1>1, <1>2

\* While no thread is in the lock nothing is being saved, and what the invariant
\* says of the entry in memory holds of the entry in the files too.
LEMMA KnownFacts ==
    ASSUME CacheInv, lock = Free
    PROVE  /\ TableOK(entries)
           /\ \A t \in Threads : th[t].pc \notin {"save_meta", "save_bin"}
           /\ \A u \in Urls : ~Saving(u) /\ ~Writing(u)
           /\ \A u \in Urls : \A e \in Known(u) :
                /\ e \in EntrySet /\ e.url = u /\ e.body \in Bodies
                /\ e.ver \in DOMAIN BodyLen[u]
                /\ Good(u) => DiskIs(u, e)
                /\ u \notin suspect =>
                     /\ e.body \in ArrivedBody(u, e.ver)
                     /\ e.ver <= origin[u].ver /\ (last[u] <= e.ver \/ e.until <= now)
                     /\ \A t \in Threads : Gets(t, u) =>
                          /\ e.until <= now
                          /\ th[t].pc \in {"request", "answered"} /\ th[t].cond > 0
                                => e.ver = th[t].cond
<1>1. TableOK(entries)
  BY DEF CacheInv, Typed, TypeOK, TableIsSound, TableOK
<1>2. \A t \in Threads : th[t].pc \notin {"save_meta", "save_bin"}
  BY HttpCacheAssumption DEF CacheInv, TableIsSound
<1>3. \A u \in Urls : ~Saving(u) /\ ~Writing(u)
  BY <1>2 DEF Saving, Writing
<1>4. ASSUME NEW u \in Urls, NEW e \in Ram(u)
      PROVE  /\ e \in EntrySet /\ e.url = u /\ e.body \in Bodies
             /\ e.ver \in DOMAIN BodyLen[u]
             /\ Good(u) => DiskIs(u, e)
             /\ u \notin suspect =>
                  /\ e.body \in ArrivedBody(u, e.ver)
                  /\ e.ver <= origin[u].ver /\ (last[u] <= e.ver \/ e.until <= now)
                  /\ \A t \in Threads : Gets(t, u) =>
                       /\ e.until <= now
                       /\ th[t].pc \in {"request", "answered"} /\ th[t].cond > 0
                             => e.ver = th[t].cond
  <2>1. e \in ToSet(entries) /\ e.url = u
    BY <1>4 DEF Ram
  <2>2. e \in EntrySet
    BY <1>1, <2>1 DEF TableOK, ToSet
  <2>3. e.body \in Bodies /\ e.ver \in DOMAIN BodyLen[u]
    BY <2>1 DEF CacheInv, Typed
  <2>4. Good(u) => DiskIs(u, e)
    BY <1>3 DEF CacheInv, Disk
  <2>5. ASSUME u \notin suspect
        PROVE  /\ e.body \in ArrivedBody(u, e.ver)
               /\ e.ver <= origin[u].ver /\ (last[u] <= e.ver \/ e.until <= now)
    BY <2>5 DEF CacheInv, Responses, Current
  <2>6. ASSUME u \notin suspect, NEW t \in Threads, Gets(t, u)
        PROVE  /\ e.until <= now
               /\ th[t].pc \in {"request", "answered"} /\ th[t].cond > 0 => e.ver = th[t].cond
    BY <1>2, <2>6 DEF CacheInv, OneGet
  <2>. QED
    BY <2>1, <2>2, <2>3, <2>4, <2>5, <2>6
<1>5. ASSUME NEW u \in Urls, NEW e \in ToSet(LoadFromDisk(u))
      PROVE  /\ e \in EntrySet /\ e.url = u /\ e.body \in Bodies
             /\ e.ver \in DOMAIN BodyLen[u]
             /\ Good(u) => DiskIs(u, e)
             /\ u \notin suspect =>
                  /\ e.body \in ArrivedBody(u, e.ver)
                  /\ e.ver <= origin[u].ver /\ (last[u] <= e.ver \/ e.until <= now)
                  /\ \A t \in Threads : Gets(t, u) =>
                       /\ e.until <= now
                       /\ th[t].pc \in {"request", "answered"} /\ th[t].cond > 0
                             => e.ver = th[t].cond
  <2>1. LoadFromDisk(u) # <<>>
    BY <1>5, EmptyFacts
  <2>2. PICK d \in EntrySet :
              /\ LoadFromDisk(u) = <<d>>
              /\ d.url = u /\ d.body \in Bodies /\ d.ver \in DOMAIN BodyLen[u]
              /\ meta[u] # NoMeta /\ meta[u] \in MetaSet
              /\ d.ver = meta[u].ver /\ d.tagged = meta[u].tagged
              /\ d.until = meta[u].until
              /\ meta[u].len = 0 => d.body = NoBytes
              /\ meta[u].len # 0 => /\ bin[u] # NoBin /\ bin[u] \in Bodies
                                    /\ bin[u].len = meta[u].len => d.body = bin[u]
    BY <2>1, LoadFacts DEF CacheInv
  <2>3. e = d
    BY <1>5, <2>2 DEF ToSet
  <2>4. ASSUME Good(u)
        PROVE  DiskIs(u, e)
    <3>1. meta[u].len = 0 \/ bin[u].len = meta[u].len
      BY <1>3, <2>2, <2>4 DEF CacheInv, Disk, DiskWhole
    <3>2. meta[u].len = e.body.len /\ (e.body.len = 0 \/ bin[u] = e.body)
      BY <2>2, <2>3, <3>1 DEF NoBytes, Bytes
    <3>3. meta[u] = MetaOf(e)
      BY <2>2, <2>3, <3>2 DEF MetaOf, MetaSet
    <3>. QED
      BY <3>2, <3>3 DEF DiskIs
  <2>5. ASSUME u \notin suspect
        PROVE  /\ e.body \in ArrivedBody(u, e.ver)
               /\ e.ver <= origin[u].ver /\ (last[u] <= e.ver \/ e.until <= now)
    <3>1. /\ Bytes(meta[u].ver, meta[u].len) \in ArrivedBody(u, meta[u].ver)
          /\ meta[u].len = 0 \/ bin[u] = Bytes(meta[u].ver, meta[u].len)
      BY <1>3, <2>2, <2>5 DEF CacheInv, Responses
    <3>2. e.body \in ArrivedBody(u, e.ver)
      <4>1. CASE meta[u].len = 0
        BY <2>2, <2>3, <3>1, <4>1 DEF NoBytes, Bytes
      <4>2. CASE meta[u].len # 0
        BY <2>2, <2>3, <3>1, <4>2 DEF Bytes
      <4>. QED
        BY <4>1, <4>2
    <3>3. e.ver <= origin[u].ver /\ (last[u] <= e.ver \/ e.until <= now)
      BY <2>2, <2>3, <2>5 DEF CacheInv, Current
    <3>. QED
      BY <3>2, <3>3
  <2>6. ASSUME u \notin suspect, NEW t \in Threads, Gets(t, u)
        PROVE  /\ e.until <= now
               /\ th[t].pc \in {"request", "answered"} /\ th[t].cond > 0 => e.ver = th[t].cond
    BY <1>2, <2>2, <2>3, <2>6 DEF CacheInv, OneGet
  <2>. QED
    BY <2>2, <2>3, <2>4, <2>5, <2>6
<1>6. \A u \in Urls : \A e \in Known(u) : e \in Ram(u) \/ e \in ToSet(LoadFromDisk(u))
  BY DEF Known
<1>. QED
  BY <1>1, <1>2, <1>3, <1>4, <1>5, <1>6

-----------------------------------------------------------------------------
(* The steps of a fetch.                                                    *)

\* A step that looks a URL up, or empties the table: the table and the files
\* stay in agreement.
LEMMA LookUp ==
    ASSUME CacheInv, lock = Free, TableOK(entries'),
           \A d \in ToSet(entries') : d \in Known(d.url),
           th' \in [Threads -> ThreadSet],
           \A s \in Threads : th'[s].pc \notin {"save_meta", "save_bin"},
           UNCHANGED <<meta, bin, lock, origin, now, faults>>,
           suspect \subseteq suspect', suspect' \subseteq Urls,
           last' \in [Urls -> {0} \cup Versions]
    PROVE  /\ Typed' /\ TableIsSound' /\ Disk'
           /\ \A u \in Urls : \A e \in Ram(u)' : e \in Known(u)
<1>1. \A u \in Urls : \A e \in Ram(u)' : e \in Known(u)
  BY DEF Ram
<1>2. \A e \in ToSet(entries)' : e.url \in Urls /\ e \in Known(e.url)
  <2>1. \A e \in ToSet(entries)' : e \in EntrySet
    BY DEF TableOK, ToSet
  <2>. QED
    BY <2>1 DEF EntrySet
<1>3. Typed'
  <2>1. TypeOK'
    <3>1. \A s \in Threads : th'[s].pc \in Pcs /\ th'[s].url \in Urls \cup {None}
      BY DEF ThreadSet
    <3>. QED
      BY <3>1 DEF CacheInv, Typed, TypeOK, TableOK
  <2>2. \A e \in ToSet(entries)' : e.body \in Bodies /\ e.ver \in DOMAIN BodyLen[e.url]
    BY <1>2, KnownFacts
  <2>. QED
    BY <2>1, <2>2 DEF CacheInv, Typed
<1>4. TableIsSound'
  BY DEF TableIsSound, TableOK
<1>5. Disk'
  <2>1. SUFFICES ASSUME NEW u \in Urls, Good(u)'
                 PROVE  /\ DiskWhole(u)'
                        /\ \A e \in Ram(u)' : DiskIs(u, e)' /\ ~Writing(u)'
    BY DEF Disk
  <2>2. Good(u)
    BY <2>1 DEF Good
  <2>3. ~Writing(u)'
    BY DEF Writing
  <2>4. DiskWhole(u)
    BY <2>2, KnownFacts DEF CacheInv, Disk
  <2>5. DiskWhole(u)'
    BY <2>4 DEF DiskWhole
  <2>6. ASSUME NEW e \in Ram(u)'
        PROVE  DiskIs(u, e)'
    <3>1. DiskIs(u, e)
      BY <1>1, <2>2, <2>6, KnownFacts
    <3>. QED
      BY <3>1 DEF DiskIs
  <2>. QED
    BY <2>3, <2>5, <2>6
<1>. QED
  BY <1>1, <1>3, <1>4, <1>5

\* What the invariant says about one thread.
LEMMA ThreadTypes ==
    ASSUME CacheInv, NEW t \in Threads
    PROVE  /\ th[t] \in ThreadSet /\ th[t].pc \in Pcs /\ th[t].get \in BOOLEAN
           /\ th[t].cond \in Nat /\ th[t].cond \in {0} \cup Versions
           /\ th[t].out \in Outs /\ th[t].out.body \in Bodies
           /\ th[t].out.status \in {0, 200, 304}
           /\ th[t].out.ver \in Nat /\ th[t].out.ver \in {0} \cup Versions
           /\ th[t].out.cc \in CacheControls
           /\ th[t].pc # "idle" => th[t].url \in Urls
<1>1. th[t] \in ThreadSet
  BY DEF CacheInv, Typed
<1>2. th[t].out \in Outs /\ th[t].cond \in {0} \cup Versions
  BY <1>1 DEF ThreadSet
<1>3. th[t].out.ver \in {0} \cup Versions
  BY <1>2 DEF Outs
<1>4. th[t].cond \in Nat /\ th[t].out.ver \in Nat
  <2>1. \A x \in {0} \cup Versions : x \in Nat
    BY VersionNat
  <2>. QED
    BY <1>2, <1>3, <2>1, Zenon
<1>5. th[t].out.body \in Bodies /\ th[t].out.status \in {0, 200, 304} /\ th[t].out.cc \in CacheControls
  BY <1>2 DEF Outs
<1>6. th[t].pc # "idle" => th[t].url \in Urls
  BY DEF CacheInv, Fetching
<1>7. th[t].pc \in Pcs /\ th[t].get \in BOOLEAN
  BY <1>1 DEF ThreadSet
<1>. QED
  BY <1>1, <1>2, <1>3, <1>4, <1>5, <1>6, <1>7

\* The body given to a GET is a version of the resource.
LEMMA GiveFacts ==
    ASSUME CacheInv, NEW u \in Urls, NEW get \in BOOLEAN, NEW b \in Bodies,
           Give(u, get, b)
    PROVE  /\ last' \in [Urls -> {0} \cup Versions]
           /\ \A w \in Urls : last'[w] = last[w] \/ (w = u /\ get /\ b.ver > 0 /\ last'[w] = b.ver)
<1>1. last \in [Urls -> {0} \cup Versions]
  BY DEF CacheInv, Typed, TypeOK
<1>2. b.ver \in {0} \cup Versions
  BY DEF Bodies
<1>3. CASE get /\ b.ver > 0
  <2>1. last' = [last EXCEPT ![u] = b.ver]
    BY <1>3 DEF Give
  <2>. QED
    BY <1>1, <1>2, <1>3, <2>1
<1>4. CASE ~(get /\ b.ver > 0)
  <2>1. last' = last
    BY <1>4 DEF Give
  <2>. QED
    BY <1>1, <2>1
<1>. QED
  BY <1>3, <1>4

\* The numbers the invariant compares.
LEMMA NumberTypes ==
    ASSUME CacheInv
    PROVE  /\ now \in Nat /\ faults \in Nat
           /\ \A u \in Urls : /\ origin[u].ver \in Nat /\ last[u] \in Nat
                              /\ origin[u].ver \in DOMAIN BodyLen[u]
                              /\ meta[u] # NoMeta =>
                                    /\ meta[u] \in MetaSet
                                    /\ meta[u].ver \in DOMAIN BodyLen[u]
                                    /\ meta[u].ver \in Nat
                                    /\ meta[u].until \in Nat /\ meta[u].len \in Nat
           /\ \A u \in Urls : \A e \in Known(u) \cup Ram(u) :
                lock = Free => e.ver \in Nat /\ e.until \in Nat
<1>1. Versions \subseteq Nat
  BY VersionFacts
<1>2. now \in Nat /\ faults \in Nat
  BY DEF CacheInv, Typed
<1>3. ASSUME NEW u \in Urls
      PROVE  /\ origin[u].ver \in Nat /\ last[u] \in Nat
             /\ origin[u].ver \in DOMAIN BodyLen[u]
  <2>1. origin[u].ver \in Versions /\ origin[u].ver \in DOMAIN BodyLen[u]
    BY DEF CacheInv, Typed
  <2>2. last[u] \in {0} \cup Versions
    BY DEF CacheInv, Typed, TypeOK
  <2>3. last[u] \in Nat
    BY <2>2, VersionNat, Zenon
  <2>. QED
    BY <1>1, <2>1, <2>3
<1>4. ASSUME NEW u \in Urls, meta[u] # NoMeta
      PROVE  /\ meta[u] \in MetaSet /\ meta[u].ver \in DOMAIN BodyLen[u]
             /\ meta[u].ver \in Nat /\ meta[u].until \in Nat /\ meta[u].len \in Nat
  <2>1. meta[u] \in MetaSet /\ meta[u].ver \in DOMAIN BodyLen[u]
    BY <1>4 DEF CacheInv, Typed, TypeOK
  <2>. QED
    BY <1>1, <2>1 DEF MetaSet
<1>5. ASSUME NEW u \in Urls, NEW e \in Known(u) \cup Ram(u), lock = Free
      PROVE  e.ver \in Nat /\ e.until \in Nat
  <2>1. e \in Known(u)
    BY DEF Known
  <2>2. e \in EntrySet
    BY <1>5, <2>1, KnownFacts
  <2>. QED
    BY <1>1, <2>2 DEF EntrySet
<1>. QED
  BY <1>2, <1>3, <1>4, <1>5

\* A look-up of a URL nothing went wrong with finds its entry if there is one,
\* and the files are its or none.
LEMMA FoundFacts ==
    ASSUME CacheInv, lock = Free, NEW u \in Urls, u \notin suspect
    PROVE  \/ FindIdx(u).found = <<>> /\ Known(u) = {} /\ meta[u] = NoMeta
           \/ \E e \in Known(u) :
                /\ FindIdx(u).found = <<e>>
                /\ \A d \in ToSet(FindIdx(u).table) : d.url = u => d = e
                /\ meta[u] = NoMeta \/ (meta[u].ver = e.ver /\ meta[u].until = e.until)
<1>1. /\ TableOK(FindIdx(u).table)
      /\ \/ FindIdx(u).found = <<>> /\ Known(u) = {}
         \/ \E e \in Known(u) : /\ e.url = u /\ FindIdx(u).found = <<e>>
                                /\ e \in ToSet(FindIdx(u).table)
  BY KnownFacts, FindFacts DEF CacheInv
<1>2. CASE FindIdx(u).found = <<>> /\ Known(u) = {}
  <2>1. SUFFICES ASSUME meta[u] # NoMeta PROVE FALSE
    BY <1>2
  <2>2. meta[u].len = 0 \/ bin[u] = Bytes(meta[u].ver, meta[u].len)
    BY <2>1, KnownFacts DEF CacheInv, Responses
  <2>3. bin[u] = Bytes(meta[u].ver, meta[u].len) => bin[u] # NoBin
    <3>1. meta[u].len \in Nat
      BY <2>1, NumberTypes DEF MetaSet
    <3>. QED
      BY <3>1 DEF NoBin, Bytes
  <2>4. LoadFromDisk(u) # <<>>
    BY <2>1, <2>2, <2>3, NumberTypes DEF LoadFromDisk
  <2>5. PICK e : LoadFromDisk(u) = <<e>>
    BY <2>4, LoadFacts DEF CacheInv
  <2>6. e \in Known(u)
    BY <2>5 DEF Known, ToSet
  <2>. QED
    BY <1>2, <2>6
<1>3. CASE FindIdx(u).found # <<>>
  <2>1. PICK e \in Known(u) : /\ e.url = u /\ FindIdx(u).found = <<e>>
                              /\ e \in ToSet(FindIdx(u).table)
    BY <1>1, <1>3
  <2>2. \A d \in ToSet(FindIdx(u).table) : d.url = u => d = e
    BY <1>1, <2>1, TableUnique
  <2>3. DiskIs(u, e)
    BY KnownFacts DEF Good
  <2>4. meta[u] = NoMeta \/ (meta[u].ver = e.ver /\ meta[u].until = e.until)
    BY <2>3 DEF DiskIs, MetaOf
  <2>. QED
    BY <2>1, <2>2, <2>4
<1>4. FindIdx(u).found = <<>> => Known(u) = {}
  BY <1>1
<1>. QED
  BY <1>2, <1>3, <1>4

\* mini_net_fetch up to its first unlock.
LEMMA FetchStep ==
    ASSUME CacheInv, NEW t \in Threads, NEW u \in Urls, NEW get \in BOOLEAN,
           Fetch(t, u, get)
    PROVE  CacheInv' /\ \A w \in Urls \ suspect' : last'[w] >= last[w]
<1>. DEFINE f == FindIdx(u)
            hit == f.found # <<>> /\ Fresh(f.found[1])
            stale == f.found # <<>> /\ ~hit
            r == [Idle EXCEPT !.pc = IF stale THEN "stale" ELSE "request",
                              !.url = u, !.get = get]
<1>1. /\ th[t].pc = "idle" /\ lock = Free /\ entries' = f.table
      /\ UNCHANGED <<meta, bin, lock, origin, now, faults>>
  BY DEF Fetch, disk
<1>2. /\ TableOK(f.table) /\ \A d \in ToSet(f.table) : d \in Known(d.url)
      /\ \/ f.found = <<>> /\ Known(u) = {}
         \/ \E e \in Known(u) : /\ e.url = u /\ e \in EntrySet /\ f.found = <<e>>
                                /\ e \in ToSet(f.table)
  BY <1>1, KnownFacts, FindFacts DEF CacheInv
<1>3. TableOK(entries') /\ \A d \in ToSet(entries') : d \in Known(d.url)
  BY <1>1, <1>2
<1>4. \A s \in Threads : th[s] \in ThreadSet /\ th[s].pc \notin {"save_meta", "save_bin"}
  BY <1>1, KnownFacts, ThreadTypes
<1>5. last \in [Urls -> {0} \cup Versions] /\ suspect \subseteq Urls
      /\ th \in [Threads -> ThreadSet]
  BY DEF CacheInv, Typed, TypeOK
<1>6. CASE hit /\ get
  <2>1. PICK e \in Known(u) : e.url = u /\ f.found = <<e>> /\ e \in ToSet(f.table)
    BY <1>2, <1>6
  <2>2. e.until > now /\ e.body \in Bodies
    BY <1>1, <1>6, <2>1, KnownFacts, NumberTypes DEF Fresh
  <2>3. Give(u, get, e.body) /\ UNCHANGED <<th, suspect>>
    <3>1. Give(u, get, f.found[1].body) /\ UNCHANGED <<th, suspect>>
      BY <1>6 DEF Fetch
    <3>2. f.found[1] = e
      BY <2>1
    <3>. QED
      BY <3>1, <3>2
  <2>4. /\ last' \in [Urls -> {0} \cup Versions]
        /\ \A w \in Urls : \/ last'[w] = last[w]
                           \/ w = u /\ e.body.ver > 0 /\ last'[w] = e.body.ver
    BY <2>2, <2>3, GiveFacts
  <2>5. /\ Typed' /\ TableIsSound' /\ Disk'
        /\ \A w \in Urls : \A d \in Ram(w)' : d \in Known(w)
    BY <1>1, <1>3, <1>4, <1>5, <2>3, <2>4, LookUp
  <2>6. ASSUME u \notin suspect
        PROVE  /\ \A s \in Threads : ~Gets(s, u)
               /\ e.body.ver > 0 => e.body.ver = e.ver
               /\ last[u] <= e.ver /\ e.ver <= origin[u].ver
               /\ \A d \in Ram(u)' : d = e
               /\ meta[u] = NoMeta \/ meta[u].ver = e.ver
    <3>1. \A s \in Threads : ~Gets(s, u)
      BY <1>1, <2>1, <2>2, <2>6, KnownFacts, NumberTypes
    <3>2. e.body.ver > 0 => e.body.ver = e.ver
      <4>1. e.body \in ArrivedBody(u, e.ver) /\ e.ver \in DOMAIN BodyLen[u]
        BY <1>1, <2>1, <2>6, KnownFacts
      <4>. QED
        BY <4>1, VersionFacts
    <3>3. last[u] <= e.ver /\ e.ver <= origin[u].ver
      BY <1>1, <2>1, <2>2, <2>6, KnownFacts, NumberTypes
    <3>4. \A d \in Ram(u)' : d = e
      BY <1>1, <1>2, <2>1, TableUnique DEF Ram
    <3>5. meta[u] = NoMeta \/ meta[u].ver = e.ver
      <4>1. DiskIs(u, e)
        BY <1>1, <2>1, <2>6, KnownFacts DEF Good
      <4>. QED
        BY <4>1 DEF DiskIs, MetaOf
    <3>. QED
      BY <3>1, <3>2, <3>3, <3>4, <3>5
  <2>7. \A s \in Threads, w \in Urls : Gets(s, w)' <=> Gets(s, w)
    BY <2>3 DEF Gets
  <2>8. Fetching'
    BY <1>4, <2>3 DEF CacheInv, Fetching
  <2>9. Responses'
    <3>1. SUFFICES ASSUME NEW w \in Urls \ suspect
                   PROVE  /\ \A d \in Ram(w)' : d.body \in ArrivedBody(w, d.ver)
                          /\ \/ meta[w] = NoMeta
                             \/ /\ Bytes(meta[w].ver, meta[w].len) \in ArrivedBody(w, meta[w].ver)
                                /\ meta[w].len = 0 \/ bin[w] = Bytes(meta[w].ver, meta[w].len)
                          /\ \A s \in Threads : Gets(s, w) =>
                               /\ th[s].pc \in {"received", "unlink_bin", "save_meta", "save_bin"}
                                     /\ th[s].out.status = 200
                                  => th[s].out.body \in ArrivedBody(w, th[s].out.ver)
                               /\ th[s].pc = "unlink_bin" => meta[w] = NoMeta
      BY <1>1, <2>3, <2>7 DEF Responses
    <3>2. \A d \in Ram(w)' : d.body \in ArrivedBody(w, d.ver)
      BY <1>1, <2>5, KnownFacts
    <3>. QED
      BY <1>1, <3>2, KnownFacts DEF CacheInv, Responses
  <2>10. OneGet'
    <3>1. SUFFICES ASSUME NEW w \in Urls \ suspect, NEW s \in Threads, Gets(s, w)
                   PROVE  /\ \A p \in Threads : Gets(p, w) => p = s
                          /\ th[s].pc \in {"request", "answered"} /\ th[s].cond > 0 =>
                                /\ \A d \in Ram(w)' : d.ver = th[s].cond
                                /\ meta[w] = NoMeta \/ meta[w].ver = th[s].cond
                          /\ \A d \in Ram(w)' : d.until <= now
                          /\ meta[w] = NoMeta \/ meta[w].until <= now
      BY <1>1, <2>3, <2>7 DEF OneGet
    <3>2. \A d \in Ram(w)' :
             /\ d.until <= now
             /\ th[s].pc \in {"request", "answered"} /\ th[s].cond > 0 => d.ver = th[s].cond
      BY <1>1, <2>5, <3>1, KnownFacts
    <3>. QED
      BY <1>4, <3>1, <3>2 DEF CacheInv, OneGet
  <2>11. Current'
    <3>1. SUFFICES ASSUME NEW w \in Urls \ suspect
                   PROVE  /\ last'[w] <= origin[w].ver
                          /\ \A d \in Ram(w)' : /\ d.ver <= origin[w].ver
                                                /\ last'[w] <= d.ver \/ d.until <= now
                          /\ meta[w] = NoMeta \/ (meta[w].ver <= origin[w].ver
                                 /\ (last'[w] <= meta[w].ver \/ meta[w].until <= now))
                          /\ \A s \in Threads :
                               Gets(s, w) /\ th[s].pc \in {"answered", "received", "unlink_bin", "save_meta", "save_bin"}
                               => last'[w] <= th[s].out.ver /\ th[s].out.ver <= origin[w].ver
      BY <1>1, <2>3, <2>7 DEF Current
    <3>2. \A d \in Ram(w)' : /\ d.ver <= origin[w].ver
                             /\ last[w] <= d.ver \/ d.until <= now
      BY <1>1, <2>5, KnownFacts
    <3>3. CASE last'[w] = last[w]
      BY <3>2, <3>3 DEF CacheInv, Current
    <3>4. CASE w = u /\ e.body.ver > 0 /\ last'[w] = e.ver
      <4>1. last'[w] <= origin[w].ver /\ \A s \in Threads : ~Gets(s, w)
        BY <2>6, <3>4
      <4>2. \A d \in Ram(w)' : d.ver <= origin[w].ver /\ last'[w] <= d.ver
        BY <1>1, <2>1, <2>6, <3>4, NumberTypes
      <4>3. meta[w] = NoMeta \/ (meta[w].ver <= origin[w].ver /\ last'[w] <= meta[w].ver)
        BY <1>1, <2>1, <2>6, <3>4, NumberTypes
      <4>. QED
        BY <4>1, <4>2, <4>3
    <3>. QED
      BY <2>4, <2>6, <3>3, <3>4
  <2>12. \A w \in Urls \ suspect' : last'[w] >= last[w]
    BY <1>1, <2>1, <2>3, <2>4, <2>6, NumberTypes
  <2>. QED
    BY <2>5, <2>8, <2>9, <2>10, <2>11, <2>12 DEF CacheInv
<1>7. CASE ~(hit /\ get)
  <2>1. /\ th' = [th EXCEPT ![t] = r] /\ last' = last
        /\ suspect' = IF get /\ InFlight(u, t) THEN suspect \cup {u} ELSE suspect
    BY <1>7 DEF Fetch
  <2>2. /\ r.pc \in {"stale", "request"} /\ r.url = u /\ r.get = get /\ r.cond = 0
        /\ r.out = Nothing /\ r \in ThreadSet
    <3>. DEFINE p == IF stale THEN "stale" ELSE "request"
    <3>1. p \in {"stale", "request"}
      OBVIOUS
    <3>2. r = [Idle EXCEPT !.pc = p, !.url = u, !.get = get]
      OBVIOUS
    <3>. HIDE DEF p, r
    <3>3. r = [pc |-> p, url |-> u, get |-> get, cond |-> 0, out |-> Nothing]
      <4>1. DOMAIN r = {"pc", "url", "get", "cond", "out"}
        BY <3>2 DEF Idle
      <4>2. /\ r.pc = p /\ r.url = u /\ r.cond = 0 /\ r.out = Nothing
        BY <3>2 DEF Idle
      <4>3. r.get = get
        BY <3>2, Zenon DEF Idle
      <4>. QED
        BY <3>2, <4>1, <4>2, <4>3 DEF Idle
    <3>. QED
      BY <3>1, <3>3, VersionFacts DEF ThreadSet, Pcs
  <2>. HIDE DEF r
  <2>3. \A s \in Threads : th'[s] = IF s = t THEN r ELSE th[s]
    BY <1>5, <2>1
  <2>4. /\ Typed' /\ TableIsSound' /\ Disk'
        /\ \A w \in Urls : \A d \in Ram(w)' : d \in Known(w)
    <3>1. th' \in [Threads -> ThreadSet]
      BY <1>5, <2>1, <2>2
    <3>2. \A s \in Threads : th'[s].pc \notin {"save_meta", "save_bin"}
      BY <1>4, <2>2, <2>3
    <3>3. suspect \subseteq suspect' /\ suspect' \subseteq Urls
      BY <1>5, <2>1
    <3>. QED
      BY <1>1, <1>3, <1>5, <2>1, <3>1, <3>2, <3>3, LookUp
  <2>5. ASSUME u \notin suspect, get
        PROVE  /\ \A d \in Ram(u)' : d.until <= now
               /\ meta[u] = NoMeta \/ meta[u].until <= now
    <3>1. CASE f.found = <<>>
      BY <1>1, <2>4, <2>5, <3>1, FoundFacts
    <3>2. CASE f.found # <<>>
      <4>1. PICK e \in Known(u) :
               /\ f.found = <<e>> /\ \A d \in ToSet(f.table) : d.url = u => d = e
               /\ meta[u] = NoMeta \/ meta[u].until = e.until
        BY <1>1, <2>5, <3>2, FoundFacts
      <4>2. e.until <= now
        BY <1>1, <1>7, <2>5, <4>1, NumberTypes DEF Fresh
      <4>3. \A d \in Ram(u)' : d = e
        BY <1>1, <4>1 DEF Ram
      <4>. QED
        BY <4>1, <4>2, <4>3
    <3>. QED
      BY <3>1, <3>2
  <2>6. \A s \in Threads, w \in Urls :
           Gets(s, w)' <=> IF s = t THEN w = u /\ get ELSE Gets(s, w)
    BY <2>2, <2>3 DEF Gets
  <2>7. Fetching'
    <3>1. Nothing.body = NoBytes
      BY DEF Nothing
    <3>. QED
      BY <1>4, <2>2, <2>3, <3>1 DEF CacheInv, Fetching
  <2>8. \A w \in Urls \ suspect' : w \in Urls \ suspect
    BY <2>1
  <2>9. Responses'
    <3>1. SUFFICES ASSUME NEW w \in Urls \ suspect
                   PROVE  /\ \A d \in Ram(w)' : d.body \in ArrivedBody(w, d.ver)
                          /\ \/ meta[w] = NoMeta
                             \/ /\ Bytes(meta[w].ver, meta[w].len) \in ArrivedBody(w, meta[w].ver)
                                /\ meta[w].len = 0 \/ bin[w] = Bytes(meta[w].ver, meta[w].len)
                          /\ \A s \in Threads : s # t /\ Gets(s, w) =>
                               /\ th[s].pc \in {"received", "unlink_bin", "save_meta", "save_bin"}
                                     /\ th[s].out.status = 200
                                  => th[s].out.body \in ArrivedBody(w, th[s].out.ver)
                               /\ th[s].pc = "unlink_bin" => meta[w] = NoMeta
      BY <1>1, <2>2, <2>3, <2>6, <2>8 DEF Responses
    <3>2. \A d \in Ram(w)' : d.body \in ArrivedBody(w, d.ver)
      BY <1>1, <2>4, KnownFacts
    <3>. QED
      BY <1>1, <3>2, KnownFacts DEF CacheInv, Responses
  <2>10. OneGet'
    <3>1. SUFFICES ASSUME NEW w \in Urls \ suspect', NEW s \in Threads, Gets(s, w)'
                   PROVE  /\ \A p \in Threads : Gets(p, w)' => p = s
                          /\ th'[s].pc \in {"request", "answered"} /\ th'[s].cond > 0 =>
                                /\ \A d \in Ram(w)' : d.ver = th'[s].cond
                                /\ meta[w] = NoMeta \/ meta[w].ver = th'[s].cond
                          /\ \A d \in Ram(w)' : d.until <= now
                          /\ meta[w] = NoMeta \/ meta[w].until <= now
      BY <1>1 DEF OneGet
    <3>2. ASSUME w = u, get
          PROVE  \A p \in Threads \ {t} : ~Gets(p, u)
      BY <2>1, <3>1, <3>2 DEF InFlight, Gets
    <3>3. CASE s = t
      <4>1. w = u /\ get /\ th'[s].cond = 0 /\ u \notin suspect
        BY <2>2, <2>3, <2>6, <2>8, <3>1, <3>3
      <4>2. \A p \in Threads : Gets(p, w)' => p = s
        BY <2>6, <3>2, <3>3, <4>1
      <4>. QED
        BY <2>5, <4>1, <4>2
    <3>4. CASE s # t
      <4>1. Gets(s, w) /\ th'[s] = th[s] /\ w \notin suspect
        BY <2>3, <2>6, <2>8, <3>1, <3>4
      <4>2. ~(w = u /\ get)
        BY <3>2, <3>4, <4>1
      <4>3. \A p \in Threads : Gets(p, w)' => p = s
        BY <2>6, <4>1, <4>2 DEF CacheInv, OneGet
      <4>4. \A d \in Ram(w)' :
               /\ d.until <= now
               /\ th[s].pc \in {"request", "answered"} /\ th[s].cond > 0 => d.ver = th[s].cond
        BY <1>1, <2>4, <4>1, KnownFacts
      <4>. QED
        BY <1>4, <4>1, <4>3, <4>4 DEF CacheInv, OneGet
    <3>. QED
      BY <3>3, <3>4
  <2>11. Current'
    <3>1. SUFFICES ASSUME NEW w \in Urls \ suspect
                   PROVE  /\ last[w] <= origin[w].ver
                          /\ \A d \in Ram(w)' : /\ d.ver <= origin[w].ver
                                                /\ last[w] <= d.ver \/ d.until <= now
                          /\ meta[w] = NoMeta \/ (meta[w].ver <= origin[w].ver
                                 /\ (last[w] <= meta[w].ver \/ meta[w].until <= now))
                          /\ \A s \in Threads :
                               s # t /\ Gets(s, w) /\ th[s].pc \in {"answered", "received", "unlink_bin", "save_meta", "save_bin"}
                               => last[w] <= th[s].out.ver /\ th[s].out.ver <= origin[w].ver
      BY <1>1, <2>1, <2>2, <2>3, <2>6, <2>8 DEF Current
    <3>2. \A d \in Ram(w)' : /\ d.ver <= origin[w].ver
                             /\ last[w] <= d.ver \/ d.until <= now
      BY <1>1, <2>4, KnownFacts
    <3>. QED
      BY <3>2 DEF CacheInv, Current
  <2>12. \A w \in Urls \ suspect' : last'[w] >= last[w]
    BY <2>1, NumberTypes
  <2>. QED
    BY <2>4, <2>7, <2>9, <2>10, <2>11, <2>12 DEF CacheInv
<1>. QED
  BY <1>6, <1>7

\* A look-up by a fetch that goes on with the same URL.
LEMMA LookUpStep ==
    ASSUME CacheInv, lock = Free, TableOK(entries'),
           \A d \in ToSet(entries') : d \in Known(d.url),
           UNCHANGED <<meta, bin, lock, origin, now, faults, suspect, last>>,
           NEW t \in Threads, th[t].pc # "idle",
           th' \in [Threads -> ThreadSet], \A s \in Threads \ {t} : th'[s] = th[s],
           th'[t].pc \in {"request", "received"},
           th'[t].url = th[t].url, th'[t].get = th[t].get,
           th'[t].pc = "received" => th[t].pc = "answered" /\ th'[t].out.ver = th[t].out.ver,
           th'[t].out.status # 200 => th'[t].out.body = NoBytes,
           th[t].get /\ th[t].url \notin suspect =>
              /\ th'[t].pc = "received" /\ th'[t].out.status = 200
                    => th'[t].out.body \in ArrivedBody(th[t].url, th'[t].out.ver)
              /\ th'[t].pc = "request" /\ th'[t].cond > 0 =>
                    /\ \A e \in ToSet(entries') : e.url = th[t].url => e.ver = th'[t].cond
                    /\ meta[th[t].url] = NoMeta \/ meta[th[t].url].ver = th'[t].cond
    PROVE  CacheInv'
<1>. DEFINE u == th[t].url
<1>0. u \in Urls /\ th[t].get \in BOOLEAN
  BY ThreadTypes
<1>1. \A s \in Threads : th[s].pc \notin {"save_meta", "save_bin"}
  BY KnownFacts
<1>2. \A s \in Threads : th'[s].pc \notin {"save_meta", "save_bin"}
  BY <1>1
<1>3. /\ Typed' /\ TableIsSound' /\ Disk'
      /\ \A w \in Urls : \A d \in Ram(w)' : d \in Known(w)
  <2>1. /\ suspect \subseteq suspect' /\ suspect' \subseteq Urls
        /\ last' \in [Urls -> {0} \cup Versions]
    BY DEF CacheInv, Typed, TypeOK
  <2>. QED
    BY <1>2, <2>1, LookUp
<1>4. \A s \in Threads, w \in Urls : Gets(s, w)' <=> Gets(s, w)
  <2>1. ASSUME NEW w \in Urls PROVE Gets(t, w)' <=> Gets(t, w)
    BY DEF Gets
  <2>. QED
    BY <2>1 DEF Gets
<1>5. Fetching'
  <2>1. ASSUME NEW s \in Threads, s # t
        PROVE  /\ th'[s].pc # "idle" => th'[s].url \in Urls
               /\ th'[s].pc = "answered" => /\ th'[s].cond = th'[s].out.ver
                                            /\ th'[s].out.status = 304
               /\ th'[s].out.status # 200 => th'[s].out.body = NoBytes
               /\ th'[s].pc \in {"answered", "received", "unlink_bin"}
                     => th'[s].out.ver \in DOMAIN BodyLen[th'[s].url]
               /\ th'[s].pc = "unlink_bin" => th'[s].get /\ th'[s].out.status = 200
    BY <2>1 DEF CacheInv, Fetching
  <2>2. th'[t].pc = "received" => th'[t].out.ver \in DOMAIN BodyLen[th'[t].url]
    BY DEF CacheInv, Fetching
  <2>. QED
    BY <1>0, <1>2, <2>1, <2>2 DEF Fetching
<1>6. Responses'
  <2>1. SUFFICES ASSUME NEW w \in Urls \ suspect
                 PROVE  /\ \A d \in Ram(w)' : d.body \in ArrivedBody(w, d.ver)
                        /\ \/ meta[w] = NoMeta
                           \/ /\ Bytes(meta[w].ver, meta[w].len) \in ArrivedBody(w, meta[w].ver)
                              /\ meta[w].len = 0 \/ bin[w] = Bytes(meta[w].ver, meta[w].len)
                        /\ \A s \in Threads : Gets(s, w) =>
                             /\ th'[s].pc \in {"received", "unlink_bin", "save_meta", "save_bin"}
                                   /\ th'[s].out.status = 200
                                => th'[s].out.body \in ArrivedBody(w, th'[s].out.ver)
                             /\ th'[s].pc = "unlink_bin" => meta[w] = NoMeta
    BY <1>4 DEF Responses
  <2>2. \A d \in Ram(w)' : d.body \in ArrivedBody(w, d.ver)
    BY <1>3, KnownFacts
  <2>3. ASSUME NEW s \in Threads, Gets(s, w)
        PROVE  /\ th'[s].pc \in {"received", "unlink_bin", "save_meta", "save_bin"}
                     /\ th'[s].out.status = 200
                  => th'[s].out.body \in ArrivedBody(w, th'[s].out.ver)
               /\ th'[s].pc = "unlink_bin" => meta[w] = NoMeta
    <3>1. CASE s = t
      BY <2>3, <3>1 DEF Gets
    <3>2. CASE s # t
      BY <2>3, <3>2 DEF CacheInv, Responses
    <3>. QED
      BY <3>1, <3>2
  <2>. QED
    BY <2>2, <2>3, KnownFacts DEF CacheInv, Responses
<1>7. OneGet'
  <2>1. SUFFICES ASSUME NEW w \in Urls \ suspect, NEW s \in Threads, Gets(s, w)
                 PROVE  /\ \A p \in Threads : Gets(p, w) => p = s
                        /\ th'[s].pc \in {"request", "answered"} /\ th'[s].cond > 0 =>
                              /\ \A d \in Ram(w)' : d.ver = th'[s].cond
                              /\ meta[w] = NoMeta \/ meta[w].ver = th'[s].cond
                        /\ \A d \in Ram(w)' : d.until <= now
                        /\ meta[w] = NoMeta \/ meta[w].until <= now
    BY <1>4 DEF OneGet
  <2>2. \A d \in Ram(w)' :
           /\ d.until <= now
           /\ th[s].pc \in {"request", "answered"} /\ th[s].cond > 0 => d.ver = th[s].cond
    BY <1>3, <2>1, KnownFacts
  <2>3. /\ \A p \in Threads : Gets(p, w) => p = s
        /\ th[s].pc \in {"request", "answered"} /\ th[s].cond > 0 =>
              meta[w] = NoMeta \/ meta[w].ver = th[s].cond
        /\ meta[w] = NoMeta \/ meta[w].until <= now
    BY <1>1, <2>1 DEF CacheInv, OneGet
  <2>4. CASE s = t
    <3>1. w = u /\ th[t].get /\ th'[t].pc # "answered"
      BY <2>1, <2>4 DEF Gets
    <3>2. \A d \in Ram(w)' : d \in ToSet(entries') /\ d.url = u
      BY <3>1 DEF Ram
    <3>. QED
      BY <2>2, <2>3, <2>4, <3>1, <3>2
  <2>5. CASE s # t
    BY <2>2, <2>3, <2>5
  <2>. QED
    BY <2>4, <2>5
<1>8. Current'
  <2>1. SUFFICES ASSUME NEW w \in Urls \ suspect
                 PROVE  /\ last[w] <= origin[w].ver
                        /\ \A d \in Ram(w)' : /\ d.ver <= origin[w].ver
                                              /\ last[w] <= d.ver \/ d.until <= now
                        /\ meta[w] = NoMeta \/ (meta[w].ver <= origin[w].ver
                               /\ (last[w] <= meta[w].ver \/ meta[w].until <= now))
                        /\ \A s \in Threads :
                             Gets(s, w) /\ th'[s].pc \in {"answered", "received", "unlink_bin", "save_meta", "save_bin"}
                             => last[w] <= th'[s].out.ver /\ th'[s].out.ver <= origin[w].ver
    BY <1>4 DEF Current
  <2>2. \A d \in Ram(w)' : /\ d.ver <= origin[w].ver
                           /\ last[w] <= d.ver \/ d.until <= now
    BY <1>3, KnownFacts
  <2>3. ASSUME NEW s \in Threads, Gets(s, w),
               th'[s].pc \in {"answered", "received", "unlink_bin", "save_meta", "save_bin"}
        PROVE  last[w] <= th'[s].out.ver /\ th'[s].out.ver <= origin[w].ver
    <3>1. /\ th[s].pc \in {"answered", "received", "unlink_bin", "save_meta", "save_bin"}
          /\ th'[s].out.ver = th[s].out.ver
      BY <2>3
    <3>. QED
      BY <2>3, <3>1 DEF CacheInv, Current
  <2>. QED
    BY <2>2, <2>3 DEF CacheInv, Current
<1>. QED
  BY <1>3, <1>5, <1>6, <1>7, <1>8 DEF CacheInv

\* mini_httpcache_conditional_headers.
LEMMA ConditionalStep ==
    ASSUME CacheInv, NEW t \in Threads, ConditionalHeaders(t)
    PROVE  CacheInv'
<1>. DEFINE u == th[t].url
            f == FindIdx(u)
            c == IF f.found # <<>> /\ f.found[1].tagged THEN f.found[1].ver ELSE 0
<1>1. /\ th[t].pc = "stale" /\ lock = Free /\ entries' = f.table
      /\ th' = [th EXCEPT ![t].pc = "request", ![t].cond = c]
      /\ UNCHANGED <<meta, bin, lock, origin, now, faults, suspect, last>>
  BY DEF ConditionalHeaders, disk, env
<1>2. u \in Urls
  BY <1>1, ThreadTypes
<1>3. /\ TableOK(f.table) /\ \A d \in ToSet(f.table) : d \in Known(d.url)
      /\ \/ f.found = <<>> /\ Known(u) = {}
         \/ \E e \in Known(u) : /\ e.url = u /\ e \in EntrySet /\ f.found = <<e>>
                                /\ e \in ToSet(f.table)
  BY <1>1, <1>2, KnownFacts, FindFacts DEF CacheInv
<1>4. c \in {0} \cup Versions
  <2>1. f.found # <<>> => f.found[1] \in EntrySet
    BY <1>3
  <2>. QED
    BY <2>1 DEF EntrySet
<1>5. /\ th' \in [Threads -> ThreadSet] /\ \A s \in Threads \ {t} : th'[s] = th[s]
      /\ th'[t].pc = "request" /\ th'[t].url = u /\ th'[t].cond = c
      /\ th'[t].get = th[t].get /\ th'[t].out = th[t].out
  <2>1. th \in [Threads -> ThreadSet] /\ th[t] \in ThreadSet
    BY DEF CacheInv, Typed
  <2>. HIDE DEF c
  <2>2. th'[t] = [th[t] EXCEPT !.pc = "request", !.cond = c]
    BY <1>1, <2>1
  <2>3. /\ th'[t] \in ThreadSet /\ th'[t].pc = "request" /\ th'[t].url = u
        /\ th'[t].cond = c /\ th'[t].get = th[t].get /\ th'[t].out = th[t].out
    BY <1>4, <2>1, <2>2 DEF ThreadSet, Pcs
  <2>. QED
    BY <1>1, <2>1, <2>2, <2>3
<1>6. ASSUME u \notin suspect, c > 0
      PROVE  /\ \A e \in ToSet(entries') : e.url = u => e.ver = c
             /\ meta[u] = NoMeta \/ meta[u].ver = c
  <2>1. f.found # <<>> /\ c = f.found[1].ver
    BY <1>6
  <2>2. PICK e \in Known(u) :
           /\ f.found = <<e>> /\ \A d \in ToSet(f.table) : d.url = u => d = e
           /\ meta[u] = NoMeta \/ meta[u].ver = e.ver
    BY <1>1, <1>2, <1>6, <2>1, FoundFacts
  <2>. QED
    BY <1>1, <2>1, <2>2
<1>. HIDE DEF f, c
<1>7. TableOK(entries') /\ \A d \in ToSet(entries') : d \in Known(d.url)
  BY <1>1, <1>3
<1>8. th'[t].out.status # 200 => th'[t].out.body = NoBytes
  BY <1>5 DEF CacheInv, Fetching
<1>. QED
  BY <1>1, <1>5, <1>6, <1>7, <1>8, LookUpStep

\* The 304 branch.
LEMMA NotModifiedStep ==
    ASSUME CacheInv, NEW t \in Threads, NotModified(t)
    PROVE  CacheInv'
<1>. DEFINE u == th[t].url
            f == FindIdx(u)
            o == IF f.found = <<>> THEN th[t].out
                 ELSE [th[t].out EXCEPT !.body = f.found[1].body, !.status = 200]
<1>1. /\ th[t].pc = "answered" /\ lock = Free /\ entries' = f.table
      /\ th' = [th EXCEPT ![t].pc = "received", ![t].out = o]
      /\ UNCHANGED <<meta, bin, lock, origin, now, faults, suspect, last>>
  BY DEF NotModified, disk, env
<1>2. u \in Urls /\ th[t].out \in Outs /\ th[t].cond = th[t].out.ver
      /\ th[t].out.status = 304 /\ th[t].out.ver \in DOMAIN BodyLen[u]
  BY <1>1, ThreadTypes DEF CacheInv, Fetching
<1>3. /\ TableOK(f.table) /\ \A d \in ToSet(f.table) : d \in Known(d.url)
      /\ \/ f.found = <<>> /\ Known(u) = {}
         \/ \E e \in Known(u) : /\ e.url = u /\ e \in EntrySet /\ f.found = <<e>>
                                /\ e \in ToSet(f.table)
  BY <1>1, <1>2, KnownFacts, FindFacts DEF CacheInv
<1>4. /\ o \in Outs /\ o.ver = th[t].out.ver
      /\ f.found = <<>> => o.status = 304 /\ o.body = NoBytes
      /\ f.found # <<>> => o.status = 200 /\ o.body = f.found[1].body
  <2>1. CASE f.found = <<>>
    BY <1>2, <2>1 DEF CacheInv, Fetching
  <2>2. CASE f.found # <<>>
    <3>. DEFINE b == f.found[1].body
    <3>1. b \in Bodies
      <4>1. f.found[1] \in Known(u)
        BY <1>3, <2>2
      <4>. QED
        BY <1>1, <1>2, <4>1, KnownFacts
    <3>2. o = [th[t].out EXCEPT !.body = b, !.status = 200]
      BY <2>2
    <3>. HIDE DEF b, o
    <3>3. o \in Outs /\ o.ver = th[t].out.ver /\ o.body = b /\ o.status = 200
      <4>. DEFINE r == th[t].out
      <4>1. r \in Outs /\ o = [r EXCEPT !.body = b, !.status = 200]
        BY <1>2, <3>2
      <4>. HIDE DEF r
      <4>2. /\ r.ver \in {0} \cup Versions /\ r.tagged \in BOOLEAN /\ r.cc \in CacheControls
            /\ r = [status |-> r.status, body |-> r.body, ver |-> r.ver,
                     tagged |-> r.tagged, cc |-> r.cc]
        BY <4>1 DEF Outs
      <4>3. o = [status |-> 200, body |-> b, ver |-> r.ver, tagged |-> r.tagged, cc |-> r.cc]
        BY <4>1, <4>2
      <4>4. o.ver = r.ver /\ o.body = b /\ o.status = 200
        BY <4>3
      <4>5. o \in Outs
        BY <3>1, <4>2, <4>3 DEF Outs
      <4>. QED
        BY <4>4, <4>5 DEF r
    <3>. QED
      BY <2>2, <3>3 DEF b
  <2>. QED
    BY <2>1, <2>2
<1>5. ASSUME u \notin suspect, th[t].get, f.found # <<>>
      PROVE  o.body \in ArrivedBody(u, o.ver)
  <2>1. PICK e \in Known(u) : f.found = <<e>>
    BY <1>3, <1>5
  <2>2. Gets(t, u) /\ th[t].cond > 0
    BY <1>1, <1>2, <1>5, VersionFacts DEF Gets
  <2>3. e.ver = th[t].cond /\ e.body \in ArrivedBody(u, e.ver)
    BY <1>1, <1>2, <1>5, <2>2, KnownFacts
  <2>4. o.body = e.body
    BY <1>4, <1>5, <2>1
  <2>. QED
    BY <1>2, <1>4, <2>3, <2>4
<1>. HIDE DEF f, o
<1>6. /\ th' \in [Threads -> ThreadSet] /\ \A s \in Threads \ {t} : th'[s] = th[s]
      /\ th'[t].pc = "received" /\ th'[t].url = u /\ th'[t].out = o
      /\ th'[t].get = th[t].get
  <2>1. th \in [Threads -> ThreadSet] /\ th[t] \in ThreadSet
    BY DEF CacheInv, Typed
  <2>2. th'[t] = [th[t] EXCEPT !.pc = "received", !.out = o]
    BY <1>1, <2>1
  <2>3. /\ th'[t] \in ThreadSet /\ th'[t].pc = "received" /\ th'[t].url = u
        /\ th'[t].out = o /\ th'[t].get = th[t].get
    <3>1. o \in Outs
      BY <1>4
    <3>. QED
      BY <2>1, <2>2, <3>1 DEF ThreadSet, Pcs
  <2>. QED
    BY <1>1, <2>1, <2>2, <2>3
<1>7. TableOK(entries') /\ \A d \in ToSet(entries') : d \in Known(d.url)
  BY <1>1, <1>3
<1>8. th[t].get /\ u \notin suspect /\ th'[t].out.status = 200
         => th'[t].out.body \in ArrivedBody(u, th'[t].out.ver)
  BY <1>4, <1>5, <1>6
<1>. QED
  BY <1>1, <1>4, <1>6, <1>7, <1>8, LookUpStep

\* session.clearCache: an empty table.
LEMMA ClearStep ==
    ASSUME CacheInv, Clear
    PROVE  CacheInv'
<1>1. /\ lock = Free /\ entries' = <<>>
      /\ UNCHANGED <<meta, bin, lock, th, origin, now, faults, suspect, last>>
  BY DEF Clear, disk, env
<1>2. TableOK(entries') /\ ToSet(entries') = {}
  BY <1>1, EmptyFacts, HttpCacheAssumption DEF TableOK
<1>3. /\ th' \in [Threads -> ThreadSet] /\ suspect \subseteq suspect' /\ suspect' \subseteq Urls
      /\ last' \in [Urls -> {0} \cup Versions]
  BY <1>1 DEF CacheInv, Typed, TypeOK
<1>4. \A s \in Threads : th'[s].pc \notin {"save_meta", "save_bin"}
  BY <1>1, KnownFacts
<1>5. Typed' /\ TableIsSound' /\ Disk'
  BY <1>1, <1>2, <1>3, <1>4, LookUp
<1>6. \A u \in Urls : Ram(u)' = {} /\ (Writing(u)' <=> Writing(u))
  BY <1>1, <1>2 DEF Ram, Writing
<1>7. \A s \in Threads, u \in Urls : Gets(s, u)' <=> Gets(s, u)
  BY <1>1 DEF Gets
<1>8. Fetching'
  BY <1>1, <1>4 DEF CacheInv, Fetching
<1>9. Responses'
  BY <1>1, <1>6, <1>7 DEF CacheInv, Responses
<1>10. OneGet'
  BY <1>1, <1>6, <1>7 DEF CacheInv, OneGet
<1>11. Current'
  BY <1>1, <1>6, <1>7 DEF CacheInv, Current
<1>. QED
  BY <1>5, <1>8, <1>9, <1>10, <1>11 DEF CacheInv

\* A fetch that returns without holding the lock.  The body it gives is that of
\* its response, and the entry there is now is stale.
LEMMA Return ==
    ASSUME CacheInv, UNCHANGED <<entries, meta, lock, origin, now, faults, suspect>>,
           NEW t \in Threads, th[t].pc \in {"request", "received", "unlink_bin"},
           th' = [th EXCEPT ![t] = Idle],
           \/ bin' = bin
           \/ th[t].pc = "unlink_bin" /\ bin' = [bin EXCEPT ![th[t].url] = NoBin],
           last' \in [Urls -> {0} \cup Versions],
           \A w \in Urls \ suspect :
              \/ last'[w] = last[w]
              \/ /\ w = th[t].url /\ th[t].get /\ th[t].pc # "request"
                 /\ last'[w] = th[t].out.ver
    PROVE  CacheInv' /\ \A w \in Urls \ suspect' : last'[w] >= last[w]
<1>. DEFINE u == th[t].url
<1>0. u \in Urls /\ th[t].get \in BOOLEAN
  BY ThreadTypes
<1>1. /\ th \in [Threads -> ThreadSet] /\ bin \in [Urls -> {NoBin} \cup Bodies]
  BY DEF CacheInv, Typed
<1>2. /\ \A s \in Threads : th'[s] = IF s = t THEN Idle ELSE th[s]
      /\ Idle \in ThreadSet /\ Idle.pc = "idle"
      /\ Idle.out.body = NoBytes
  <2>1. Idle \in ThreadSet /\ Idle.pc = "idle" /\ Idle.out.body = NoBytes
    BY VersionFacts DEF Idle, ThreadSet, Pcs, Nothing
  <2>. QED
    BY <1>1, <2>1
<1>3. \A w \in Urls : bin'[w] = bin[w] \/ (w = u /\ th[t].pc = "unlink_bin" /\ bin'[w] = NoBin)
  BY <1>0, <1>1
<1>4. /\ \A w \in Urls : Ram(w)' = Ram(w) /\ (Saving(w)' <=> Saving(w))
                         /\ (Writing(w)' <=> Writing(w))
      /\ \A s \in Threads, w \in Urls : Gets(s, w)' <=> s # t /\ Gets(s, w)
  <2>1. \A w \in Urls : Ram(w)' = Ram(w)
    BY DEF Ram
  <2>2. \A w \in Urls : (Saving(w)' <=> Saving(w)) /\ (Writing(w)' <=> Writing(w))
    BY <1>2 DEF Saving, Writing
  <2>3. \A s \in Threads, w \in Urls : Gets(s, w)' <=> s # t /\ Gets(s, w)
    BY <1>2 DEF Gets
  <2>. QED
    BY <2>1, <2>2, <2>3
<1>5. Typed'
  <2>1. th' \in [Threads -> ThreadSet]
    BY <1>1, <1>2
  <2>2. bin' \in [Urls -> {NoBin} \cup Bodies]
    BY <1>0, <1>1
  <2>3. TypeOK'
    <3>1. bin' \in [Urls -> {NoBin} \cup [ver : Nat, len : Nat]]
      <4>1. bin \in [Urls -> {NoBin} \cup [ver : Nat, len : Nat]]
        BY DEF CacheInv, Typed, TypeOK
      <4>. QED
        BY <1>0, <4>1
    <3>2. \A s \in Threads : th'[s].pc \in Pcs /\ th'[s].url \in Urls \cup {None}
      BY <2>1 DEF ThreadSet
    <3>. QED
      BY <3>1, <3>2 DEF CacheInv, Typed, TypeOK
  <2>. QED
    BY <2>1, <2>2, <2>3 DEF CacheInv, Typed
<1>6. TableIsSound'
  BY <1>2 DEF CacheInv, TableIsSound, InRam
<1>7. Fetching'
  BY <1>2 DEF CacheInv, Fetching
<1>8. Disk'
  <2>1. SUFFICES ASSUME NEW w \in Urls, Good(w)
                 PROVE  /\ ~Writing(w) => DiskWhole(w)'
                        /\ \A e \in Ram(w) : /\ ~Saving(w) => DiskIs(w, e)'
                                             /\ Writing(w) => meta[w] \in {NoMeta, MetaOf(e)}
    BY <1>4 DEF Disk, Good
  <2>2. /\ ~Writing(w) => DiskWhole(w)
        /\ \A e \in Ram(w) : /\ ~Saving(w) => DiskIs(w, e)
                             /\ Writing(w) => meta[w] \in {NoMeta, MetaOf(e)}
    BY <2>1 DEF CacheInv, Disk
  <2>3. DiskWhole(w) => DiskWhole(w)'
    BY <1>3 DEF DiskWhole
  <2>4. \A e : DiskIs(w, e) => DiskIs(w, e)'
    BY <1>3 DEF DiskIs
  <2>. QED
    BY <2>2, <2>3, <2>4
<1>9. Responses'
  <2>1. SUFFICES ASSUME NEW w \in Urls \ suspect
                 PROVE  /\ \A e \in Ram(w) : e.body \in ArrivedBody(w, e.ver)
                        /\ ~Writing(w) =>
                              \/ meta[w] = NoMeta
                              \/ /\ Bytes(meta[w].ver, meta[w].len) \in ArrivedBody(w, meta[w].ver)
                                 /\ meta[w].len = 0 \/ bin'[w] = Bytes(meta[w].ver, meta[w].len)
                        /\ \A s \in Threads : s # t /\ Gets(s, w) =>
                              /\ th[s].pc \in {"received", "unlink_bin", "save_meta", "save_bin"}
                                    /\ th[s].out.status = 200 => th[s].out.body \in ArrivedBody(w, th[s].out.ver)
                              /\ th[s].pc = "unlink_bin" => meta[w] = NoMeta
    BY <1>2, <1>4 DEF Responses
  <2>2. w = u /\ th[t].pc = "unlink_bin" => meta[w] = NoMeta
    BY DEF CacheInv, Fetching, Responses, Gets
  <2>. QED
    BY <1>3, <2>2 DEF CacheInv, Responses
<1>10. OneGet'
  BY <1>2, <1>4 DEF CacheInv, OneGet
<1>11. ASSUME NEW w \in Urls \ suspect, last'[w] # last[w]
       PROVE  /\ w = u /\ last'[w] = th[t].out.ver /\ last[w] <= last'[w]
              /\ last'[w] <= origin[w].ver
              /\ \A s \in Threads : Gets(s, w) => s = t
              /\ \A e \in Ram(w) : e.until <= now
              /\ meta[w] = NoMeta \/ meta[w].until <= now
  <2>1. /\ w = u /\ last'[w] = th[t].out.ver /\ Gets(t, w)
        /\ th[t].pc \in {"received", "unlink_bin"}
    BY <1>11 DEF Gets
  <2>2. last[w] <= th[t].out.ver /\ th[t].out.ver <= origin[w].ver
    BY <2>1 DEF CacheInv, Current
  <2>3. /\ \A s \in Threads : Gets(s, w) => s = t
        /\ \A e \in Ram(w) : e.until <= now
        /\ meta[w] = NoMeta \/ meta[w].until <= now
    BY <2>1 DEF CacheInv, OneGet
  <2>. QED
    BY <2>1, <2>2, <2>3
<1>12. Current'
  <2>1. SUFFICES ASSUME NEW w \in Urls \ suspect
                 PROVE  /\ last'[w] <= origin[w].ver
                        /\ \A d \in Ram(w) : /\ d.ver <= origin[w].ver
                                             /\ last'[w] <= d.ver \/ d.until <= now
                        /\ meta[w] = NoMeta \/ (meta[w].ver <= origin[w].ver
                               /\ (last'[w] <= meta[w].ver \/ meta[w].until <= now))
                        /\ \A s \in Threads : s # t
                             /\ Gets(s, w) /\ th[s].pc \in {"answered", "received", "unlink_bin", "save_meta", "save_bin"}
                             => last'[w] <= th[s].out.ver /\ th[s].out.ver <= origin[w].ver
    BY <1>2, <1>4 DEF Current
  <2>2. CASE last'[w] = last[w]
    BY <2>2 DEF CacheInv, Current
  <2>3. CASE last'[w] # last[w]
    BY <1>11, <2>3 DEF CacheInv, Current
  <2>. QED
    BY <2>2, <2>3
<1>13. \A w \in Urls \ suspect' : last'[w] >= last[w]
  <2>1. SUFFICES ASSUME NEW w \in Urls \ suspect PROVE last'[w] >= last[w]
    OBVIOUS
  <2>2. last[w] \in Nat /\ th[t].out.ver \in Nat
    BY NumberTypes, ThreadTypes
  <2>. QED
    BY <1>11, <2>2
<1>. QED
  BY <1>5, <1>6, <1>7, <1>8, <1>9, <1>10, <1>12, <1>13 DEF CacheInv

\* The tail of mini_net_fetch when nothing is stored.
LEMMA UnstoredStep ==
    ASSUME CacheInv, NEW t \in Threads, ReturnUnstored(t)
    PROVE  CacheInv' /\ \A w \in Urls \ suspect' : last'[w] >= last[w]
<1>. DEFINE u == th[t].url
            b == th[t].out.body
<1>1. /\ UNCHANGED <<entries, meta, bin, lock, origin, now, faults, suspect>>
      /\ th[t].pc = "received" /\ th' = [th EXCEPT ![t] = Idle]
  BY DEF ReturnUnstored, disk, env
<1>2. u \in Urls /\ th[t].get \in BOOLEAN /\ b \in Bodies
  BY <1>1, ThreadTypes
<1>3. /\ last' \in [Urls -> {0} \cup Versions]
      /\ \A w \in Urls : last'[w] = last[w]
  <2>1. last \in [Urls -> {0} \cup Versions]
    BY DEF CacheInv, Typed, TypeOK
  <2>2. CASE last' = last
    BY <2>1, <2>2
  <2>3. CASE (~th[t].get \/ th[t].out.status # 200) /\ Give(u, th[t].get, b)
    <3>1. th[t].get => b.ver = 0
      BY <2>3 DEF CacheInv, Fetching, NoBytes, Bytes
    <3>2. /\ last' \in [Urls -> {0} \cup Versions]
          /\ \A w \in Urls : \/ last'[w] = last[w]
                             \/ w = u /\ th[t].get /\ b.ver > 0 /\ last'[w] = b.ver
      BY <1>2, <2>3, GiveFacts
    <3>. QED
      BY <3>1, <3>2
  <2>. QED
    BY <2>2, <2>3 DEF ReturnUnstored
<1>. QED
  BY <1>1, <1>3, Return

\* The second unlink of a no-store response.
LEMMA UnlinkBinStep ==
    ASSUME CacheInv, NEW t \in Threads, UnlinkBin(t)
    PROVE  CacheInv' /\ \A w \in Urls \ suspect' : last'[w] >= last[w]
<1>. DEFINE u == th[t].url
            b == th[t].out.body
<1>1. /\ UNCHANGED <<entries, meta, lock, origin, now, faults, suspect>>
      /\ th[t].pc = "unlink_bin" /\ th' = [th EXCEPT ![t] = Idle]
      /\ bin' = [bin EXCEPT ![u] = NoBin] /\ Give(u, TRUE, b)
  BY DEF UnlinkBin, env
<1>2. u \in Urls /\ th[t].get /\ b \in Bodies /\ th[t].out.status = 200
      /\ th[t].out.ver \in DOMAIN BodyLen[u]
  BY <1>1, ThreadTypes DEF CacheInv, Fetching
<1>3. /\ last' \in [Urls -> {0} \cup Versions]
      /\ \A w \in Urls : last'[w] = last[w] \/ (w = u /\ b.ver > 0 /\ last'[w] = b.ver)
  <2>1. Give(u, TRUE, b) /\ TRUE \in BOOLEAN /\ u \in Urls /\ b \in Bodies
    BY <1>1, <1>2
  <2>. HIDE DEF u, b
  <2>. QED
    BY <2>1, GiveFacts, Zenon
<1>4. u \notin suspect /\ b.ver > 0 => b.ver = th[t].out.ver
  <2>1. u \notin suspect => b \in ArrivedBody(u, th[t].out.ver)
    BY <1>1, <1>2 DEF CacheInv, Responses, Gets
  <2>2. \A x \in ArrivedBody(u, th[t].out.ver) : x.ver > 0 => x.ver = th[t].out.ver
    BY <1>2, VersionFacts
  <2>. QED
    BY <2>1, <2>2
<1>5. \A w \in Urls \ suspect :
         \/ last'[w] = last[w]
         \/ /\ w = u /\ th[t].get /\ th[t].pc # "request"
            /\ last'[w] = th[t].out.ver
  BY <1>1, <1>2, <1>3, <1>4
<1>. QED
  BY <1>1, <1>3, <1>5, Return

\* What a response of version v, with the body b, is taken for.
LEMMA ArrivingFacts ==
    ASSUME NEW u \in Urls, NEW v \in DOMAIN BodyLen[u], NEW st \in {200, 304},
           NEW b \in {NoBytes, Body(u, v)}, NEW g \in BOOLEAN, NEW c \in CacheControls,
           NEW x \in Arriving(u, [status |-> st, body |-> b, ver |-> v, tagged |-> g,
                                  cc |-> c])
    PROVE  /\ x \in Outs /\ x.status = st /\ x.ver = v
           /\ b = NoBytes => x.body = NoBytes
           /\ b = Body(u, v) => x.body \in ArrivedBody(u, v)
<1>. DEFINE whole == [status |-> st, body |-> b, ver |-> v, tagged |-> g, cc |-> c]
<1>1. /\ v \in Versions /\ NoBytes \in Bodies /\ Body(u, v) \in ArrivedBody(u, v)
      /\ BodyLen[u][v] \in Nat /\ b \in Bodies /\ NoBytes = Bytes(v, 0)
      /\ NoBytes.len = 0 /\ Body(u, v).len = BodyLen[u][v]
      /\ \A y \in ArrivedBody(u, v) : y \in Bodies
  <2>1. /\ v \in Versions /\ NoBytes \in Bodies /\ Body(u, v) \in ArrivedBody(u, v)
        /\ BodyLen[u][v] \in Nat /\ \A y \in ArrivedBody(u, v) : y \in Bodies
    BY VersionFacts
  <2>2. NoBytes = Bytes(v, 0) /\ NoBytes.len = 0 /\ Body(u, v).len = BodyLen[u][v]
    BY DEF NoBytes, Bytes, Body
  <2>. QED
    BY <2>1, <2>2
<1>2. CASE x = whole
  BY <1>1, <1>2 DEF Outs
<1>3. ASSUME v \in Cut[u], NEW n \in 0 .. b.len, x = [whole EXCEPT !.body = Bytes(v, n)]
      PROVE  /\ x \in Outs /\ x.status = st /\ x.ver = v
             /\ b = NoBytes => x.body = NoBytes
             /\ b = Body(u, v) => x.body \in ArrivedBody(u, v)
  <2>1. /\ x.status = st /\ x.ver = v /\ x.body = Bytes(v, n)
        /\ x = [status |-> st, body |-> Bytes(v, n), ver |-> v, tagged |-> g, cc |-> c]
    BY <1>3
  <2>2. n \in 0 .. BodyLen[u][v] /\ (b = NoBytes => n = 0)
    BY <1>1, <1>3
  <2>3. Bytes(v, n) \in ArrivedBody(u, v)
    BY <1>3, <2>2, VersionFacts
  <2>. QED
    BY <1>1, <2>1, <2>2, <2>3 DEF Outs
<1>4. ASSUME v \in Cut[u], NEW h \in {g, FALSE}, NEW d \in {c, "none"},
             x = [whole EXCEPT !.body = NoBytes, !.tagged = h, !.cc = d]
      PROVE  /\ x \in Outs /\ x.status = st /\ x.ver = v
             /\ b = NoBytes => x.body = NoBytes
             /\ b = Body(u, v) => x.body \in ArrivedBody(u, v)
  <2>1. /\ x.status = st /\ x.ver = v /\ x.body = NoBytes
        /\ x = [status |-> st, body |-> NoBytes, ver |-> v, tagged |-> h, cc |-> d]
    BY <1>4
  <2>2. NoBytes \in ArrivedBody(u, v)
    BY <1>1, <1>4, VersionFacts
  <2>3. h \in BOOLEAN /\ d \in CacheControls
    BY DEF CacheControls
  <2>. QED
    BY <1>1, <2>1, <2>2, <2>3 DEF Outs
<1>5. whole.ver = v /\ whole.tagged = g /\ whole.cc = c /\ whole.body = b
  OBVIOUS
<1>. HIDE DEF whole
<1>6. \/ x = whole
      \/ /\ v \in Cut[u]
         /\ \/ \E n \in 0 .. b.len : x = [whole EXCEPT !.body = Bytes(v, n)]
            \/ \E h \in {g, FALSE}, d \in {c, "none"} :
                  x = [whole EXCEPT !.body = NoBytes, !.tagged = h, !.cc = d]
  <2>1. x \in Arriving(u, whole)
    BY DEF whole
  <2>. QED
    BY <1>5, <2>1 DEF Arriving
<1>. QED
  BY <1>2, <1>3, <1>4, <1>6

\* mini_net_http.
LEMMA AnswerStep ==
    ASSUME CacheInv, NEW t \in Threads, Answer(t)
    PROVE  CacheInv'
<1>. DEFINE u == th[t].url
            o == origin[u]
<1>1. /\ UNCHANGED <<entries, meta, bin, lock, origin, now, faults, suspect, last>>
      /\ th[t].pc = "request"
  BY DEF Answer, disk, env
<1>2. /\ u \in Urls /\ th[t].get \in BOOLEAN /\ th[t] \in ThreadSet
      /\ th \in [Threads -> ThreadSet]
      /\ o.ver \in DOMAIN BodyLen[u] /\ o.tagged \in BOOLEAN /\ o.cc \in CacheControls
      /\ o.ver \in Versions
  <2>1. u \in Urls /\ th[t].get \in BOOLEAN /\ th[t] \in ThreadSet
    BY <1>1, ThreadTypes
  <2>. QED
    BY <2>1, VersionFacts DEF CacheInv, Typed
<1>3. CASE th' = [th EXCEPT ![t] = Idle]
  <2>1. last' \in [Urls -> {0} \cup Versions]
    BY <1>1 DEF CacheInv, Typed, TypeOK
  <2>. QED
    BY <1>1, <1>3, <2>1, Return
<1>4. ASSUME th' \in [Threads -> ThreadSet], \A s \in Threads \ {t} : th'[s] = th[s],
             th'[t].url = u, th'[t].get = th[t].get, th'[t].cond = th[t].cond,
             th'[t].out.ver = o.ver,
             \/ /\ th'[t].pc = "answered" /\ th'[t].out.status = 304
                /\ th'[t].out.body = NoBytes /\ th[t].cond = o.ver
             \/ /\ th'[t].pc = "received" /\ th'[t].out.status = 200
                /\ th'[t].out.body \in ArrivedBody(u, o.ver)
      PROVE  CacheInv'
  <2>0. th'[t].pc \in {"answered", "received"}
    BY <1>4
  <2>1. /\ th' \in [Threads -> ThreadSet] /\ \A s \in Threads \ {t} : th'[s] = th[s]
        /\ th'[t].url = u /\ th'[t].get = th[t].get /\ th'[t].cond = th[t].cond
    BY <1>4
  <2>2. /\ \A w \in Urls : Ram(w)' = Ram(w) /\ (Saving(w)' <=> Saving(w))
                           /\ (Writing(w)' <=> Writing(w))
        /\ \A s \in Threads, w \in Urls : Gets(s, w)' <=> Gets(s, w)
    <3>1. \A w \in Urls : Ram(w)' = Ram(w)
      BY <1>1 DEF Ram
    <3>2. \A w \in Urls : (Saving(w)' <=> Saving(w)) /\ (Writing(w)' <=> Writing(w))
      BY <1>1, <2>0, <2>1 DEF Saving, Writing
    <3>3. ASSUME NEW w \in Urls PROVE Gets(t, w)' <=> Gets(t, w)
      BY <1>1, <2>0, <2>1 DEF Gets
    <3>4. \A s \in Threads, w \in Urls : Gets(s, w)' <=> Gets(s, w)
      BY <2>1, <3>3 DEF Gets
    <3>. QED
      BY <3>1, <3>2, <3>4
  <2>3. Typed'
    <3>1. \A s \in Threads : th'[s].pc \in Pcs /\ th'[s].url \in Urls \cup {None}
      BY <2>1 DEF ThreadSet
    <3>2. TypeOK'
      BY <1>1, <3>1 DEF CacheInv, Typed, TypeOK
    <3>. QED
      BY <1>1, <2>1, <3>2 DEF CacheInv, Typed
  <2>4. TableIsSound'
    BY <1>1, <2>0, <2>1 DEF CacheInv, TableIsSound, InRam
  <2>5. Fetching'
    <3>1. /\ th'[t].url \in Urls /\ th'[t].out.ver \in DOMAIN BodyLen[th'[t].url]
          /\ th'[t].pc = "answered" => th'[t].cond = th'[t].out.ver /\ th'[t].out.status = 304
          /\ th'[t].out.status # 200 => th'[t].out.body = NoBytes
      BY <1>2, <1>4, <2>1
    <3>. QED
      BY <1>1, <2>0, <2>1, <3>1 DEF CacheInv, Fetching
  <2>6. Disk'
    <3>1. \A w \in Urls : (Good(w)' <=> Good(w)) /\ (DiskWhole(w)' <=> DiskWhole(w))
                          /\ \A e : DiskIs(w, e)' <=> DiskIs(w, e)
      BY <1>1 DEF Good, DiskWhole, DiskIs
    <3>. QED
      BY <1>1, <2>2, <3>1 DEF CacheInv, Disk
  <2>7. Responses'
    <3>1. ASSUME NEW w \in Urls \ suspect, NEW s \in Threads, Gets(s, w)
          PROVE  /\ th'[s].pc \in {"received", "unlink_bin", "save_meta", "save_bin"}
                       /\ th'[s].out.status = 200
                    => th'[s].out.body \in ArrivedBody(w, th'[s].out.ver)
                 /\ th'[s].pc = "unlink_bin" => meta[w] = NoMeta
      <4>1. CASE s = t
        BY <1>4, <2>0, <2>1, <3>1, <4>1 DEF Gets
      <4>2. CASE s # t
        BY <2>1, <3>1, <4>2 DEF CacheInv, Responses
      <4>. QED
        BY <4>1, <4>2
    <3>. QED
      BY <1>1, <2>2, <3>1 DEF CacheInv, Responses
  <2>8. OneGet'
    BY <1>1, <2>0, <2>1, <2>2 DEF CacheInv, OneGet
  <2>9. Current'
    <3>1. ASSUME NEW w \in Urls \ suspect, NEW s \in Threads, Gets(s, w),
                 th'[s].pc \in {"answered", "received", "unlink_bin", "save_meta", "save_bin"}
          PROVE  last[w] <= th'[s].out.ver /\ th'[s].out.ver <= origin[w].ver
      <4>1. CASE s = t
        <5>1. w = u /\ th'[s].out.ver = origin[w].ver
          BY <1>4, <2>1, <3>1, <4>1 DEF Gets
        <5>. QED
          BY <5>1, NumberTypes DEF CacheInv, Current
      <4>2. CASE s # t
        BY <2>1, <3>1, <4>2 DEF CacheInv, Current
      <4>. QED
        BY <4>1, <4>2
    <3>. QED
      BY <1>1, <2>2, <3>1 DEF CacheInv, Current
  <2>. QED
    BY <2>3, <2>4, <2>5, <2>6, <2>7, <2>8, <2>9 DEF CacheInv
<1>5. ASSUME th[t].cond = o.ver,
             NEW x \in Arriving(u, [status |-> 304, body |-> NoBytes,
                                   ver |-> o.ver, tagged |-> TRUE, cc |-> o.cc]),
             th' = [th EXCEPT ![t].pc = "answered", ![t].out = x]
      PROVE  CacheInv'
  <2>1. x \in Outs /\ x.status = 304 /\ x.ver = o.ver /\ x.body = NoBytes
    <3>0. PICK w \in Urls : w = u
      BY <1>2
    <3>1. PICK v \in DOMAIN BodyLen[w], g \in BOOLEAN, c \in CacheControls :
             w = u /\ v = o.ver /\ g = TRUE /\ c = o.cc
      BY <1>2, <3>0
    <3>2. x \in Arriving(w, [status |-> 304, body |-> NoBytes,
                             ver |-> v, tagged |-> g, cc |-> c])
      BY <1>5, <3>1
    <3>. HIDE DEF u, o
    <3>3. x \in Outs /\ x.status = 304 /\ x.ver = v /\ x.body = NoBytes
      BY <3>2, ArrivingFacts
    <3>. QED
      BY <3>1, <3>3
  <2>3. /\ th'[t] = [th[t] EXCEPT !.pc = "answered", !.out = x]
        /\ \A s \in Threads \ {t} : th'[s] = th[s]
    BY <1>2, <1>5
  <2>4. /\ th'[t] \in ThreadSet /\ th'[t].pc = "answered" /\ th'[t].url = u
        /\ th'[t].out = x /\ th'[t].get = th[t].get /\ th'[t].cond = th[t].cond
    <3>1. PICK p, y, q : /\ p = th[t] /\ y = x /\ q = th'[t]
                         /\ p \in ThreadSet /\ y \in Outs
      BY <1>2, <2>1
    <3>2. q = [p EXCEPT !.pc = "answered", !.out = y]
      BY <2>3, <3>1
    <3>3. /\ q \in ThreadSet /\ q.pc = "answered" /\ q.url = p.url
          /\ q.out = y /\ q.get = p.get /\ q.cond = p.cond
      BY ONLY <3>1, <3>2 DEF ThreadSet, Pcs
    <3>. QED
      BY <3>1, <3>3
  <2>5. th' \in [Threads -> ThreadSet]
    BY <1>2, <1>5, <2>3, <2>4
  <2>6. /\ th'[t].out.ver = o.ver
        /\ th'[t].out.status = 304 /\ th'[t].out.body = NoBytes /\ th[t].cond = o.ver
    BY <1>5, <2>1, <2>4
  <2>. HIDE DEF u, o
  <2>. QED
    BY <1>4, <2>3, <2>4, <2>5, <2>6
<1>6. ASSUME th[t].cond # o.ver,
             NEW x \in Arriving(u, [status |-> 200, body |-> Body(u, o.ver),
                                   ver |-> o.ver, tagged |-> o.tagged, cc |-> o.cc]),
             th' = [th EXCEPT ![t].pc = "received", ![t].out = x]
      PROVE  CacheInv'
  <2>1. x \in Outs /\ x.status = 200 /\ x.ver = o.ver /\ x.body \in ArrivedBody(u, o.ver)
    <3>0. PICK w \in Urls : w = u
      BY <1>2
    <3>1. PICK v \in DOMAIN BodyLen[w], g \in BOOLEAN, c \in CacheControls :
             w = u /\ v = o.ver /\ g = o.tagged /\ c = o.cc
      BY <1>2, <3>0
    <3>2. x \in Arriving(w, [status |-> 200, body |-> Body(w, v),
                             ver |-> v, tagged |-> g, cc |-> c])
      BY <1>6, <3>1
    <3>. HIDE DEF u, o
    <3>3. x \in Outs /\ x.status = 200 /\ x.ver = v /\ x.body \in ArrivedBody(w, v)
      BY <3>2, ArrivingFacts
    <3>. QED
      BY <3>1, <3>3
  <2>3. /\ th'[t] = [th[t] EXCEPT !.pc = "received", !.out = x]
        /\ \A s \in Threads \ {t} : th'[s] = th[s]
    BY <1>2, <1>6
  <2>4. /\ th'[t] \in ThreadSet /\ th'[t].pc = "received" /\ th'[t].url = u
        /\ th'[t].out = x /\ th'[t].get = th[t].get /\ th'[t].cond = th[t].cond
    <3>1. PICK p, y, q : /\ p = th[t] /\ y = x /\ q = th'[t]
                         /\ p \in ThreadSet /\ y \in Outs
      BY <1>2, <2>1
    <3>2. q = [p EXCEPT !.pc = "received", !.out = y]
      BY <2>3, <3>1
    <3>3. /\ q \in ThreadSet /\ q.pc = "received" /\ q.url = p.url
          /\ q.out = y /\ q.get = p.get /\ q.cond = p.cond
      BY ONLY <3>1, <3>2 DEF ThreadSet, Pcs
    <3>. QED
      BY <3>1, <3>3
  <2>5. th' \in [Threads -> ThreadSet]
    BY <1>2, <1>6, <2>3, <2>4
  <2>6. /\ th'[t].out.ver = o.ver
        /\ th'[t].out.status = 200 /\ th'[t].out.body \in ArrivedBody(u, o.ver)
    BY <1>6, <2>1, <2>4
  <2>. HIDE DEF u, o
  <2>. QED
    BY <1>4, <2>3, <2>4, <2>5, <2>6
<1>. QED
  BY <1>3, <1>5, <1>6 DEF Answer

\* A GET of a URL nothing went wrong with is the only one.
LEMMA OnlyGet ==
    ASSUME CacheInv, NEW t \in Threads, NEW s \in Threads, NEW u \in Urls \ suspect,
           Gets(t, u), Gets(s, u)
    PROVE  s = t
BY DEF CacheInv, OneGet

\* The first unlink of a no-store response.
LEMMA NoStoreStep ==
    ASSUME CacheInv, NEW t \in Threads, StoreNoStore(t)
    PROVE  CacheInv'
<1>. DEFINE u == th[t].url
<1>1. /\ UNCHANGED <<entries, bin, lock, origin, now, faults, suspect, last>>
      /\ th[t].pc = "received" /\ th[t].get /\ th[t].out.status = 200
      /\ meta' = [meta EXCEPT ![u] = NoMeta]
      /\ th' = [th EXCEPT ![t].pc = "unlink_bin"]
  BY DEF StoreNoStore, env
<1>2. /\ u \in Urls /\ th \in [Threads -> ThreadSet] /\ th[t] \in ThreadSet
      /\ meta \in [Urls -> {NoMeta} \cup MetaSet]
  BY <1>1, ThreadTypes DEF CacheInv, Typed, TypeOK
<1>3. /\ th' \in [Threads -> ThreadSet] /\ \A s \in Threads \ {t} : th'[s] = th[s]
      /\ th'[t].pc = "unlink_bin" /\ th'[t].url = u /\ th'[t].out = th[t].out
      /\ th'[t].get = th[t].get /\ th'[t].cond = th[t].cond
  <2>1. th'[t] = [th[t] EXCEPT !.pc = "unlink_bin"]
    BY <1>1, <1>2
  <2>2. /\ th'[t] \in ThreadSet /\ th'[t].pc = "unlink_bin" /\ th'[t].url = u
        /\ th'[t].out = th[t].out /\ th'[t].get = th[t].get /\ th'[t].cond = th[t].cond
    BY <1>2, <2>1 DEF ThreadSet, Pcs
  <2>. QED
    BY <1>1, <1>2, <2>1, <2>2
<1>4. /\ meta' \in [Urls -> {NoMeta} \cup MetaSet]
      /\ \A w \in Urls : meta'[w] = meta[w] \/ meta'[w] = NoMeta
      /\ meta'[u] = NoMeta
  BY <1>1, <1>2
<1>5. /\ \A w \in Urls : Ram(w)' = Ram(w) /\ (Saving(w)' <=> Saving(w))
                         /\ (Writing(w)' <=> Writing(w))
      /\ \A s \in Threads, w \in Urls : Gets(s, w)' <=> Gets(s, w)
  <2>1. \A w \in Urls : Ram(w)' = Ram(w)
    BY <1>1 DEF Ram
  <2>2. \A w \in Urls : (Saving(w)' <=> Saving(w)) /\ (Writing(w)' <=> Writing(w))
    BY <1>1, <1>3 DEF Saving, Writing
  <2>3. ASSUME NEW w \in Urls PROVE Gets(t, w)' <=> Gets(t, w)
    BY <1>1, <1>3 DEF Gets
  <2>4. \A s \in Threads, w \in Urls : Gets(s, w)' <=> Gets(s, w)
    BY <1>3, <2>3 DEF Gets
  <2>. QED
    BY <2>1, <2>2, <2>4
<1>6. Typed'
  <2>1. \A s \in Threads : th'[s].pc \in Pcs /\ th'[s].url \in Urls \cup {None}
    BY <1>3 DEF ThreadSet
  <2>2. TypeOK'
    BY <1>1, <1>4, <2>1 DEF CacheInv, Typed, TypeOK
  <2>3. \A w \in Urls : meta'[w] = NoMeta \/ meta'[w].ver \in DOMAIN BodyLen[w]
    BY <1>4 DEF CacheInv, Typed
  <2>. QED
    BY <1>1, <1>3, <2>2, <2>3 DEF CacheInv, Typed
<1>7. TableIsSound'
  BY <1>1, <1>3 DEF CacheInv, TableIsSound, InRam
<1>8. Fetching'
  BY <1>1, <1>2, <1>3 DEF CacheInv, Fetching
<1>9. Disk'
  <2>1. \A w \in Urls : /\ Good(w)' <=> Good(w)
                        /\ DiskWhole(w) => DiskWhole(w)'
                        /\ \A e : DiskIs(w, e) => DiskIs(w, e)'
    BY <1>1, <1>4 DEF Good, DiskWhole, DiskIs
  <2>. QED
    BY <1>4, <1>5, <2>1 DEF CacheInv, Disk
<1>10. Responses'
  <2>1. ASSUME NEW w \in Urls \ suspect, NEW s \in Threads, Gets(s, w)
        PROVE  /\ th'[s].pc \in {"received", "unlink_bin", "save_meta", "save_bin"}
                     /\ th'[s].out.status = 200
                  => th'[s].out.body \in ArrivedBody(w, th'[s].out.ver)
               /\ th'[s].pc = "unlink_bin" => meta'[w] = NoMeta
    <3>1. CASE s = t
      <4>1. w = u
        BY <2>1, <3>1 DEF Gets
      <4>2. th[t].out.body \in ArrivedBody(w, th[t].out.ver)
        BY <1>1, <2>1, <3>1 DEF CacheInv, Responses
      <4>. QED
        BY <1>3, <1>4, <3>1, <4>1, <4>2
    <3>2. CASE s # t
      <4>1. /\ th[s].pc \in {"received", "unlink_bin", "save_meta", "save_bin"}
                   /\ th[s].out.status = 200 => th[s].out.body \in ArrivedBody(w, th[s].out.ver)
            /\ th[s].pc = "unlink_bin" => meta[w] = NoMeta
        BY <2>1 DEF CacheInv, Responses
      <4>. QED
        BY <1>3, <1>4, <3>2, <4>1
    <3>. QED
      BY <3>1, <3>2
  <2>2. ASSUME NEW w \in Urls \ suspect
        PROVE  /\ \A e \in Ram(w) : e.body \in ArrivedBody(w, e.ver)
               /\ ~Writing(w) =>
                     \/ meta'[w] = NoMeta
                     \/ /\ Bytes(meta'[w].ver, meta'[w].len) \in ArrivedBody(w, meta'[w].ver)
                        /\ meta'[w].len = 0 \/ bin[w] = Bytes(meta'[w].ver, meta'[w].len)
    BY <1>4 DEF CacheInv, Responses
  <2>. QED
    BY <1>1, <1>5, <2>1, <2>2 DEF Responses
<1>11. OneGet'
  <2>1. SUFFICES ASSUME NEW w \in Urls \ suspect, NEW s \in Threads, Gets(s, w)
                 PROVE  /\ \A p \in Threads : Gets(p, w) => p = s
                        /\ th'[s].pc \in {"request", "answered"} /\ th'[s].cond > 0 =>
                              /\ \A d \in Ram(w) : d.ver = th'[s].cond
                              /\ meta'[w] = NoMeta \/ meta'[w].ver = th'[s].cond
                        /\ th'[s].pc \notin {"save_meta", "save_bin"} =>
                              /\ \A d \in Ram(w) : d.until <= now
                              /\ meta'[w] = NoMeta \/ meta'[w].until <= now
    BY <1>1, <1>5 DEF OneGet
  <2>2. /\ \A p \in Threads : Gets(p, w) => p = s
        /\ th[s].pc \in {"request", "answered"} /\ th[s].cond > 0 =>
              /\ \A d \in Ram(w) : d.ver = th[s].cond
              /\ meta[w] = NoMeta \/ meta[w].ver = th[s].cond
        /\ th[s].pc \notin {"save_meta", "save_bin"} =>
              /\ \A d \in Ram(w) : d.until <= now
              /\ meta[w] = NoMeta \/ meta[w].until <= now
    BY <2>1 DEF CacheInv, OneGet
  <2>3. CASE s = t
    BY <1>1, <1>3, <1>4, <2>2, <2>3
  <2>4. CASE s # t
    BY <1>3, <1>4, <2>2, <2>4
  <2>. QED
    BY <2>3, <2>4
<1>12. Current'
  <2>1. SUFFICES ASSUME NEW w \in Urls \ suspect
                 PROVE  /\ last[w] <= origin[w].ver
                        /\ \A d \in Ram(w) : /\ d.ver <= origin[w].ver
                                             /\ last[w] <= d.ver \/ d.until <= now
                        /\ meta'[w] = NoMeta \/ (meta'[w].ver <= origin[w].ver
                               /\ (last[w] <= meta'[w].ver \/ meta'[w].until <= now))
                        /\ \A s \in Threads :
                             Gets(s, w) /\ th'[s].pc \in {"answered", "received", "unlink_bin", "save_meta", "save_bin"}
                             => last[w] <= th'[s].out.ver /\ th'[s].out.ver <= origin[w].ver
    BY <1>1, <1>5 DEF Current
  <2>2. ASSUME NEW s \in Threads, Gets(s, w),
               th'[s].pc \in {"answered", "received", "unlink_bin", "save_meta", "save_bin"}
        PROVE  last[w] <= th'[s].out.ver /\ th'[s].out.ver <= origin[w].ver
    <3>1. /\ th[s].pc \in {"answered", "received", "unlink_bin", "save_meta", "save_bin"}
          /\ th'[s].out.ver = th[s].out.ver
      BY <1>1, <1>3, <2>2
    <3>. QED
      BY <2>2, <3>1 DEF CacheInv, Current
  <2>. QED
    BY <1>4, <2>2 DEF CacheInv, Current
<1>. QED
  BY <1>6, <1>7, <1>8, <1>9, <1>10, <1>11, <1>12 DEF CacheInv

\* The thread that saves an entry is alone in the lock, and the slot it saves
\* holds its response.
LEMMA SavedFacts ==
    ASSUME CacheInv, NEW t \in Threads, th[t].pc \in {"save_meta", "save_bin"}
    PROVE  /\ lock = t /\ th[t].url \in Urls /\ th[t].get /\ th[t].out.status = 200
           /\ th[t].out.ver \in DOMAIN BodyLen[th[t].url]
           /\ Saved(t) \in EntrySet /\ Saved(t) \in Ram(th[t].url)
           /\ \A d \in Ram(th[t].url) : d = Saved(t)
           /\ Saved(t).body = th[t].out.body /\ Saved(t).ver = th[t].out.ver
           /\ \A s \in Threads : th[s].pc \in {"save_meta", "save_bin"} => s = t
<1>. DEFINE u == th[t].url
<1>1. /\ lock = t /\ InRam(u) # {}
      /\ \A s \in Threads : th[s].pc \in {"save_meta", "save_bin"} => s = t
  BY DEF CacheInv, TableIsSound
<1>2. TableOK(entries)
  BY DEF CacheInv, Typed, TypeOK, TableIsSound, TableOK
<1>3. /\ u \in Urls /\ th[t].get /\ th[t].out.status = 200
      /\ th[t].out.ver \in DOMAIN BodyLen[u]
      /\ \E e \in ToSet(entries) : /\ e.url = u /\ e.body = th[t].out.body
                                   /\ e.ver = th[t].out.ver
  BY DEF CacheInv, Fetching
<1>4. Slot(u) \in InRam(u)
  BY <1>1 DEF Slot
<1>5. Saved(t) \in ToSet(entries) /\ Saved(t).url = u
  BY <1>4 DEF Saved, InRam, ToSet
<1>6. Saved(t) \in EntrySet
  BY <1>2, <1>5 DEF TableOK, ToSet
<1>7. \A d \in ToSet(entries) : d.url = u => d = Saved(t)
  BY <1>2, <1>5, TableUnique
<1>. QED
  BY <1>1, <1>3, <1>5, <1>6, <1>7 DEF Ram

\* The .meta of mini_httpcache_save_to_disk.
LEMMA SaveMetaStep ==
    ASSUME CacheInv, NEW t \in Threads, SaveMeta(t)
    PROVE  CacheInv'
<1>. DEFINE u == th[t].url
            e == Saved(t)
<1>1. /\ UNCHANGED <<entries, bin, lock, origin, now, last>>
      /\ th[t].pc = "save_meta" /\ th' = [th EXCEPT ![t].pc = "save_bin"]
  BY DEF SaveMeta
<1>2. /\ lock = t /\ u \in Urls /\ th[t].get /\ th[t].out.status = 200
      /\ th[t].out.ver \in DOMAIN BodyLen[u]
      /\ e \in EntrySet /\ e \in Ram(u) /\ \A d \in Ram(u) : d = e
      /\ e.body = th[t].out.body /\ e.ver = th[t].out.ver
      /\ \A s \in Threads : th[s].pc \in {"save_meta", "save_bin"} => s = t
  BY <1>1, SavedFacts
<1>. HIDE DEF e
<1>3. MetaOf(e) \in MetaSet /\ MetaOf(e).ver = th[t].out.ver
  <2>1. e.body.len \in Nat /\ e.ver \in Versions /\ e.tagged \in BOOLEAN /\ e.until \in Nat
    BY <1>2 DEF EntrySet
  <2>. QED
    BY <1>2, <2>1 DEF MetaOf, MetaSet
<1>4. /\ th \in [Threads -> ThreadSet] /\ th[t] \in ThreadSet /\ suspect \subseteq Urls
      /\ meta \in [Urls -> {NoMeta} \cup MetaSet] /\ faults \in Nat
  BY <1>1, ThreadTypes DEF CacheInv, Typed, TypeOK
<1>5. /\ meta' \in [Urls -> {NoMeta} \cup MetaSet] /\ faults' \in Nat
      /\ suspect \subseteq suspect' /\ suspect' \subseteq Urls
      /\ \A w \in Urls : w # u => meta'[w] = meta[w]
      /\ meta'[u] = MetaOf(e) \/ meta'[u] = meta[u]
      /\ \A w \in Urls : Good(w)' => Good(w) /\ (w = u => meta'[w] = MetaOf(e))
      /\ \A w \in Urls \ suspect' : w \notin suspect /\ (w = u => meta'[w] = MetaOf(e))
  <2>1. CASE meta' = [meta EXCEPT ![u] = MetaOf(e)] /\ UNCHANGED <<faults, suspect>>
    BY <1>2, <1>3, <1>4, <2>1 DEF Good
  <2>2. CASE OpenFails(u) /\ UNCHANGED meta
    <3>1. faults' = faults + 1 /\ suspect' = suspect \cup {u} /\ meta' = meta
      BY <2>2 DEF OpenFails
    <3>2. faults' \in Nat /\ faults' # 0
      BY <1>4, <3>1
    <3>. QED
      BY <1>2, <1>4, <3>1, <3>2 DEF Good
  <2>. QED
    BY <2>1, <2>2 DEF SaveMeta, e
<1>6. /\ th' \in [Threads -> ThreadSet] /\ \A s \in Threads \ {t} : th'[s] = th[s]
      /\ th'[t].pc = "save_bin" /\ th'[t].url = u /\ th'[t].out = th[t].out
      /\ th'[t].get = th[t].get /\ th'[t].cond = th[t].cond
  <2>1. th'[t] = [th[t] EXCEPT !.pc = "save_bin"]
    BY <1>1, <1>4
  <2>2. /\ th'[t] \in ThreadSet /\ th'[t].pc = "save_bin" /\ th'[t].url = u
        /\ th'[t].out = th[t].out /\ th'[t].get = th[t].get /\ th'[t].cond = th[t].cond
    BY <1>4, <2>1 DEF ThreadSet, Pcs
  <2>. QED
    BY <1>1, <1>4, <2>1, <2>2
<1>7. /\ \A w \in Urls : Ram(w)' = Ram(w)
      /\ \A w \in Urls : (Saving(w)' <=> w = u) /\ (Saving(w) <=> w = u)
      /\ \A w \in Urls : (Writing(w)' <=> w = u) /\ ~Writing(w)
      /\ \A s \in Threads, w \in Urls : Gets(s, w)' <=> Gets(s, w)
  <2>1. \A w \in Urls : Ram(w)' = Ram(w)
    BY <1>1 DEF Ram
  <2>2. \A w \in Urls : (Saving(w)' <=> w = u) /\ (Saving(w) <=> w = u)
    BY <1>1, <1>2, <1>6 DEF Saving
  <2>3. \A w \in Urls : (Writing(w)' <=> w = u) /\ ~Writing(w)
    BY <1>1, <1>2, <1>6 DEF Writing
  <2>4. ASSUME NEW w \in Urls PROVE Gets(t, w)' <=> Gets(t, w)
    BY <1>1, <1>6 DEF Gets
  <2>5. \A s \in Threads, w \in Urls : Gets(s, w)' <=> Gets(s, w)
    BY <1>6, <2>4 DEF Gets
  <2>. QED
    BY <2>1, <2>2, <2>3, <2>5
<1>8. Gets(t, u)
  BY <1>1, <1>2 DEF Gets
<1>9. Typed'
  <2>1. \A s \in Threads : th'[s].pc \in Pcs /\ th'[s].url \in Urls \cup {None}
    BY <1>6 DEF ThreadSet
  <2>2. TypeOK'
    BY <1>1, <1>5, <2>1 DEF CacheInv, Typed, TypeOK
  <2>3. \A w \in Urls : meta'[w] = NoMeta \/ meta'[w].ver \in DOMAIN BodyLen[w]
    <3>1. \A w \in Urls : meta[w] = NoMeta \/ meta[w].ver \in DOMAIN BodyLen[w]
      BY DEF CacheInv, Typed
    <3>. QED
      BY <1>2, <1>3, <1>5, <3>1
  <2>. QED
    BY <1>1, <1>5, <1>6, <2>2, <2>3 DEF CacheInv, Typed
<1>10. TableIsSound'
  BY <1>1, <1>6 DEF CacheInv, TableIsSound, InRam
<1>11. Fetching'
  BY <1>1, <1>6 DEF CacheInv, Fetching
<1>12. Disk'
  <2>1. SUFFICES ASSUME NEW w \in Urls, Good(w)'
                 PROVE  /\ w # u => DiskWhole(w)'
                        /\ \A d \in Ram(w) : /\ w # u => DiskIs(w, d)'
                                             /\ w = u => meta'[w] = MetaOf(d)
    BY <1>7 DEF Disk
  <2>2. CASE w = u
    BY <1>2, <1>5, <2>1, <2>2
  <2>3. CASE w # u
    <3>1. DiskWhole(w) /\ \A d \in Ram(w) : DiskIs(w, d)
      BY <1>5, <1>7, <2>1, <2>3 DEF CacheInv, Disk
    <3>2. DiskWhole(w)' /\ \A d \in Ram(w) : DiskIs(w, d)'
      BY <1>1, <1>5, <2>3, <3>1 DEF DiskWhole, DiskIs
    <3>. QED
      BY <2>3, <3>2
  <2>. QED
    BY <2>2, <2>3
<1>13. Responses'
  <2>1. SUFFICES ASSUME NEW w \in Urls \ suspect'
                 PROVE  /\ \A d \in Ram(w) : d.body \in ArrivedBody(w, d.ver)
                        /\ w # u =>
                              \/ meta'[w] = NoMeta
                              \/ /\ Bytes(meta'[w].ver, meta'[w].len) \in ArrivedBody(w, meta'[w].ver)
                                 /\ meta'[w].len = 0 \/ bin[w] = Bytes(meta'[w].ver, meta'[w].len)
                        /\ \A s \in Threads : Gets(s, w) =>
                             /\ th'[s].pc \in {"received", "unlink_bin", "save_meta", "save_bin"}
                                   /\ th'[s].out.status = 200
                                => th'[s].out.body \in ArrivedBody(w, th'[s].out.ver)
                             /\ th'[s].pc = "unlink_bin" => meta'[w] = NoMeta
    BY <1>1, <1>7 DEF Responses
  <2>2. w \in Urls \ suspect
    BY <1>5, <2>1
  <2>3. ASSUME NEW s \in Threads, Gets(s, w)
        PROVE  /\ th'[s].pc \in {"received", "unlink_bin", "save_meta", "save_bin"}
                     /\ th'[s].out.status = 200
                  => th'[s].out.body \in ArrivedBody(w, th'[s].out.ver)
               /\ th'[s].pc = "unlink_bin" => meta'[w] = NoMeta
    <3>1. /\ th[s].pc \in {"received", "unlink_bin", "save_meta", "save_bin"}
                /\ th[s].out.status = 200 => th[s].out.body \in ArrivedBody(w, th[s].out.ver)
          /\ th[s].pc = "unlink_bin" => meta[w] = NoMeta
      BY <2>2, <2>3 DEF CacheInv, Responses
    <3>2. CASE s = t
      BY <1>1, <1>6, <3>1, <3>2
    <3>3. CASE s # t
      <4>1. w # u
        BY <1>8, <2>2, <2>3, <3>3, OnlyGet
      <4>. QED
        BY <1>5, <1>6, <3>1, <3>3, <4>1
    <3>. QED
      BY <3>2, <3>3
  <2>. QED
    BY <1>5, <1>7, <2>2, <2>3 DEF CacheInv, Responses
<1>14. OneGet'
  <2>1. SUFFICES ASSUME NEW w \in Urls \ suspect', NEW s \in Threads, Gets(s, w)
                 PROVE  /\ \A p \in Threads : Gets(p, w) => p = s
                        /\ th'[s].pc \in {"request", "answered"} /\ th'[s].cond > 0 =>
                              /\ \A d \in Ram(w) : d.ver = th'[s].cond
                              /\ meta'[w] = NoMeta \/ meta'[w].ver = th'[s].cond
                        /\ th'[s].pc \notin {"save_meta", "save_bin"} =>
                              /\ \A d \in Ram(w) : d.until <= now
                              /\ meta'[w] = NoMeta \/ meta'[w].until <= now
    BY <1>1, <1>7 DEF OneGet
  <2>2. w \in Urls \ suspect
    BY <1>5, <2>1
  <2>3. CASE s = t
    BY <1>6, <2>1, <2>2, <2>3 DEF CacheInv, OneGet
  <2>4. CASE s # t
    <3>1. w # u
      BY <1>8, <2>1, <2>2, <2>4, OnlyGet
    <3>. QED
      BY <1>5, <1>6, <2>1, <2>2, <2>4, <3>1 DEF CacheInv, OneGet
  <2>. QED
    BY <2>3, <2>4
<1>15. Current'
  <2>1. SUFFICES ASSUME NEW w \in Urls \ suspect'
                 PROVE  /\ last[w] <= origin[w].ver
                        /\ \A d \in Ram(w) : /\ d.ver <= origin[w].ver
                                             /\ last[w] <= d.ver \/ d.until <= now
                        /\ meta'[w] = NoMeta \/ (meta'[w].ver <= origin[w].ver
                               /\ (last[w] <= meta'[w].ver \/ meta'[w].until <= now))
                        /\ \A s \in Threads :
                             Gets(s, w) /\ th'[s].pc \in {"answered", "received", "unlink_bin", "save_meta", "save_bin"}
                             => last[w] <= th'[s].out.ver /\ th'[s].out.ver <= origin[w].ver
    BY <1>1, <1>7 DEF Current
  <2>2. w \in Urls \ suspect
    BY <1>5, <2>1
  <2>3. ASSUME NEW s \in Threads, Gets(s, w),
               th'[s].pc \in {"answered", "received", "unlink_bin", "save_meta", "save_bin"}
        PROVE  last[w] <= th'[s].out.ver /\ th'[s].out.ver <= origin[w].ver
    <3>1. /\ th[s].pc \in {"answered", "received", "unlink_bin", "save_meta", "save_bin"}
          /\ th'[s].out.ver = th[s].out.ver
      BY <1>1, <1>6, <2>3
    <3>. QED
      BY <2>2, <2>3, <3>1 DEF CacheInv, Current
  <2>4. w = u => last[w] <= meta'[w].ver /\ meta'[w].ver <= origin[w].ver
    BY <1>1, <1>3, <1>5, <1>8, <2>1, <2>2 DEF CacheInv, Current
  <2>5. /\ last[w] <= origin[w].ver
        /\ \A d \in Ram(w) : d.ver <= origin[w].ver /\ (last[w] <= d.ver \/ d.until <= now)
        /\ meta[w] = NoMeta \/ (meta[w].ver <= origin[w].ver
                                /\ (last[w] <= meta[w].ver \/ meta[w].until <= now))
    BY <2>2 DEF CacheInv, Current
  <2>. QED
    BY <1>5, <2>3, <2>4, <2>5
<1>. QED
  BY <1>9, <1>10, <1>11, <1>12, <1>13, <1>14, <1>15 DEF CacheInv

\* The .bin, the unlock and the return.
LEMMA SaveBinStep ==
    ASSUME CacheInv, NEW t \in Threads, SaveBin(t)
    PROVE  CacheInv' /\ \A w \in Urls \ suspect' : last'[w] >= last[w]
<1>. DEFINE u == th[t].url
            e == Saved(t)
            b == th[t].out.body
<1>1. /\ UNCHANGED <<entries, meta, origin, now>> /\ lock' = Free
      /\ th[t].pc = "save_bin" /\ th' = [th EXCEPT ![t] = Idle] /\ Give(u, TRUE, b)
  BY DEF SaveBin
<1>2. /\ lock = t /\ u \in Urls /\ th[t].get /\ th[t].out.status = 200
      /\ th[t].out.ver \in DOMAIN BodyLen[u]
      /\ e \in EntrySet /\ e \in Ram(u) /\ \A d \in Ram(u) : d = e
      /\ e.body = b /\ e.ver = th[t].out.ver
      /\ \A s \in Threads : th[s].pc \in {"save_meta", "save_bin"} => s = t
  BY <1>1, SavedFacts
<1>3. /\ th \in [Threads -> ThreadSet] /\ suspect \subseteq Urls /\ b \in Bodies
      /\ bin \in [Urls -> {NoBin} \cup Bodies] /\ faults \in Nat
  BY <1>1, ThreadTypes DEF CacheInv, Typed, TypeOK
<1>. HIDE DEF e
<1>4. /\ bin' \in [Urls -> {NoBin} \cup Bodies] /\ faults' \in Nat
      /\ suspect \subseteq suspect' /\ suspect' \subseteq Urls
      /\ \A w \in Urls : w # u => bin'[w] = bin[w]
      /\ \A w \in Urls : Good(w)' => Good(w) /\ (w = u /\ b.len > 0 => bin'[w] = b)
      /\ \A w \in Urls \ suspect' : w \notin suspect /\ (w = u /\ b.len > 0 => bin'[w] = b)
  <2>1. CASE /\ bin' = IF e.body.len > 0 THEN [bin EXCEPT ![u] = e.body] ELSE bin
             /\ UNCHANGED <<faults, suspect>>
    <3>1. CASE b.len > 0
      BY <1>2, <1>3, <2>1, <3>1 DEF Good
    <3>2. CASE ~(b.len > 0)
      BY <1>2, <1>3, <2>1, <3>2 DEF Good
    <3>. QED
      BY <3>1, <3>2
  <2>2. CASE OpenFails(u) /\ UNCHANGED bin
    <3>1. faults' = faults + 1 /\ suspect' = suspect \cup {u} /\ bin' = bin
      BY <2>2 DEF OpenFails
    <3>2. faults' \in Nat /\ faults' # 0
      BY <1>3, <3>1
    <3>. QED
      BY <1>2, <1>3, <3>1, <3>2 DEF Good
  <2>. QED
    BY <2>1, <2>2 DEF SaveBin, e
<1>5. /\ last' \in [Urls -> {0} \cup Versions]
      /\ \A w \in Urls : last'[w] = last[w] \/ (w = u /\ b.ver > 0 /\ last'[w] = b.ver)
  <2>1. Give(u, TRUE, b) /\ TRUE \in BOOLEAN /\ u \in Urls /\ b \in Bodies
    BY <1>1, <1>2, <1>3
  <2>. HIDE DEF u, b
  <2>. QED
    BY <2>1, GiveFacts, Zenon
<1>6. u \notin suspect => /\ b \in ArrivedBody(u, e.ver) /\ b = Bytes(e.ver, b.len)
                          /\ b.ver > 0 => b.ver = e.ver
  <2>1. u \notin suspect => b \in ArrivedBody(u, e.ver)
    BY <1>2 DEF CacheInv, Responses
  <2>2. \A x \in ArrivedBody(u, e.ver) :
           x = Bytes(e.ver, x.len) /\ (x.ver > 0 => x.ver = e.ver)
    BY <1>2, VersionFacts
  <2>. QED
    BY <2>1, <2>2
<1>7. /\ \A s \in Threads : th'[s] = IF s = t THEN Idle ELSE th[s]
      /\ Idle \in ThreadSet /\ Idle.pc = "idle" /\ Idle.out.body = NoBytes
      /\ th' \in [Threads -> ThreadSet]
  <2>1. Idle \in ThreadSet /\ Idle.pc = "idle" /\ Idle.out.body = NoBytes
    BY VersionFacts DEF Idle, ThreadSet, Pcs, Nothing
  <2>. QED
    BY <1>1, <1>3, <2>1
<1>8. /\ \A w \in Urls : Ram(w)' = Ram(w)
      /\ \A s \in Threads : th'[s].pc \notin {"save_meta", "save_bin"}
      /\ \A w \in Urls : ~Saving(w)' /\ ~Writing(w)'
      /\ \A w \in Urls : (Saving(w) <=> w = u) /\ (Writing(w) <=> w = u)
      /\ \A s \in Threads, w \in Urls : Gets(s, w)' <=> s # t /\ Gets(s, w)
      /\ Gets(t, u)
  <2>1. \A w \in Urls : Ram(w)' = Ram(w)
    BY <1>1 DEF Ram
  <2>2. \A s \in Threads : th'[s].pc \notin {"save_meta", "save_bin"}
    BY <1>2, <1>7
  <2>3. \A w \in Urls : ~Saving(w)' /\ ~Writing(w)'
    BY <2>2 DEF Saving, Writing
  <2>4. \A w \in Urls : (Saving(w) <=> w = u) /\ (Writing(w) <=> w = u)
    BY <1>1, <1>2 DEF Saving, Writing
  <2>5. \A s \in Threads, w \in Urls : Gets(s, w)' <=> s # t /\ Gets(s, w)
    BY <1>7 DEF Gets
  <2>6. Gets(t, u)
    BY <1>1, <1>2 DEF Gets
  <2>. QED
    BY <2>1, <2>2, <2>3, <2>4, <2>5, <2>6
<1>9. Typed'
  <2>1. \A s \in Threads : th'[s].pc \in Pcs /\ th'[s].url \in Urls \cup {None}
    BY <1>7 DEF ThreadSet
  <2>2. bin' \in [Urls -> {NoBin} \cup [ver : Nat, len : Nat]]
    <3>1. \A x \in Bodies : x \in [ver : Nat, len : Nat]
      BY VersionNat DEF Bodies
    <3>. QED
      BY <1>4, <3>1
  <2>3. TypeOK'
    BY <1>1, <1>4, <1>5, <2>1, <2>2 DEF CacheInv, Typed, TypeOK
  <2>. QED
    BY <1>1, <1>4, <1>7, <2>3 DEF CacheInv, Typed
<1>10. TableIsSound'
  BY <1>1, <1>8 DEF CacheInv, TableIsSound
<1>11. Fetching'
  BY <1>1, <1>7, <1>8 DEF CacheInv, Fetching
<1>12. Disk'
  <2>1. SUFFICES ASSUME NEW w \in Urls, Good(w)'
                 PROVE  DiskWhole(w)' /\ \A d \in Ram(w) : DiskIs(w, d)'
    BY <1>8 DEF Disk
  <2>2. CASE w = u
    <3>1. meta[u] \in {NoMeta, MetaOf(e)}
      BY <1>2, <1>4, <1>8, <2>1, <2>2 DEF CacheInv, Disk
    <3>2. b.len \in Nat /\ MetaOf(e).len = b.len
      BY <1>2, <1>3 DEF Bodies, MetaOf
    <3>3. b.len = 0 \/ bin'[u] = b
      BY <1>4, <2>1, <2>2, <3>2
    <3>4. DiskWhole(w)'
      BY <1>1, <2>2, <3>1, <3>2, <3>3 DEF DiskWhole
    <3>5. ASSUME NEW d \in Ram(w) PROVE DiskIs(w, d)'
      <4>1. d = e /\ d.body = b /\ meta[w] \in {NoMeta, MetaOf(d)}
        BY <1>2, <2>2, <3>1, <3>5
      <4>. QED
        BY <1>1, <2>2, <3>3, <4>1 DEF DiskIs
    <3>. QED
      BY <3>4, <3>5
  <2>3. CASE w # u
    <3>1. DiskWhole(w) /\ \A d \in Ram(w) : DiskIs(w, d)
      BY <1>4, <1>8, <2>1, <2>3 DEF CacheInv, Disk
    <3>2. DiskWhole(w)' /\ \A d \in Ram(w) : DiskIs(w, d)'
      BY <1>1, <1>4, <2>3, <3>1 DEF DiskWhole, DiskIs
    <3>. QED
      BY <3>2
  <2>. QED
    BY <2>2, <2>3
<1>13. Responses'
  <2>1. SUFFICES ASSUME NEW w \in Urls \ suspect'
                 PROVE  /\ \A d \in Ram(w) : d.body \in ArrivedBody(w, d.ver)
                        /\ \/ meta[w] = NoMeta
                           \/ /\ Bytes(meta[w].ver, meta[w].len) \in ArrivedBody(w, meta[w].ver)
                              /\ meta[w].len = 0 \/ bin'[w] = Bytes(meta[w].ver, meta[w].len)
                        /\ \A s \in Threads : s # t /\ Gets(s, w) =>
                             /\ th[s].pc \in {"received", "unlink_bin", "save_meta", "save_bin"}
                                   /\ th[s].out.status = 200
                                => th[s].out.body \in ArrivedBody(w, th[s].out.ver)
                             /\ th[s].pc = "unlink_bin" => meta[w] = NoMeta
    BY <1>1, <1>7, <1>8 DEF Responses
  <2>2. w \in Urls \ suspect
    BY <1>4, <2>1
  <2>3. /\ \A d \in Ram(w) : d.body \in ArrivedBody(w, d.ver)
        /\ \A s \in Threads : Gets(s, w) =>
             /\ th[s].pc \in {"received", "unlink_bin", "save_meta", "save_bin"}
                   /\ th[s].out.status = 200
                => th[s].out.body \in ArrivedBody(w, th[s].out.ver)
             /\ th[s].pc = "unlink_bin" => meta[w] = NoMeta
    BY <2>2 DEF CacheInv, Responses
  <2>4. CASE w # u
    BY <1>4, <1>8, <2>2, <2>3, <2>4 DEF CacheInv, Responses
  <2>5. CASE w = u
    <3>1. meta[u] \in {NoMeta, MetaOf(e)}
      BY <1>2, <1>8, <2>2, <2>5 DEF CacheInv, Disk, Good
    <3>2. b.len \in Nat /\ MetaOf(e).len = b.len /\ MetaOf(e).ver = e.ver
      BY <1>2, <1>3 DEF Bodies, MetaOf
    <3>3. b.len = 0 \/ bin'[u] = b
      BY <1>4, <2>1, <2>5, <3>2
    <3>. QED
      BY <1>6, <2>2, <2>3, <2>5, <3>1, <3>2, <3>3
  <2>. QED
    BY <2>4, <2>5
<1>14. OneGet'
  BY <1>1, <1>4, <1>7, <1>8 DEF CacheInv, OneGet
<1>15. ASSUME NEW w \in Urls \ suspect', last'[w] # last[w]
       PROVE  /\ last'[w] \in Nat /\ last[w] <= last'[w] /\ last'[w] <= origin[w].ver
              /\ \A s \in Threads : Gets(s, w) => s = t
              /\ \A d \in Ram(w) : d.ver = last'[w]
              /\ meta[w] = NoMeta \/ meta[w].ver = last'[w]
  <2>1. w = u /\ w \in Urls \ suspect /\ last'[w] = e.ver
    BY <1>4, <1>5, <1>6, <1>15
  <2>2. last[w] <= e.ver /\ e.ver <= origin[w].ver
    BY <1>1, <1>2, <1>8, <2>1 DEF CacheInv, Current
  <2>3. \A s \in Threads : Gets(s, w) => s = t
    BY <1>8, <2>1, OnlyGet
  <2>4. meta[u] \in {NoMeta, MetaOf(e)}
    BY <1>2, <1>8, <2>1 DEF CacheInv, Disk, Good
  <2>5. MetaOf(e).ver = e.ver
    BY DEF MetaOf
  <2>6. e.ver \in Nat
    BY <1>2, VersionFacts
  <2>. QED
    BY <1>2, <2>1, <2>2, <2>3, <2>4, <2>5, <2>6
<1>16. Current'
  <2>1. SUFFICES ASSUME NEW w \in Urls \ suspect'
                 PROVE  /\ last'[w] <= origin[w].ver
                        /\ \A d \in Ram(w) : /\ d.ver <= origin[w].ver
                                             /\ last'[w] <= d.ver \/ d.until <= now
                        /\ meta[w] = NoMeta \/ (meta[w].ver <= origin[w].ver
                               /\ (last'[w] <= meta[w].ver \/ meta[w].until <= now))
                        /\ \A s \in Threads : s # t
                             /\ Gets(s, w) /\ th[s].pc \in {"answered", "received", "unlink_bin", "save_meta", "save_bin"}
                             => last'[w] <= th[s].out.ver /\ th[s].out.ver <= origin[w].ver
    BY <1>1, <1>7, <1>8 DEF Current
  <2>2. w \in Urls \ suspect
    BY <1>4, <2>1
  <2>3. CASE last'[w] = last[w]
    BY <2>2, <2>3 DEF CacheInv, Current
  <2>4. CASE last'[w] # last[w]
    BY <1>15, <2>1, <2>4
  <2>. QED
    BY <2>3, <2>4
<1>17. \A w \in Urls \ suspect' : last'[w] >= last[w]
  <2>1. SUFFICES ASSUME NEW w \in Urls \ suspect' PROVE last'[w] >= last[w]
    OBVIOUS
  <2>2. last[w] \in Nat
    BY NumberTypes
  <2>. QED
    BY <1>15, <2>2
<1>. QED
  BY <1>9, <1>10, <1>11, <1>12, <1>13, <1>14, <1>16, <1>17 DEF CacheInv

\* mini_httpcache_store of a response that is kept: the slot of its URL.
LEMMA SlotFacts ==
    ASSUME TableOK(entries), NEW u, NEW e \in EntrySet, e.url = u, NEW tab,
           tab = IF InRam(u) = {} THEN Put(e)
                 ELSE [i \in DOMAIN entries |-> IF entries[i].url = u THEN e ELSE entries[i]]
    PROVE  /\ TableOK(tab) /\ e \in ToSet(tab)
           /\ \A d \in ToSet(tab) : d = e \/ (d \in ToSet(entries) /\ d.url # u)
<1>1. CASE InRam(u) = {}
  <2>1. \A d \in ToSet(entries) : d.url # u
    BY <1>1 DEF InRam, ToSet
  <2>2. /\ TableOK(Put(e)) /\ ToSet(Put(e)) \subseteq ToSet(entries) \cup {e}
        /\ e \in ToSet(Put(e))
    BY <2>1, PutFacts
  <2>. QED
    BY <1>1, <2>1, <2>2
<1>2. CASE InRam(u) # {}
  <2>1. tab = [i \in DOMAIN entries |-> IF entries[i].url = u THEN e ELSE entries[i]]
    BY <1>2
  <2>2. entries \in Seq(EntrySet) /\ DOMAIN entries = 1 .. Len(entries) /\ Len(entries) \in Nat
    BY DEF TableOK
  <2>3. /\ DOMAIN tab = 1 .. Len(entries)
        /\ \A i \in 1 .. Len(entries) :
              tab[i] = IF entries[i].url = u THEN e ELSE entries[i]
    BY <2>1, <2>2
  <2>4. tab \in Seq(EntrySet) /\ Len(tab) = Len(entries)
    <3>1. \A i \in 1 .. Len(entries) : tab[i] \in EntrySet
      BY <2>2, <2>3
    <3>2. tab \in [1 .. Len(entries) -> EntrySet]
      BY <2>1, <2>2, <2>3, <3>1
    <3>. QED
      BY <2>2, <3>2
  <2>5. \A i \in 1 .. Len(entries) : tab[i].url = entries[i].url
    BY <2>3
  <2>6. PICK k \in 1 .. Len(entries) : entries[k].url = u
    BY <1>2, <2>2 DEF InRam
  <2>7. e \in ToSet(tab)
    BY <2>3, <2>6 DEF ToSet
  <2>8. ASSUME NEW d \in ToSet(tab)
        PROVE  d = e \/ (d \in ToSet(entries) /\ d.url # u)
    <3>1. PICK i \in 1 .. Len(entries) : d = tab[i]
      BY <2>3 DEF ToSet
    <3>2. entries[i] \in ToSet(entries)
      BY <2>2 DEF ToSet
    <3>3. tab[i] = IF entries[i].url = u THEN e ELSE entries[i]
      BY <2>3
    <3>. QED
      BY <3>1, <3>2, <3>3
  <2>9. TableOK(tab)
    <3>1. Len(entries) <= MAX_ENTRIES
      BY DEF TableOK
    <3>2. \A i, j \in 1 .. Len(entries) : entries[i].url = entries[j].url => i = j
      BY <2>2 DEF TableOK
    <3>3. ASSUME NEW i \in DOMAIN tab, NEW j \in DOMAIN tab, tab[i].url = tab[j].url
          PROVE  i = j
      <4>1. i \in 1 .. Len(entries) /\ j \in 1 .. Len(entries)
        BY <2>3, Zenon
      <4>2. tab[i].url = entries[i].url /\ tab[j].url = entries[j].url
        BY <2>5, <4>1, Zenon
      <4>3. entries[i].url = entries[j].url
        BY <3>3, <4>2, Zenon
      <4>. QED
        BY <3>2, <4>1, <4>3, Zenon
    <3>. QED
      BY <2>4, <3>1, <3>3 DEF TableOK
  <2>. QED
    BY <2>7, <2>8, <2>9
<1>. QED
  BY <1>1, <1>2

\* mini_httpcache_store up to the files.
LEMMA StoreStep ==
    ASSUME CacheInv, NEW t \in Threads, Store(t)
    PROVE  CacheInv'
<1>. DEFINE u == th[t].url
            out == th[t].out
            e == Entry(u, out.body, out.ver, out.tagged, Until(out.cc))
<1>1. /\ UNCHANGED <<meta, bin, origin, now, faults, suspect, last>> /\ lock = Free /\ lock' = t
      /\ th[t].pc = "received" /\ th[t].get /\ out.status = 200
      /\ th' = [th EXCEPT ![t].pc = "save_meta"]
      /\ entries' = IF InRam(u) = {} THEN Put(e)
                    ELSE [i \in DOMAIN entries |->
                            IF entries[i].url = u THEN e ELSE entries[i]]
  BY DEF Store, disk, env
<1>2. /\ u \in Urls /\ th \in [Threads -> ThreadSet] /\ th[t] \in ThreadSet
      /\ out.body \in Bodies /\ out.tagged \in BOOLEAN
      /\ out.ver \in DOMAIN BodyLen[u] /\ now \in Nat /\ out.ver \in Versions
  <2>1. th[t].out \in Outs /\ u \in Urls
    BY <1>1, ThreadTypes
  <2>2. out.ver \in DOMAIN BodyLen[u] /\ th \in [Threads -> ThreadSet] /\ now \in Nat
    BY <1>1 DEF CacheInv, Fetching, Typed
  <2>. QED
    BY <2>1, <2>2, VersionFacts DEF Outs
<1>3. /\ e \in EntrySet /\ e.url = u /\ e.body = out.body /\ e.ver = out.ver
  <2>1. Until(out.cc) \in Nat
    BY <1>2, HttpCacheAssumption DEF Until
  <2>2. out.body \in [ver : Nat, len : Nat]
    BY <1>2, VersionNat DEF Bodies
  <2>. QED
    BY <1>2, <2>1, <2>2 DEF Entry, EntrySet
<1>. HIDE DEF e
<1>4. /\ TableOK(entries') /\ e \in ToSet(entries')
      /\ \A d \in ToSet(entries') : d = e \/ (d \in ToSet(entries) /\ d.url # u)
  <2>1. TableOK(entries)
    BY <1>1, KnownFacts
  <2>. QED
    BY <1>1, <1>3, <2>1, SlotFacts
<1>5. /\ th' \in [Threads -> ThreadSet] /\ \A s \in Threads \ {t} : th'[s] = th[s]
      /\ th'[t].pc = "save_meta" /\ th'[t].url = u /\ th'[t].out = out
      /\ th'[t].get = th[t].get /\ th'[t].cond = th[t].cond
  <2>1. th'[t] = [th[t] EXCEPT !.pc = "save_meta"]
    BY <1>1, <1>2
  <2>2. /\ th'[t] \in ThreadSet /\ th'[t].pc = "save_meta" /\ th'[t].url = u
        /\ th'[t].out = out /\ th'[t].get = th[t].get /\ th'[t].cond = th[t].cond
    BY <1>2, <2>1 DEF ThreadSet, Pcs
  <2>. QED
    BY <1>1, <1>2, <2>1, <2>2
<1>6. \A w \in Urls : \A d \in Ram(w)' : IF w = u THEN d = e ELSE d \in Ram(w)
  BY <1>3, <1>4 DEF Ram
<1>7. /\ \A s \in Threads : th[s].pc \notin {"save_meta", "save_bin"}
      /\ \A w \in Urls : ~Saving(w) /\ ~Writing(w)
  BY <1>1, KnownFacts
<1>8. /\ \A w \in Urls : (Saving(w)' <=> w = u) /\ ~Writing(w)'
      /\ \A s \in Threads, w \in Urls : Gets(s, w)' <=> Gets(s, w)
      /\ Gets(t, u)
  <2>1. \A w \in Urls : (Saving(w)' <=> w = u) /\ ~Writing(w)'
    BY <1>5, <1>7 DEF Saving, Writing
  <2>2. ASSUME NEW w \in Urls PROVE Gets(t, w)' <=> Gets(t, w)
    BY <1>1, <1>5 DEF Gets
  <2>3. \A s \in Threads, w \in Urls : Gets(s, w)' <=> Gets(s, w)
    BY <1>5, <2>2 DEF Gets
  <2>4. Gets(t, u)
    BY <1>1 DEF Gets
  <2>. QED
    BY <2>1, <2>3, <2>4
<1>9. Typed'
  <2>1. \A s \in Threads : th'[s].pc \in Pcs /\ th'[s].url \in Urls \cup {None}
    BY <1>5 DEF ThreadSet
  <2>2. TypeOK'
    BY <1>1, <1>4, <2>1 DEF CacheInv, Typed, TypeOK, TableOK
  <2>3. \A d \in ToSet(entries)' : d.body \in Bodies /\ d.ver \in DOMAIN BodyLen[d.url]
    BY <1>2, <1>3, <1>4 DEF CacheInv, Typed
  <2>. QED
    BY <1>1, <1>5, <2>2, <2>3 DEF CacheInv, Typed
<1>10. TableIsSound'
  <2>1. \E i \in DOMAIN entries' : entries'[i].url = u
    <3>1. PICK i \in 1 .. Len(entries') : entries'[i] = e
      BY <1>4 DEF ToSet, TableOK
    <3>. QED
      BY <1>3, <1>4, <3>1 DEF TableOK
  <2>2. \A s \in Threads : th'[s].pc \in {"save_meta", "save_bin"} =>
                             lock' = s /\ \E i \in DOMAIN entries' : entries'[i].url = th'[s].url
    <3>1. SUFFICES ASSUME NEW s \in Threads, th'[s].pc \in {"save_meta", "save_bin"}
                   PROVE  lock' = s /\ \E i \in DOMAIN entries' : entries'[i].url = th'[s].url
      OBVIOUS
    <3>2. s = t
      BY <1>5, <1>7, <3>1
    <3>3. lock' = t /\ th'[t].url = u
      BY <1>1, <1>5
    <3>. QED
      BY <2>1, <3>2, <3>3
  <2>. QED
    BY <1>4, <2>2 DEF TableIsSound, TableOK, InRam
<1>11. Fetching'
  <2>1. \A s \in Threads : th'[s].pc \in {"save_meta", "save_bin"} => s = t
    BY <1>5, <1>7
  <2>2. \E d \in ToSet(entries') : /\ d.url = th'[t].url /\ d.body = th'[t].out.body
                                   /\ d.ver = th'[t].out.ver
    BY <1>3, <1>4, <1>5
  <2>3. /\ th'[t].url \in Urls /\ th'[t].get /\ th'[t].out.status = 200
        /\ th'[t].out.ver \in DOMAIN BodyLen[th'[t].url]
    BY <1>1, <1>2, <1>5
  <2>4. ASSUME NEW s \in Threads, s # t
        PROVE  /\ th'[s].pc # "idle" => th'[s].url \in Urls
               /\ th'[s].pc = "answered" => /\ th'[s].cond = th'[s].out.ver
                                            /\ th'[s].out.status = 304
               /\ th'[s].out.status # 200 => th'[s].out.body = NoBytes
               /\ th'[s].pc \in {"answered", "received", "unlink_bin"}
                     => th'[s].out.ver \in DOMAIN BodyLen[th'[s].url]
               /\ th'[s].pc = "unlink_bin" => th'[s].get /\ th'[s].out.status = 200
    <3>1. th'[s] = th[s]
      BY <1>5, <2>4
    <3>. QED
      BY <3>1 DEF CacheInv, Fetching
  <2>5. th'[t].pc = "save_meta"
    BY <1>5
  <2>. QED
    BY <2>1, <2>2, <2>3, <2>4, <2>5 DEF Fetching
<1>12. Disk'
  <2>1. SUFFICES ASSUME NEW w \in Urls, Good(w)
                 PROVE  DiskWhole(w)' /\ \A d \in Ram(w)' : w # u => DiskIs(w, d)'
    BY <1>1, <1>8 DEF Disk, Good
  <2>2. DiskWhole(w) /\ \A d \in Ram(w) : DiskIs(w, d)
    BY <1>7, <2>1 DEF CacheInv, Disk
  <2>3. /\ DiskWhole(w) => DiskWhole(w)'
        /\ \A d : DiskIs(w, d) => DiskIs(w, d)'
    BY <1>1 DEF DiskWhole, DiskIs
  <2>. QED
    BY <1>6, <2>2, <2>3
<1>13. Responses'
  <2>1. SUFFICES ASSUME NEW w \in Urls \ suspect
                 PROVE  /\ \A d \in Ram(w)' : d.body \in ArrivedBody(w, d.ver)
                        /\ \/ meta[w] = NoMeta
                           \/ /\ Bytes(meta[w].ver, meta[w].len) \in ArrivedBody(w, meta[w].ver)
                              /\ meta[w].len = 0 \/ bin[w] = Bytes(meta[w].ver, meta[w].len)
                        /\ \A s \in Threads : Gets(s, w) =>
                             /\ th'[s].pc \in {"received", "unlink_bin", "save_meta", "save_bin"}
                                   /\ th'[s].out.status = 200
                                => th'[s].out.body \in ArrivedBody(w, th'[s].out.ver)
                             /\ th'[s].pc = "unlink_bin" => meta[w] = NoMeta
    BY <1>1, <1>8 DEF Responses
  <2>2. ASSUME NEW s \in Threads, Gets(s, w)
        PROVE  /\ th'[s].pc \in {"received", "unlink_bin", "save_meta", "save_bin"}
                     /\ th'[s].out.status = 200
                  => th'[s].out.body \in ArrivedBody(w, th'[s].out.ver)
               /\ th'[s].pc = "unlink_bin" => meta[w] = NoMeta
    <3>1. /\ th[s].pc \in {"received", "unlink_bin", "save_meta", "save_bin"}
                /\ th[s].out.status = 200 => th[s].out.body \in ArrivedBody(w, th[s].out.ver)
          /\ th[s].pc = "unlink_bin" => meta[w] = NoMeta
      BY <2>2 DEF CacheInv, Responses
    <3>. QED
      BY <1>1, <1>5, <3>1
  <2>3. ASSUME NEW d \in Ram(w)' PROVE d.body \in ArrivedBody(w, d.ver)
    <3>1. CASE w = u
      BY <1>1, <1>3, <1>6, <1>8, <2>3, <3>1 DEF CacheInv, Responses
    <3>2. CASE w # u
      BY <1>6, <2>3, <3>2 DEF CacheInv, Responses
    <3>. QED
      BY <3>1, <3>2
  <2>. QED
    BY <1>7, <2>2, <2>3 DEF CacheInv, Responses
<1>14. OneGet'
  <2>1. SUFFICES ASSUME NEW w \in Urls \ suspect, NEW s \in Threads, Gets(s, w)
                 PROVE  /\ \A p \in Threads : Gets(p, w) => p = s
                        /\ th'[s].pc \in {"request", "answered"} /\ th'[s].cond > 0 =>
                              /\ \A d \in Ram(w)' : d.ver = th'[s].cond
                              /\ meta[w] = NoMeta \/ meta[w].ver = th'[s].cond
                        /\ th'[s].pc \notin {"save_meta", "save_bin"} =>
                              /\ \A d \in Ram(w)' : d.until <= now
                              /\ meta[w] = NoMeta \/ meta[w].until <= now
    BY <1>1, <1>8 DEF OneGet
  <2>2. CASE s = t
    BY <1>5, <2>1, <2>2 DEF CacheInv, OneGet
  <2>3. CASE s # t
    <3>1. w # u
      BY <1>8, <2>1, <2>3, OnlyGet
    <3>2. \A d \in Ram(w)' : d \in Ram(w)
      BY <1>6, <3>1
    <3>. QED
      BY <1>5, <2>1, <2>3, <3>2 DEF CacheInv, OneGet
  <2>. QED
    BY <2>2, <2>3
<1>15. Current'
  <2>1. SUFFICES ASSUME NEW w \in Urls \ suspect
                 PROVE  /\ last[w] <= origin[w].ver
                        /\ \A d \in Ram(w)' : /\ d.ver <= origin[w].ver
                                              /\ last[w] <= d.ver \/ d.until <= now
                        /\ meta[w] = NoMeta \/ (meta[w].ver <= origin[w].ver
                               /\ (last[w] <= meta[w].ver \/ meta[w].until <= now))
                        /\ \A s \in Threads :
                             Gets(s, w) /\ th'[s].pc \in {"answered", "received", "unlink_bin", "save_meta", "save_bin"}
                             => last[w] <= th'[s].out.ver /\ th'[s].out.ver <= origin[w].ver
    BY <1>1, <1>8 DEF Current
  <2>2. ASSUME NEW s \in Threads, Gets(s, w),
               th'[s].pc \in {"answered", "received", "unlink_bin", "save_meta", "save_bin"}
        PROVE  last[w] <= th'[s].out.ver /\ th'[s].out.ver <= origin[w].ver
    <3>1. /\ th[s].pc \in {"answered", "received", "unlink_bin", "save_meta", "save_bin"}
          /\ th'[s].out.ver = th[s].out.ver
      BY <1>1, <1>5, <2>2
    <3>. QED
      BY <2>2, <3>1 DEF CacheInv, Current
  <2>3. w = u => last[w] <= e.ver /\ e.ver <= origin[w].ver
    BY <1>1, <1>3, <1>8 DEF CacheInv, Current
  <2>. QED
    BY <1>6, <2>2, <2>3 DEF CacheInv, Current
<1>. QED
  BY <1>9, <1>10, <1>11, <1>12, <1>13, <1>14, <1>15 DEF CacheInv

-----------------------------------------------------------------------------
(* Everything else, and the theorems.                                       *)

\* mini_httpcache_invalidate.
LEMMA InvalidateStep ==
    ASSUME CacheInv, NEW u \in Urls, Invalidate(u)
    PROVE  CacheInv'
<1>1. /\ UNCHANGED <<lock, th, origin, now, faults, suspect, last>> /\ lock = Free
      /\ meta' = [meta EXCEPT ![u] = NoMeta] /\ bin' = [bin EXCEPT ![u] = NoBin]
      /\ entries' = IF InRam(u) = {} THEN entries ELSE RemoveAt(entries, Slot(u))
  BY DEF Invalidate, env
<1>2. TableOK(entries)
  BY <1>1, KnownFacts
<1>3. TableOK(entries') /\ ToSet(entries') \subseteq ToSet(entries)
  <2>1. CASE InRam(u) = {}
    BY <1>1, <1>2, <2>1
  <2>2. CASE InRam(u) # {}
    <3>. DEFINE i == Slot(u)
                r == RemoveAt(entries, i)
                S == EntrySet
    <3>1. entries \in Seq(S) /\ Len(entries) \in Nat /\ Len(entries) <= MAX_ENTRIES
          /\ \A a, c \in 1 .. Len(entries) : entries[a].url = entries[c].url => a = c
      BY <1>2 DEF TableOK
    <3>2. i \in 1 .. Len(entries)
      BY <2>2, <3>1 DEF Slot, InRam
    <3>. HIDE DEF i, S
    <3>3. /\ r \in Seq(S) /\ Len(r) = Len(entries) - 1
          /\ \A a \in 1 .. Len(entries) - 1 : r[a] = IF a < i THEN entries[a] ELSE entries[a + 1]
      BY <3>1, <3>2, RemoveAtFacts
    <3>. HIDE DEF r
    <3>4. \A a \in 1 .. Len(entries) - 1 : a \in 1 .. Len(entries) /\ a + 1 \in 1 .. Len(entries)
      BY <3>1
    <3>5. ToSet(r) \subseteq ToSet(entries)
      <4>1. SUFFICES ASSUME NEW a \in 1 .. Len(entries) - 1 PROVE r[a] \in ToSet(entries)
        BY <3>3 DEF ToSet
      <4>2. \A c \in 1 .. Len(entries) : entries[c] \in ToSet(entries)
        BY <3>1 DEF ToSet
      <4>3. r[a] = entries[a] \/ r[a] = entries[a + 1]
        BY <3>3
      <4>. QED
        BY <3>4, <4>2, <4>3
    <3>6. ASSUME NEW a \in 1 .. Len(entries) - 1, NEW c \in 1 .. Len(entries) - 1,
                 r[a].url = r[c].url
          PROVE  a = c
      <4>1. PICK x \in 1 .. Len(entries) : r[a] = entries[x] /\ x = IF a < i THEN a ELSE a + 1
        BY <3>3, <3>4
      <4>2. PICK y \in 1 .. Len(entries) : r[c] = entries[y] /\ y = IF c < i THEN c ELSE c + 1
        BY <3>3, <3>4
      <4>3. x = y
        BY <3>1, <3>6, <4>1, <4>2, Zenon
      <4>4. a \in Int /\ c \in Int /\ i \in Int
        BY <3>1, <3>2
      <4>. QED
        BY <4>1, <4>2, <4>3, <4>4
    <3>7. TableOK(r)
      <4>1. Len(r) <= MAX_ENTRIES
        BY <3>1, <3>2, <3>3, HttpCacheAssumption
      <4>. QED
        BY <3>3, <3>6, <4>1 DEF TableOK, S
    <3>8. entries' = r
      BY <1>1, <2>2 DEF r, i
    <3>. QED
      BY <3>5, <3>7, <3>8
  <2>. QED
    BY <2>1, <2>2
<1>4. /\ meta \in [Urls -> {NoMeta} \cup MetaSet] /\ bin \in [Urls -> {NoBin} \cup Bodies]
      /\ bin \in [Urls -> {NoBin} \cup [ver : Nat, len : Nat]]
  BY DEF CacheInv, Typed, TypeOK
<1>5. /\ \A w \in Urls : \/ meta'[w] = NoMeta
                         \/ meta'[w] = meta[w] /\ bin'[w] = bin[w]
      /\ meta' \in [Urls -> {NoMeta} \cup MetaSet] /\ bin' \in [Urls -> {NoBin} \cup Bodies]
      /\ bin' \in [Urls -> {NoBin} \cup [ver : Nat, len : Nat]]
  BY <1>1, <1>4
<1>6. /\ \A w \in Urls : Ram(w)' \subseteq Ram(w)
      /\ \A w \in Urls : ~Saving(w) /\ ~Writing(w) /\ ~Saving(w)' /\ ~Writing(w)'
      /\ \A s \in Threads : th[s].pc \notin {"save_meta", "save_bin"}
      /\ \A s \in Threads, w \in Urls : Gets(s, w)' <=> Gets(s, w)
  <2>1. \A w \in Urls : Ram(w)' \subseteq Ram(w)
    BY <1>3 DEF Ram
  <2>2. \A s \in Threads : th[s].pc \notin {"save_meta", "save_bin"}
    BY <1>1, KnownFacts
  <2>3. \A w \in Urls : ~Saving(w) /\ ~Writing(w) /\ ~Saving(w)' /\ ~Writing(w)'
    BY <1>1, <2>2 DEF Saving, Writing
  <2>4. \A s \in Threads, w \in Urls : Gets(s, w)' <=> Gets(s, w)
    BY <1>1 DEF Gets
  <2>. QED
    BY <2>1, <2>2, <2>3, <2>4
<1>7. Typed'
  <2>1. TypeOK'
    BY <1>1, <1>3, <1>5 DEF CacheInv, Typed, TypeOK, TableOK
  <2>2. \A e \in ToSet(entries)' : e.body \in Bodies /\ e.ver \in DOMAIN BodyLen[e.url]
    BY <1>3 DEF CacheInv, Typed
  <2>3. \A w \in Urls : meta'[w] = NoMeta \/ meta'[w].ver \in DOMAIN BodyLen[w]
    BY <1>5 DEF CacheInv, Typed
  <2>. QED
    BY <1>1, <1>5, <2>1, <2>2, <2>3 DEF CacheInv, Typed
<1>8. TableIsSound'
  BY <1>1, <1>3, <1>6 DEF TableIsSound, TableOK
<1>9. Fetching'
  BY <1>1, <1>6 DEF CacheInv, Fetching
<1>10. Disk'
  <2>1. \A w \in Urls : /\ Good(w)' <=> Good(w)
                        /\ DiskWhole(w) => DiskWhole(w)'
                        /\ \A e : DiskIs(w, e) => DiskIs(w, e)'
    BY <1>1, <1>5 DEF Good, DiskWhole, DiskIs
  <2>. QED
    BY <1>6, <2>1 DEF CacheInv, Disk
<1>11. Responses'
  BY <1>1, <1>5, <1>6 DEF CacheInv, Responses
<1>12. OneGet'
  BY <1>1, <1>5, <1>6 DEF CacheInv, OneGet
<1>13. Current'
  BY <1>1, <1>5, <1>6 DEF CacheInv, Current
<1>. QED
  BY <1>7, <1>8, <1>9, <1>10, <1>11, <1>12, <1>13 DEF CacheInv

\* The process dies and starts again with the files it left.
LEMMA CrashStep ==
    ASSUME CacheInv, Crash
    PROVE  CacheInv'
<1>1. /\ entries' = <<>> /\ lock' = Free /\ th' = [t \in Threads |-> Idle]
      /\ faults' = faults + 1 /\ UNCHANGED <<origin, now, last>>
      /\ suspect' = suspect \cup {th[t].url : t \in {s \in Threads : th[s].pc = "save_bin"}}
  BY DEF Crash
<1>2. /\ meta \in [Urls -> {NoMeta} \cup MetaSet] /\ bin \in [Urls -> {NoBin} \cup Bodies]
      /\ suspect \subseteq Urls /\ faults \in Nat
      /\ \A u \in Urls : meta[u] = NoMeta \/ meta[u].ver \in DOMAIN BodyLen[u]
  BY DEF CacheInv, Typed, TypeOK
<1>3. \A t \in Threads : th[t].pc = "save_bin" => th[t].url \in suspect' /\ th[t].url \in Urls
  <2>1. \A t \in Threads : th[t].pc = "save_bin" => th[t].url \in suspect'
    BY <1>1
  <2>. QED
    BY <2>1, ThreadTypes
<1>4. suspect' \subseteq Urls /\ suspect \subseteq suspect' /\ faults' \in Nat /\ faults' # 0
  BY <1>1, <1>2, <1>3
<1>5. /\ meta' \in [Urls -> {NoMeta} \cup MetaSet] /\ bin' \in [Urls -> {NoBin} \cup Bodies]
      /\ \A u \in Urls : meta'[u] = meta[u] \/ meta'[u] = NoMeta
      /\ \A u \in Urls \ suspect' : bin'[u] = bin[u]
  <2>1. CASE UNCHANGED disk
    BY <1>2, <2>1 DEF disk
  <2>2. CASE \E t \in Threads : /\ th[t].pc = "save_meta"
                                /\ meta' = [meta EXCEPT ![th[t].url] = NoMeta]
                                /\ UNCHANGED bin
    BY <1>2, <2>2
  <2>3. CASE \E t \in Threads : /\ th[t].pc = "save_bin"
                                /\ \E n \in 0 .. Saved(t).body.len - 1 :
                                     bin' = [bin EXCEPT ![th[t].url] =
                                               Bytes(Saved(t).body.ver, n)]
                                /\ UNCHANGED meta
    <3>1. PICK t \in Threads : /\ th[t].pc = "save_bin"
                               /\ \E n \in 0 .. Saved(t).body.len - 1 :
                                     bin' = [bin EXCEPT ![th[t].url] =
                                               Bytes(Saved(t).body.ver, n)]
                               /\ UNCHANGED meta
      BY <2>3
    <3>2. Saved(t).body = th[t].out.body /\ th[t].out.body \in Bodies
      BY <3>1, SavedFacts, ThreadTypes
    <3>3. Saved(t).body.len \in Nat /\ Saved(t).body.ver \in {0} \cup Versions
      BY <3>2 DEF Bodies
    <3>4. PICK n \in 0 .. Saved(t).body.len - 1 :
             bin' = [bin EXCEPT ![th[t].url] = Bytes(Saved(t).body.ver, n)]
      BY <3>1
    <3>. DEFINE b == Bytes(Saved(t).body.ver, n)
    <3>5. b \in Bodies
      <4>1. n \in Nat
        BY <3>3
      <4>. QED
        BY <3>3, <4>1 DEF Bytes, Bodies
    <3>6. bin' = [bin EXCEPT ![th[t].url] = b]
      BY <3>4
    <3>. HIDE DEF b
    <3>. QED
      BY <1>2, <1>3, <3>1, <3>5, <3>6
  <2>. QED
    BY <2>1, <2>2, <2>3 DEF Crash
<1>6. /\ \A s \in Threads : th'[s] = Idle
      /\ Idle \in ThreadSet /\ Idle.pc = "idle" /\ Idle.out.body = NoBytes
  <2>1. Idle \in ThreadSet /\ Idle.pc = "idle" /\ Idle.out.body = NoBytes
    BY VersionFacts DEF Idle, ThreadSet, Pcs, Nothing
  <2>. QED
    BY <1>1, <2>1
<1>7. TableOK(entries') /\ ToSet(entries') = {}
  BY <1>1, EmptyFacts, HttpCacheAssumption DEF TableOK
<1>8. /\ \A w \in Urls : Ram(w)' = {} /\ ~Writing(w)' /\ ~Saving(w)'
      /\ \A s \in Threads, w \in Urls : ~Gets(s, w)'
      /\ \A w \in Urls \ suspect' : ~Writing(w)
  <2>1. \A w \in Urls : Ram(w)' = {}
    BY <1>7 DEF Ram
  <2>2. \A w \in Urls : ~Writing(w)' /\ ~Saving(w)'
    BY <1>6 DEF Writing, Saving
  <2>3. \A s \in Threads, w \in Urls : ~Gets(s, w)'
    BY <1>6 DEF Gets
  <2>4. \A w \in Urls \ suspect' : ~Writing(w)
    BY <1>3 DEF Writing
  <2>. QED
    BY <2>1, <2>2, <2>3, <2>4
<1>9. Typed'
  <2>1. th' \in [Threads -> ThreadSet]
    BY <1>1, <1>6
  <2>2. \A s \in Threads : th'[s].pc \in Pcs /\ th'[s].url \in Urls \cup {None}
    BY <2>1 DEF ThreadSet
  <2>3. bin' \in [Urls -> {NoBin} \cup [ver : Nat, len : Nat]]
    <3>1. \A x \in Bodies : x \in [ver : Nat, len : Nat]
      BY VersionNat DEF Bodies
    <3>. QED
      BY <1>5, <3>1
  <2>4. TypeOK'
    BY <1>1, <1>4, <1>5, <1>7, <2>2, <2>3 DEF CacheInv, Typed, TypeOK, TableOK
  <2>5. \A w \in Urls : meta'[w] = NoMeta \/ meta'[w].ver \in DOMAIN BodyLen[w]
    BY <1>2, <1>5
  <2>6. ToSet(entries)' = {}
    BY <1>7
  <2>. QED
    BY <1>1, <1>4, <1>5, <2>1, <2>4, <2>5, <2>6 DEF CacheInv, Typed
<1>10. TableIsSound'
  BY <1>6, <1>7 DEF TableIsSound, TableOK
<1>11. Fetching'
  BY <1>6 DEF Fetching
<1>12. Disk'
  <2>1. SUFFICES ASSUME NEW w \in Urls, Good(w)' PROVE DiskWhole(w)'
    BY <1>8 DEF Disk
  <2>2. w \in Urls \ suspect' /\ Good(w)
    BY <1>4, <2>1 DEF Good
  <2>3. DiskWhole(w)
    BY <1>8, <2>2 DEF CacheInv, Disk
  <2>. QED
    BY <1>5, <2>2, <2>3 DEF DiskWhole
<1>13. Responses'
  <2>1. SUFFICES ASSUME NEW w \in Urls \ suspect'
                 PROVE  \/ meta'[w] = NoMeta
                        \/ /\ Bytes(meta'[w].ver, meta'[w].len) \in ArrivedBody(w, meta'[w].ver)
                           /\ meta'[w].len = 0 \/ bin'[w] = Bytes(meta'[w].ver, meta'[w].len)
    BY <1>8 DEF Responses
  <2>2. \/ meta[w] = NoMeta
        \/ /\ Bytes(meta[w].ver, meta[w].len) \in ArrivedBody(w, meta[w].ver)
           /\ meta[w].len = 0 \/ bin[w] = Bytes(meta[w].ver, meta[w].len)
    BY <1>4, <1>8 DEF CacheInv, Responses
  <2>3. bin'[w] = bin[w] /\ (meta'[w] = meta[w] \/ meta'[w] = NoMeta)
    BY <1>5
  <2>. QED
    BY <2>2, <2>3
<1>14. OneGet'
  BY <1>8 DEF OneGet
<1>15. Current'
  BY <1>1, <1>4, <1>5, <1>8 DEF CacheInv, Current
<1>. QED
  BY <1>9, <1>10, <1>11, <1>12, <1>13, <1>14, <1>15 DEF CacheInv

\* The clock and the origin move on.
LEMMA OutsideStep ==
    ASSUME CacheInv, \/ UNCHANGED vars \/ Tick \/ \E u \in Urls : Publish(u)
    PROVE  CacheInv'
<1>1. UNCHANGED <<entries, meta, bin, lock, th, faults, suspect, last>>
  BY DEF vars, Tick, Publish, disk
<1>2. /\ now' \in Nat /\ now <= now' /\ now \in Nat
      /\ origin' \in [Urls -> [ver : Versions, tagged : BOOLEAN, cc : CacheControls]]
      /\ \A w \in Urls : /\ origin'[w].ver \in DOMAIN BodyLen[w]
                         /\ origin[w].ver <= origin'[w].ver
                         /\ origin[w].ver \in Nat /\ origin'[w].ver \in Nat
  <2>1. /\ now \in Nat
        /\ origin \in [Urls -> [ver : Versions, tagged : BOOLEAN, cc : CacheControls]]
        /\ \A w \in Urls : origin[w].ver \in DOMAIN BodyLen[w] /\ origin[w].ver \in Nat
    BY NumberTypes DEF CacheInv, Typed
  <2>2. CASE UNCHANGED vars
    BY <2>1, <2>2 DEF vars
  <2>3. CASE Tick
    BY <2>1, <2>3 DEF Tick
  <2>4. CASE \E u \in Urls : Publish(u)
    <3>1. PICK u \in Urls : Publish(u)
      BY <2>4
    <3>2. PICK h \in Headers[u] :
             origin' = [origin EXCEPT ![u] = [ver |-> origin[u].ver + 1, tagged |-> h.tagged,
                                              cc |-> h.cc]]
      BY <3>1 DEF Publish
    <3>3. h.tagged \in BOOLEAN /\ h.cc \in CacheControls
      <4>1. Headers[u] \subseteq [tagged : BOOLEAN, cc : CacheControls]
        BY HttpCacheAssumption DEF CacheControls
      <4>. QED
        BY <4>1
    <3>4. /\ origin[u].ver + 1 \in DOMAIN BodyLen[u] /\ origin[u].ver + 1 \in Versions
          /\ now' = now
      BY <3>1, VersionFacts DEF Publish
    <3>. DEFINE r == [ver |-> origin[u].ver + 1, tagged |-> h.tagged, cc |-> h.cc]
    <3>5. r \in [ver : Versions, tagged : BOOLEAN, cc : CacheControls] /\ r.ver = origin[u].ver + 1
      BY <3>3, <3>4
    <3>. HIDE DEF r
    <3>6. origin' = [origin EXCEPT ![u] = r]
      BY <3>2 DEF r
    <3>7. \A w \in Urls : origin'[w] = IF w = u THEN r ELSE origin[w]
      BY <2>1, <3>6
    <3>8. origin' \in [Urls -> [ver : Versions, tagged : BOOLEAN, cc : CacheControls]]
      BY <2>1, <3>5, <3>6
    <3>. QED
      BY <2>1, <3>4, <3>5, <3>7, <3>8
  <2>. QED
    BY <2>2, <2>3, <2>4
<1>3. /\ \A w \in Urls : /\ Ram(w)' = Ram(w) /\ (Saving(w)' <=> Saving(w))
                         /\ (Writing(w)' <=> Writing(w)) /\ (Good(w)' <=> Good(w))
                         /\ (DiskWhole(w)' <=> DiskWhole(w))
                         /\ \A e : DiskIs(w, e)' <=> DiskIs(w, e)
      /\ \A s \in Threads, w \in Urls : Gets(s, w)' <=> Gets(s, w)
  BY <1>1 DEF Ram, Saving, Writing, Good, DiskWhole, DiskIs, Gets
<1>4. \A w \in Urls : \A e \in Ram(w) : e.ver \in Nat /\ e.until \in Nat
  <2>1. \A e \in ToSet(entries) : e \in EntrySet
    BY DEF CacheInv, Typed, TypeOK, ToSet
  <2>. QED
    BY <2>1, VersionNat DEF Ram, EntrySet
<1>5. \A w \in Urls : meta[w] # NoMeta => meta[w].ver \in Nat /\ meta[w].until \in Nat
  BY NumberTypes
<1>6. \A w \in Urls : last[w] \in Nat
  BY NumberTypes
<1>7. \A s \in Threads : th[s].out.ver \in Nat
  BY ThreadTypes
<1>8. Typed'
  <2>1. TypeOK'
    BY <1>1 DEF CacheInv, Typed, TypeOK
  <2>. QED
    BY <1>1, <1>2, <2>1 DEF CacheInv, Typed
<1>9. TableIsSound' /\ Fetching'
  BY <1>1 DEF CacheInv, TableIsSound, Fetching, InRam
<1>10. Disk'
  BY <1>1, <1>3 DEF CacheInv, Disk
<1>11. Responses'
  BY <1>1, <1>3 DEF CacheInv, Responses
<1>12. OneGet'
  BY <1>1, <1>2, <1>3, <1>4, <1>5 DEF CacheInv, OneGet
<1>13. Current'
  <2>1. SUFFICES ASSUME NEW w \in Urls \ suspect
                 PROVE  /\ last[w] <= origin'[w].ver
                        /\ \A d \in Ram(w) : /\ d.ver <= origin'[w].ver
                                             /\ last[w] <= d.ver \/ d.until <= now'
                        /\ meta[w] = NoMeta \/ (meta[w].ver <= origin'[w].ver
                               /\ (last[w] <= meta[w].ver \/ meta[w].until <= now'))
                        /\ \A s \in Threads :
                             Gets(s, w) /\ th[s].pc \in {"answered", "received", "unlink_bin", "save_meta", "save_bin"}
                             => last[w] <= th[s].out.ver /\ th[s].out.ver <= origin'[w].ver
    BY <1>1, <1>3 DEF Current
  <2>2. /\ last[w] <= origin[w].ver
        /\ \A d \in Ram(w) : d.ver <= origin[w].ver /\ (last[w] <= d.ver \/ d.until <= now)
        /\ meta[w] = NoMeta \/ (meta[w].ver <= origin[w].ver
                                /\ (last[w] <= meta[w].ver \/ meta[w].until <= now))
        /\ \A s \in Threads :
             Gets(s, w) /\ th[s].pc \in {"answered", "received", "unlink_bin", "save_meta", "save_bin"}
             => last[w] <= th[s].out.ver /\ th[s].out.ver <= origin[w].ver
    BY DEF CacheInv, Current
  <2>. QED
    BY <1>2, <1>4, <1>5, <1>6, <1>7, <2>2
<1>. QED
  BY <1>8, <1>9, <1>10, <1>11, <1>12, <1>13 DEF CacheInv

\* The cache starts in the invariant.
LEMMA InitStep ==
    ASSUME Init
    PROVE  CacheInv
<1>1. /\ entries = <<>> /\ lock = Free /\ th = [t \in Threads |-> Idle]
      /\ meta = [u \in Urls |-> NoMeta] /\ bin = [u \in Urls |-> NoBin]
      /\ now = 0 /\ faults = 0 /\ suspect = {} /\ last = [u \in Urls |-> 0]
  BY DEF Init
<1>2. /\ origin \in [Urls -> [ver : Versions, tagged : BOOLEAN, cc : CacheControls]]
      /\ \A u \in Urls : origin[u].ver = 1 /\ origin[u].ver \in DOMAIN BodyLen[u]
  <2>1. PICK h \in [Urls -> UNION Range(Headers)] :
          /\ \A u \in Urls : h[u] \in Headers[u]
          /\ origin = [u \in Urls |-> [ver |-> 1, tagged |-> h[u].tagged, cc |-> h[u].cc]]
    BY DEF Init
  <2>2. ASSUME NEW u \in Urls
        PROVE  /\ 1 \in DOMAIN BodyLen[u] /\ 1 \in Versions
               /\ h[u].tagged \in BOOLEAN /\ h[u].cc \in CacheControls
    <3>1. BodyLen[u] \in Seq(Nat) /\ BodyLen[u] # <<>>
      BY HttpCacheAssumption
    <3>2. 1 \in DOMAIN BodyLen[u]
      BY <3>1
    <3>3. Headers[u] \subseteq [tagged : BOOLEAN, cc : CacheControls]
      BY HttpCacheAssumption DEF CacheControls
    <3>4. h[u] \in [tagged : BOOLEAN, cc : CacheControls]
      BY <2>1, <3>3
    <3>. QED
      BY <3>2, <3>4, VersionFacts
  <2>. QED
    BY <2>1, <2>2
<1>3. Idle \in ThreadSet /\ Idle.pc = "idle" /\ Idle.out.body = NoBytes
  BY VersionFacts DEF Idle, ThreadSet, Pcs, Nothing
<1>4. \A s \in Threads : th[s] = Idle
  BY <1>1
<1>5. /\ entries \in Seq(EntrySet) /\ ToSet(entries) = {} /\ Len(entries) = 0
      /\ \A i \in DOMAIN entries : FALSE
  BY <1>1, EmptyFacts
<1>6. /\ \A w \in Urls : Ram(w) = {} /\ meta[w] = NoMeta
      /\ \A s \in Threads, w \in Urls : ~Gets(s, w)
  BY <1>1, <1>3, <1>4, <1>5 DEF Ram, Gets
<1>7. Typed
  <2>1. TypeOK
    BY <1>1, <1>3, <1>5 DEF TypeOK, ThreadSet
  <2>. QED
    BY <1>1, <1>2, <1>3, <1>5, <2>1 DEF Typed
<1>8. TableIsSound
  BY <1>3, <1>4, <1>5, HttpCacheAssumption DEF TableIsSound
<1>9. Fetching
  BY <1>3, <1>4 DEF Fetching
<1>10. Disk /\ Responses /\ OneGet
  BY <1>6 DEF Disk, Responses, OneGet, DiskWhole
<1>11. Current
  BY <1>1, <1>2, <1>6 DEF Current
<1>. QED
  BY <1>7, <1>8, <1>9, <1>10, <1>11 DEF CacheInv

\* A step, and what it gives to the callers of GETs.
LEMMA NextStep ==
    ASSUME CacheInv, [Next]_vars
    PROVE  CacheInv' /\ \A w \in Urls \ suspect' : last'[w] >= last[w]
<1>0. ASSUME last' = last PROVE \A w \in Urls \ suspect' : last'[w] >= last[w]
  <2>1. \A w \in Urls : last[w] \in Nat
    BY NumberTypes
  <2>. QED
    BY <1>0, <2>1
<1>1. ASSUME NEW t \in Threads, Step(t)
      PROVE  CacheInv' /\ \A w \in Urls \ suspect' : last'[w] >= last[w]
  <2>1. CASE \E u \in Urls, get \in BOOLEAN : Fetch(t, u, get)
    BY <2>1, FetchStep
  <2>2. CASE ConditionalHeaders(t)
    BY <1>0, <2>2, ConditionalStep DEF ConditionalHeaders
  <2>3. CASE Answer(t)
    <3>1. last' = last
      BY <2>3 DEF Answer
    <3>. QED
      BY <1>0, <2>3, <3>1, AnswerStep
  <2>4. CASE NotModified(t)
    <3>1. last' = last
      BY <2>4 DEF NotModified
    <3>. QED
      BY <1>0, <2>4, <3>1, NotModifiedStep
  <2>5. CASE ReturnUnstored(t)
    BY <2>5, UnstoredStep
  <2>6. CASE StoreNoStore(t)
    BY <1>0, <2>6, NoStoreStep DEF StoreNoStore
  <2>7. CASE UnlinkBin(t)
    BY <2>7, UnlinkBinStep
  <2>8. CASE Store(t)
    BY <1>0, <2>8, StoreStep DEF Store
  <2>9. CASE SaveMeta(t)
    BY <1>0, <2>9, SaveMetaStep DEF SaveMeta
  <2>10. CASE SaveBin(t)
    BY <2>10, SaveBinStep
  <2>. QED
    BY <1>1, <2>1, <2>2, <2>3, <2>4, <2>5, <2>6, <2>7, <2>8, <2>9, <2>10 DEF Step
<1>2. CASE Clear
  BY <1>0, <1>2, ClearStep DEF Clear
<1>3. ASSUME NEW u \in Urls, Invalidate(u)
      PROVE  CacheInv' /\ \A w \in Urls \ suspect' : last'[w] >= last[w]
  BY <1>0, <1>3, InvalidateStep DEF Invalidate
<1>4. CASE Crash
  BY <1>0, <1>4, CrashStep DEF Crash
<1>5. CASE \/ UNCHANGED vars \/ Tick \/ \E u \in Urls : Publish(u)
  BY <1>0, <1>5, OutsideStep DEF vars, Tick, Publish
<1>. QED
  BY <1>1, <1>2, <1>3, <1>4, <1>5 DEF Next

\* The inductive invariant of the cache.
THEOREM CacheInvariant == Spec => []CacheInv
<1>1. Init => CacheInv
  BY InitStep
<1>2. CacheInv /\ [Next]_vars => CacheInv'
  BY NextStep
<1>. QED
  BY <1>1, <1>2, PTL DEF Spec

\* The table holds no URL twice and never overflows, the slot a thread is
\* writing to disk stays its, and as long as no file operation failed what a
\* later look-up would read from the files of an evicted entry is that entry
\* (find_idx, mini_httpcache_store, mini_httpcache_load_from_disk).
THEOREM CacheSoundCorrect == Spec => []CacheIsSound
<1>1. CacheInv => CacheIsSound
  <2>1. SUFFICES ASSUME CacheInv PROVE DiskFollowsTable
    BY DEF CacheInv, CacheIsSound, Typed
  <2>2. SUFFICES ASSUME faults = 0, NEW u \in Urls, NEW i \in InRam(u),
                        \A t \in Threads : th[t].pc \in {"save_meta", "save_bin"} => th[t].url # u,
                        LoadFromDisk(u) # <<>>
                 PROVE  LoadFromDisk(u) = <<entries[i]>>
    BY DEF DiskFollowsTable
  <2>. DEFINE e == entries[i]
  <2>3. e \in Ram(u) /\ e \in EntrySet /\ e.url = u /\ e.body \in Bodies
    <3>1. e \in ToSet(entries) /\ e.url = u
      BY <2>2 DEF InRam, ToSet
    <3>2. e \in EntrySet
      BY <2>1, <3>1 DEF CacheInv, Typed, TypeOK, ToSet
    <3>. QED
      BY <2>1, <3>1, <3>2 DEF Ram, CacheInv, Typed
  <2>. HIDE DEF e
  <2>4. ~Saving(u) /\ ~Writing(u) /\ Good(u)
    BY <2>2 DEF Saving, Writing, Good
  <2>5. DiskIs(u, e)
    BY <2>1, <2>3, <2>4 DEF CacheInv, Disk
  <2>6. PICK d \in EntrySet :
              /\ LoadFromDisk(u) = <<d>>
              /\ d.url = u /\ d.body \in Bodies
              /\ meta[u] # NoMeta
              /\ d.ver = meta[u].ver /\ d.tagged = meta[u].tagged
              /\ d.until = meta[u].until
              /\ meta[u].len = 0 => d.body = NoBytes
              /\ meta[u].len # 0 => /\ bin[u] # NoBin
                                    /\ bin[u].len = meta[u].len => d.body = bin[u]
    BY <2>1, <2>2, LoadFacts DEF CacheInv
  <2>7. /\ meta[u].ver = e.ver /\ meta[u].tagged = e.tagged /\ meta[u].until = e.until
        /\ meta[u].len = e.body.len /\ (e.body.len = 0 \/ bin[u] = e.body \/ bin[u] = NoBin)
    BY <2>5, <2>6 DEF DiskIs, MetaOf
  <2>8. d.body = e.body
    <3>1. CASE e.body.len = 0
      BY <2>3, <2>6, <2>7, <3>1 DEF Bodies, NoBytes, Bytes
    <3>2. CASE e.body.len # 0
      BY <2>6, <2>7, <3>2
    <3>. QED
      BY <3>1, <3>2
  <2>9. d = e
    BY <2>3, <2>6, <2>7, <2>8 DEF EntrySet
  <2>. QED
    BY <2>6, <2>9 DEF e
<1>. QED
  BY <1>1, CacheInvariant, PTL

\* An entry, in memory or as a restart would read it, is what arrived of the body
\* of the version its validators belong to, the whole of it unless a response of
\* that version ended too early (mini_net_http), and unless GETs of the URL
\* overlapped, a file could not be opened or a save was cut off.
THEOREM OneResponseCorrect == Spec => []EntryIsOneResponse
<1>1. CacheInv => EntryIsOneResponse
  <2>1. SUFFICES ASSUME CacheInv, NEW u \in Urls \ suspect
                 PROVE  /\ \A i \in InRam(u) : entries[i].body \in ArrivedBody(u, entries[i].ver)
                        /\ (\A t \in Threads : th[t].pc = "save_bin" => th[t].url # u) =>
                              \A i \in DOMAIN LoadFromDisk(u) :
                                 LoadFromDisk(u)[i].body \in ArrivedBody(u, LoadFromDisk(u)[i].ver)
    BY DEF EntryIsOneResponse
  <2>2. ASSUME NEW i \in InRam(u) PROVE entries[i].body \in ArrivedBody(u, entries[i].ver)
    <3>1. entries[i] \in Ram(u)
      BY <2>2 DEF InRam, Ram, ToSet
    <3>. QED
      BY <2>1, <3>1 DEF CacheInv, Responses
  <2>3. ASSUME \A t \in Threads : th[t].pc = "save_bin" => th[t].url # u,
               NEW i \in DOMAIN LoadFromDisk(u)
        PROVE  LoadFromDisk(u)[i].body \in ArrivedBody(u, LoadFromDisk(u)[i].ver)
    <3>1. ~Writing(u)
      BY <2>3 DEF Writing
    <3>2. LoadFromDisk(u) # <<>>
      BY <2>3
    <3>3. PICK d \in EntrySet :
                /\ LoadFromDisk(u) = <<d>> /\ meta[u] # NoMeta /\ meta[u] \in MetaSet
                /\ d.ver = meta[u].ver /\ d.ver \in DOMAIN BodyLen[u]
                /\ meta[u].len = 0 => d.body = NoBytes
                /\ meta[u].len # 0 => (bin[u].len = meta[u].len => d.body = bin[u])
      BY <2>1, <3>2, LoadFacts DEF CacheInv
    <3>4. /\ Bytes(meta[u].ver, meta[u].len) \in ArrivedBody(u, meta[u].ver)
          /\ meta[u].len = 0 \/ bin[u] = Bytes(meta[u].ver, meta[u].len)
      BY <2>1, <3>1, <3>3 DEF CacheInv, Responses
    <3>5. d.body \in ArrivedBody(u, d.ver)
      <4>1. CASE meta[u].len = 0
        BY <3>3, <3>4, <4>1 DEF NoBytes, Bytes
      <4>2. CASE meta[u].len # 0
        BY <3>3, <3>4, <4>2 DEF Bytes
      <4>. QED
        BY <4>1, <4>2
    <3>6. i = 1
      BY <2>3, <3>3
    <3>. QED
      BY <3>3, <3>5, <3>6
  <2>. QED
    BY <2>2, <2>3
<1>. QED
  BY <1>1, CacheInvariant, PTL

\* The body the 304 branch copies is the one the validator of the GET came with,
\* as far as that response had arrived (mini_net_fetch), unless GETs of the URL
\* overlapped, a file could not be opened or a save was cut off.
THEOREM NotModifiedCorrect == Spec => []NotModifiedMeansThisBody
<1>1. CacheInv => NotModifiedMeansThisBody
  <2>1. SUFFICES ASSUME CacheInv, NEW t \in Threads, th[t].pc = "received", th[t].get,
                        th[t].out.status = 200, th[t].url \notin suspect
                 PROVE  th[t].out.body \in ArrivedBody(th[t].url, th[t].out.ver)
    BY DEF NotModifiedMeansThisBody
  <2>2. th[t].url \in Urls \ suspect
    BY <2>1, ThreadTypes
  <2>3. Gets(t, th[t].url)
    BY <2>1 DEF Gets
  <2>. QED
    BY <2>1, <2>2, <2>3 DEF CacheInv, Responses
<1>. QED
  BY <1>1, CacheInvariant, PTL

\* No step gives a GET an older version of its URL than the GET before it was
\* given, across evictions, restarts, clearCache and unstored responses.
THEOREM ReadsCorrect == Spec => ReadsNeverGoBack
<1>1. CacheInv /\ [Next]_vars => [\A u \in Urls \ suspect' : last'[u] >= last[u]]_vars
  BY NextStep
<1>. QED
  BY <1>1, CacheInvariant, PTL DEF Spec, ReadsNeverGoBack

-----------------------------------------------------------------------------
(* The WebSocket client.  WsInv is inductive: the stream and the places in   *)
(* it (WireInv), what the state of the handle says of the pump and of the    *)
(* ends told (LifeInv, EndInv), onopen (OpenInv), and that frag holds the    *)
(* fragments of the message that is not complete after the last frame        *)
(* handled, if there is one (FragInv).  Out of step (skip > 0) there are no  *)
(* frames to speak of, and what is left are the types and the events.        *)

Arrived == [op : {"TEXT", "BIN", "CONT", "CLOSE", "PING", "PONG"}, fin : BOOLEAN, end : Nat]
Told == [type : {"open", "message", "close", "error"}, frames : Seq(Nat)]
Fragments == Data \cup {"CONT"}

WsTypes ==
    /\ sent \in Seq(Arrived) /\ peer \in {"up", "eof", "reset"}
    /\ state \in {"none", "OPEN", "CLOSING", "CLOSED"}
    /\ pc \in {"idle", "recv", "decode", "sweep", "corrupt"} /\ skip \in Nat
    /\ alive \in BOOLEAN /\ inScript \in BOOLEAN /\ opened \in BOOLEAN
    /\ rlen \in 0 .. RBUF /\ handled \in 0 .. Len(sent) /\ swallowed \in 0 .. handled
    /\ frag \in Seq(IF skip > 0 THEN {0} ELSE 1 .. handled) /\ evs \in Seq(Told) /\ told \in BOOLEAN

\* The stream: a frame ends after the ones before it, and a close frame is the last.
WireInv ==
    /\ \A i, j \in 1 .. Len(sent) : i <= j => sent[i].end <= sent[j].end
    /\ \A k \in 1 .. Len(sent) : sent[k].op = "CLOSE" => k = Len(sent)
    /\ Unread >= 0

\* Before the handshake there is nothing; a pump runs on a live handle; a closed
\* connection has told the script, unless the bridge destroyed it.
LifeInv ==
    /\ state = "none" => /\ ~alive /\ pc = "idle" /\ handled = 0 /\ rlen = 0 /\ skip = 0
                         /\ frag = <<>> /\ evs = <<>> /\ ~opened
    /\ pc # "idle" => alive
    /\ state = "CLOSED" => Ends # <<>> \/ (pc = "idle" /\ ~alive)

\* After an end the pump only sweeps, or has handled the close frame that is the
\* last frame and reads on, or is out of step.
EndInv ==
    /\ Ends # <<>> =>
          /\ state = "CLOSED"
          /\ pc \in {"sweep", "idle"} \/ (PeerClosed /\ handled = Len(sent)) \/ skip > 0
    /\ pc \in {"recv", "decode"} => /\ skip = 0 => Len(Ends) <= 1
                                    /\ \A n \in 1 .. Len(Ends) : Ends[n].type = "close"
    /\ skip = 0 => Len(Ends) <= (IF PeerClosed /\ peer = "eof" THEN 2 ELSE 1)
    /\ Len(Ends) > 1 => \A n \in 1 .. Len(Ends) : Ends[n].type = "close"

\* onopen comes first or never.
OpenInv ==
    /\ opened => evs # <<>> /\ evs[1].type = "open"
    /\ ~opened /\ state = "OPEN" => evs = <<>> /\ pc = "idle"
    /\ \A n \in 1 .. Len(evs) : evs[n].type = "open" => n = 1 /\ opened

\* A message that began with frame i is not complete after frame h.
Unfinished(i, h) ==
    /\ sent[i].op \in Data
    /\ \A k \in i + 1 .. h : sent[k].op \notin Data
    /\ \A k \in i .. h : sent[k].op \in Fragments => ~sent[k].fin

\* The fragments from frame i on, and every frame by its place.
PartsSince(i) == {k \in i .. Len(sent) : sent[k].op \in Fragments}
Places == [k \in 1 .. Len(sent) |-> k]

\* The fragments kept are those of the unfinished message in the frames handled.
FragInv ==
  skip = 0 =>
    /\ frag = <<>> => \A i \in swallowed + 1 .. handled : ~Unfinished(i, handled)
    /\ frag # <<>> => \E i \in swallowed + 1 .. handled :
                        /\ Unfinished(i, handled)
                        /\ frag = Collected(swallowed, handled, PartsSince(i), Places)

WsInv == WsTypes /\ WireInv /\ LifeInv /\ EndInv /\ OpenInv /\ FragInv

-----------------------------------------------------------------------------

\* The fields of the frames and the positions in the stream.
LEMMA SentTypes ==
    ASSUME WsTypes
    PROVE  /\ Len(sent) \in Nat /\ handled \in Nat /\ handled <= Len(sent)
           /\ swallowed \in Nat /\ swallowed <= handled /\ RBUF \in Nat /\ rlen \in Nat
           /\ \A k \in 1 .. Len(sent) :
                /\ sent[k] \in Arrived /\ sent[k].end \in Nat /\ sent[k].fin \in BOOLEAN
<1>1. Len(sent) \in Nat
  BY DEF WsTypes
<1>2. \A k \in 1 .. Len(sent) : sent[k] \in Arrived
  BY DEF WsTypes
<1>3. \A a \in Arrived : a.end \in Nat /\ a.fin \in BOOLEAN
  BY DEF Arrived
<1>4. /\ handled \in Nat /\ handled <= Len(sent) /\ swallowed \in Nat /\ swallowed <= handled
      /\ RBUF \in Nat /\ rlen \in Nat
  BY <1>1, WebSocketAssumption DEF WsTypes
<1>. QED
  BY <1>1, <1>2, <1>3, <1>4

\* An event told the script is put behind the others.
EndEvents == [type : {"close", "error"}, frames : Seq(Nat)]
MessageEvents == [type : {"message"}, frames : Seq(Nat)]

\* The events by their types.
LEMMA EventTypes ==
    ASSUME NEW t \in {"open", "message", "close", "error"}, NEW f \in Seq(Nat)
    PROVE  /\ Event(t, f) \in Told /\ Event(t, f).type = t /\ Event(t, f).frames = f
           /\ Event(t, f) \in EndEvents <=> t \in {"close", "error"}
           /\ Event(t, f) \in MessageEvents <=> t = "message"
BY DEF Event, Told, EndEvents, MessageEvents

\* What an event appends to the events given, to the ends and to the messages.
LEMMA FireFacts ==
    ASSUME WsTypes, NEW t \in {"open", "message", "close", "error"}, NEW f \in Seq(Nat), Fire(t, f)
    PROVE  /\ evs' \in Seq(Told) /\ Len(evs') = Len(evs) + 1 /\ Len(evs) \in Nat
           /\ evs'[Len(evs) + 1] = Event(t, f)
           /\ \A n \in 1 .. Len(evs) : evs'[n] = evs[n]
           /\ t \in {"close", "error"} => Ends' = Append(Ends, Event(t, f))
           /\ t \notin {"close", "error"} => Ends' = Ends
           /\ t # "message" => Given' = Given
<1>1. evs \in Seq(Told) /\ evs' = Append(evs, Event(t, f)) /\ Event(t, f) \in Told
  BY EventTypes DEF WsTypes, Fire
<1>2. /\ evs' \in Seq(Told) /\ Len(evs') = Len(evs) + 1 /\ Len(evs) \in Nat
      /\ evs'[Len(evs) + 1] = Event(t, f)
      /\ \A n \in 1 .. Len(evs) : evs'[n] = evs[n]
  BY <1>1
<1>3. Ends = Filter(evs, EndEvents) /\ Ends' = Filter(evs', EndEvents)
  BY DEF Ends, EndEvents
<1>4. /\ t \in {"close", "error"} => Ends' = Append(Ends, Event(t, f))
      /\ t \notin {"close", "error"} => Ends' = Ends
  <2>1. Filter(Append(evs, Event(t, f)), EndEvents) =
            IF Event(t, f) \in EndEvents THEN Append(Filter(evs, EndEvents), Event(t, f))
            ELSE Filter(evs, EndEvents)
    BY <1>1, FilterAppend
  <2>. QED
    BY <2>1, <1>1, <1>3, EventTypes
<1>5. t # "message" => Given' = Given
  <2>1. Filter(Append(evs, Event(t, f)), MessageEvents) =
            IF Event(t, f) \in MessageEvents THEN Append(Filter(evs, MessageEvents), Event(t, f))
            ELSE Filter(evs, MessageEvents)
    BY <1>1, FilterAppend
  <2>2. t # "message" => Filter(evs', MessageEvents) = Filter(evs, MessageEvents)
    BY <2>1, <1>1, EventTypes
  <2>. QED
    BY <2>2 DEF Given, MessageEvents
<1>. QED
  BY <1>2, <1>4, <1>5

\* onmessage gives one more message.
LEMMA MessageGiven ==
    ASSUME WsTypes, NEW f \in Seq(Nat), Fire("message", f)
    PROVE  Given' = Append(Given, f) /\ Given \in Seq(Seq(Nat))
<1>. DEFINE m == Filter(evs, MessageEvents)
            e == Event("message", f)
            g == [n \in DOMAIN m |-> m[n].frames]
<1>1. evs \in Seq(Told) /\ evs' = Append(evs, e) /\ e \in Told /\ e \in MessageEvents /\ e.frames = f
  BY EventTypes DEF WsTypes, Fire
<1>. HIDE DEF e
<1>2. Filter(evs', MessageEvents) = Append(m, e)
  BY <1>1, FilterAppend
<1>3. m \in Seq(Told)
  BY <1>1, FilterKeeps
<1>. HIDE DEF m
<1>4. Len(m) \in Nat /\ DOMAIN m = 1 .. Len(m) /\ \A n \in 1 .. Len(m) : m[n].frames \in Seq(Nat)
  <2>1. \A x \in Told : x.frames \in Seq(Nat)
    BY DEF Told
  <2>. QED
    BY <1>3, <2>1
<1>5. Given = g /\ Given' = [n \in DOMAIN Append(m, e) |-> Append(m, e)[n].frames]
  BY <1>2 DEF Given, MessageEvents, m
<1>6. g \in Seq(Seq(Nat)) /\ Len(g) = Len(m) /\ \A n \in 1 .. Len(m) : g[n] = m[n].frames
  BY <1>4
<1>. HIDE DEF g
<1>7. /\ Append(m, e) \in Seq(Told) /\ Len(Append(m, e)) = Len(m) + 1
      /\ \A n \in 1 .. Len(m) : Append(m, e)[n] = m[n]
      /\ Append(m, e)[Len(m) + 1] = e
      /\ DOMAIN Append(m, e) = 1 .. Len(m) + 1
  BY <1>1, <1>3
<1>8. /\ Append(g, f) \in Seq(Seq(Nat)) /\ Len(Append(g, f)) = Len(m) + 1
      /\ \A n \in 1 .. Len(m) : Append(g, f)[n] = g[n]
      /\ Append(g, f)[Len(m) + 1] = f
      /\ Append(g, f) = [n \in 1 .. Len(m) + 1 |-> Append(g, f)[n]]
  <2>. DEFINE h == Append(g, f)
  <2>1. /\ h \in Seq(Seq(Nat)) /\ Len(h) = Len(g) + 1
        /\ \A n \in 1 .. Len(g) : h[n] = g[n]
        /\ h[Len(g) + 1] = f
    BY <1>6, AppendProperties
  <2>. HIDE DEF h
  <2>2. h = [n \in 1 .. Len(h) |-> h[n]]
    BY <2>1
  <2>. QED
    BY <1>6, <2>1, <2>2 DEF h
<1>9. \A n \in 1 .. Len(m) + 1 : n = Len(m) + 1 \/ n \in 1 .. Len(m)
  BY <1>4
<1>10. \A n \in 1 .. Len(m) + 1 : Append(m, e)[n].frames = Append(g, f)[n]
  BY <1>1, <1>6, <1>7, <1>8, <1>9
<1>. QED
  BY <1>5, <1>6, <1>7, <1>8, <1>10

\* The ends told so far are a sequence, and one that is told is put behind them.
LEMMA EndsTypes ==
    ASSUME WsTypes
    PROVE  /\ Ends \in Seq(Told) /\ Len(Ends) \in Nat /\ (Ends = <<>> <=> Len(Ends) = 0)
           /\ Len(evs) \in Nat /\ (evs = <<>> <=> Len(evs) = 0)
<1>1. Ends \in Seq(Told)
  BY FilterKeeps DEF Ends, WsTypes
<1>2. evs \in Seq(Told)
  BY DEF WsTypes
<1>. QED
  BY <1>1, <1>2

\* onclose and onerror are one more end and no message.
LEMMA EndTold ==
    ASSUME WsTypes, NEW t \in {"close", "error"}, Fire(t, <<>>)
    PROVE  /\ Len(Ends') = Len(Ends) + 1 /\ Ends'[Len(Ends) + 1].type = t
           /\ \A n \in 1 .. Len(Ends) : Ends'[n] = Ends[n]
           /\ Len(Ends) \in Nat /\ Ends' # <<>> /\ Given' = Given
<1>. DEFINE e == Event(t, <<>>)
            r == Append(Ends, e)
<1>1. <<>> \in Seq(Nat) /\ t \in {"open", "message", "close", "error"} /\ t # "message"
  OBVIOUS
<1>2. e \in Told /\ e.type = t
  BY ONLY <1>1 DEF Event, Told
<1>. HIDE DEF e
<1>3. Ends \in Seq(Told) /\ Len(Ends) \in Nat
  BY EndsTypes
<1>4. Ends' = r /\ Given' = Given
  BY <1>1, FireFacts DEF e
<1>5. /\ r \in Seq(Told) /\ Len(r) = Len(Ends) + 1 /\ r[Len(Ends) + 1] = e
      /\ \A n \in 1 .. Len(Ends) : r[n] = Ends[n]
  BY <1>2, <1>3, AppendProperties
<1>. HIDE DEF r
<1>6. r # <<>>
  BY <1>3, <1>5
<1>. QED
  BY <1>2, <1>3, <1>4, <1>5, <1>6

-----------------------------------------------------------------------------
(* What each part of the invariant depends on. *)

\* The stream is as it was when nothing arrives and nothing is handled.
LEMMA WireSame ==
    ASSUME WireInv, UNCHANGED <<sent, handled, rlen, skip>>
    PROVE  WireInv'
BY DEF WireInv, Unread, Units

\* Without an event neither ends nor messages change.
LEMMA EvsSame ==
    ASSUME UNCHANGED evs
    PROVE  UNCHANGED <<Ends, Given>>
BY DEF Ends, Given

\* The unfinished message is as it was when no frame is handled.
LEMMA FragSame ==
    ASSUME FragInv, UNCHANGED <<sent, handled, swallowed, frag, skip>>
    PROVE  FragInv'
BY DEF FragInv, Unfinished, PartsSince, Places

\* The state before the handshake.
LEMMA WsInitInv == WsInit => WsInv
<1>. SUFFICES ASSUME WsInit PROVE WsInv
  OBVIOUS
<1>. USE DEF WsInit
<1>1. WsTypes
  <2>1. /\ <<>> \in Seq(Arrived) /\ <<>> \in Seq(Told) /\ <<>> \in Seq(1 .. 0) /\ Len(<<>>) = 0
        /\ 0 \in 0 .. RBUF /\ 0 \in 0 .. 0 /\ ~(0 > 0)
    BY WebSocketAssumption
  <2>. QED
    BY <2>1 DEF WsTypes
<1>2. Ends = <<>>
  BY FilterEmpty DEF Ends
<1>3. WireInv
  BY DEF WireInv, Unread, Units
<1>4. LifeInv
  BY <1>2 DEF LifeInv
<1>5. EndInv
  BY <1>2 DEF EndInv
<1>6. OpenInv
  BY DEF OpenInv
<1>7. FragInv
  BY DEF FragInv
<1>. QED
  BY <1>1, <1>3, <1>4, <1>5, <1>6, <1>7 DEF WsInv

-----------------------------------------------------------------------------
(* The peer. *)

\* One more frame at the end of the stream.
LEMMA SentGrows ==
    ASSUME WsTypes, NEW op \in {"TEXT", "BIN", "CONT", "CLOSE", "PING", "PONG"},
           NEW fin \in BOOLEAN, NEW size \in Nat \ {0}, PeerFrame(op, fin, size)
    PROVE  /\ sent' \in Seq(Arrived) /\ Len(sent') = Len(sent) + 1 /\ Len(sent) \in Nat
           /\ \A k \in 1 .. Len(sent) : sent'[k] = sent[k]
           /\ sent'[Len(sent) + 1].op = op /\ sent'[Len(sent) + 1].fin = fin
           /\ sent'[Len(sent) + 1].end = Units(Len(sent)) + size
           /\ Units(Len(sent)) \in Nat
<1>. DEFINE f == [op |-> op, fin |-> fin, end |-> Units(Len(sent)) + size]
<1>1. sent \in Seq(Arrived) /\ Len(sent) \in Nat /\ \A k \in 1 .. Len(sent) : sent[k].end \in Nat
  BY SentTypes DEF WsTypes
<1>2. Units(Len(sent)) \in Nat
  BY <1>1 DEF Units
<1>3. Units(Len(sent)) + size \in Nat
  BY <1>2
<1>4. f.op = op /\ f.fin = fin /\ f.end = Units(Len(sent)) + size
  OBVIOUS
<1>4a. f \in Arrived
  BY <1>3 DEF Arrived
<1>5. sent' = Append(sent, f)
  BY DEF PeerFrame
<1>. HIDE DEF f
<1>6. /\ sent' \in Seq(Arrived) /\ Len(sent') = Len(sent) + 1 /\ sent'[Len(sent) + 1] = f
      /\ \A k \in 1 .. Len(sent) : sent'[k] = sent[k]
  BY <1>1, <1>4a, <1>5, AppendProperties
<1>. QED
  BY <1>1, <1>2, <1>4, <1>6

\* The peer sends a frame.
LEMMA PeerFrameInv ==
    ASSUME WsInv, NEW op \in {"TEXT", "BIN", "CONT", "CLOSE", "PING", "PONG"},
           NEW fin \in BOOLEAN, NEW size \in Nat \ {0}, PeerFrame(op, fin, size)
    PROVE  WsInv'
<1>. USE DEF WsInv
<1>1. /\ UNCHANGED <<peer, state, alive, pc, inScript, opened, rlen, handled, frag, swallowed, skip, told, evs>>
      /\ ~PeerClosed /\ peer = "up"
  BY DEF PeerFrame
<1>2. /\ sent' \in Seq(Arrived) /\ Len(sent') = Len(sent) + 1 /\ Len(sent) \in Nat
      /\ \A k \in 1 .. Len(sent) : sent'[k] = sent[k]
      /\ sent'[Len(sent) + 1].end = Units(Len(sent)) + size
      /\ Units(Len(sent)) \in Nat
  BY SentGrows
<1>3. /\ handled \in Nat /\ handled <= Len(sent) /\ swallowed \in Nat /\ swallowed <= handled
      /\ rlen \in Nat /\ \A k \in 1 .. Len(sent) : sent[k].end \in Nat
  BY SentTypes
<1>4. WsTypes'
  BY <1>1, <1>2, <1>3 DEF WsTypes
<1>5. UNCHANGED Ends
  BY <1>1, EvsSame
<1>6. WireInv'
  <2>1. \A k \in 1 .. Len(sent) : sent[k].op # "CLOSE"
    BY <1>1, <1>2 DEF PeerClosed, WsTypes
  <2>2. \A k \in 1 .. Len(sent) : sent[k].end <= Units(Len(sent))
    BY <1>2 DEF WireInv, Units
  <2>3. \A i, j \in 1 .. Len(sent') : i <= j => sent'[i].end <= sent'[j].end
    <3>1. SUFFICES ASSUME NEW i \in 1 .. Len(sent'), NEW j \in 1 .. Len(sent'), i <= j
                   PROVE  sent'[i].end <= sent'[j].end
      OBVIOUS
    <3>2. CASE j = Len(sent) + 1 /\ i = Len(sent) + 1
      BY <3>2, <1>2
    <3>3. CASE j = Len(sent) + 1 /\ i \in 1 .. Len(sent)
      <4>1. sent[i].end \in Nat /\ sent[i].end <= Units(Len(sent)) /\ sent'[i] = sent[i]
        BY <3>3, <1>2, <1>3, <2>2
      <4>2. sent[i].end <= Units(Len(sent)) + size
        BY <4>1, <1>2
      <4>. QED
        BY <4>1, <4>2, <3>3, <1>2
    <3>4. CASE j \in 1 .. Len(sent)
      BY <3>1, <3>4, <1>2 DEF WireInv
    <3>. QED
      BY <1>2, <3>1, <3>2, <3>3, <3>4
  <2>4. \A k \in 1 .. Len(sent') : sent'[k].op = "CLOSE" => k = Len(sent')
    BY <1>2, <2>1
  <2>5. Unread' >= 0
    <3>1. Units(handled)' = Units(handled) /\ Units(handled) \in Nat
      BY <1>1, <1>2, <1>3 DEF Units
    <3>2. Units(Len(sent))' = Units(Len(sent)) + size
      BY <1>2 DEF Units
    <3>3. skip \in Nat /\ UNCHANGED skip
      BY <1>1 DEF WsTypes
    <3>4. /\ Unread >= 0 /\ Unread = Units(Len(sent)) - Units(handled) - skip - rlen
          /\ rlen \in Nat
      BY SentTypes DEF WireInv, Unread
    <3>5. Unread' = Units(Len(sent))' - Units(handled)' - skip' - rlen
      BY <1>1 DEF Unread
    <3>. QED
      BY ONLY SMTT(30), <1>2, <1>3, <3>1, <3>2, <3>3, <3>4, <3>5
  <2>. QED
    BY <2>3, <2>4, <2>5 DEF WireInv
<1>7. LifeInv'
  BY <1>1, <1>5 DEF LifeInv
<1>8. EndInv'
  <2>1. Len(Ends) \in Nat /\ (skip = 0 => Len(Ends) <= 1)
    BY <1>1, EndsTypes DEF EndInv
  <2>2. Ends # <<>> => state = "CLOSED" /\ (pc \in {"sweep", "idle"} \/ skip > 0)
    BY <1>1 DEF EndInv
  <2>. QED
    BY <2>1, <2>2, <1>1, <1>5 DEF EndInv
<1>9. OpenInv'
  BY <1>1 DEF OpenInv
<1>10. FragInv'
  <2>1. \A k \in swallowed + 1 .. handled : k \in 1 .. Len(sent) /\ sent'[k] = sent[k]
    BY <1>2, <1>3
  <2>2. ASSUME NEW i \in swallowed + 1 .. handled
        PROVE  /\ Unfinished(i, handled)' <=> Unfinished(i, handled)
               /\ Collected(swallowed, handled, PartsSince(i), Places)'
                    = Collected(swallowed, handled, PartsSince(i), Places)
    <3>1. Unfinished(i, handled)' <=> Unfinished(i, handled)
      <4>1. \A k \in i .. handled : sent'[k] = sent[k]
        BY <2>1, <1>3
      <4>2. \A k \in i + 1 .. handled : sent'[k] = sent[k]
        BY <2>1, <1>3
      <4>. QED
        BY <1>1, <2>1, <4>1, <4>2 DEF Unfinished, Fragments, Data
    <3>2. \A n \in swallowed + 1 .. handled :
             /\ n \in PartsSince(i)' <=> n \in PartsSince(i)
             /\ n \in PartsSince(i)' => Places'[n] = Places[n]
      BY <2>1, <1>2, <1>3 DEF PartsSince, Places
    <3>3. Collected(swallowed, handled, PartsSince(i)', Places')
                    = Collected(swallowed, handled, PartsSince(i), Places)
      BY <3>2, <1>3, CollectedAgree
    <3>. QED
      BY <3>1, <3>3, <1>1
  <2>. QED
    BY <2>2, <1>1 DEF FragInv
<1>. QED
  BY <1>4, <1>6, <1>7, <1>8, <1>9, <1>10

\* The peer closes or resets the connection.
LEMMA PeerEndsInv ==
    ASSUME WsInv, NEW how \in {"eof", "reset"}, PeerEnds(how)
    PROVE  WsInv'
<1>. USE DEF WsInv, PeerEnds
<1>1. UNCHANGED Ends
  BY EvsSame
<1>2. WsTypes'
  BY DEF WsTypes
<1>3. WireInv' /\ FragInv'
  BY WireSame, FragSame
<1>4. LifeInv' /\ OpenInv'
  BY <1>1 DEF LifeInv, OpenInv
<1>5. EndInv'
  <2>1. UNCHANGED PeerClosed
    BY DEF PeerClosed
  <2>2. Len(Ends) \in Nat /\ (skip = 0 => Len(Ends) <= 1)
    BY EndsTypes DEF EndInv
  <2>. QED
    BY <1>1, <2>1, <2>2 DEF EndInv
<1>. QED
  BY <1>2, <1>3, <1>4, <1>5

-----------------------------------------------------------------------------
(* The script. *)

\* What the frames dropped with the handshake's response leave of the stream.
LEMMA ConnectInv ==
    ASSUME WsInv, Connect
    PROVE  WsInv'
<1>. USE DEF WsInv
<1>1. /\ state = "none" /\ state' = "OPEN" /\ alive' = TRUE
      /\ UNCHANGED <<sent, peer, pc, inScript, opened, rlen, frag, told, evs>>
  BY DEF Connect, wire
<1>2. PICK k \in 0 .. Len(sent) :
         /\ swallowed' = k /\ handled' = k
         /\ skip' \in 0 .. (IF k < Len(sent) THEN Size(k + 1) - 1 ELSE 0)
  BY DEF Connect
<1>3. /\ ~alive /\ pc = "idle" /\ rlen = 0 /\ frag = <<>> /\ evs = <<>> /\ ~opened
  BY <1>1 DEF LifeInv
<1>4. Len(sent) \in Nat /\ k \in Nat /\ k <= Len(sent) /\ \A n \in 1 .. Len(sent) : sent[n].end \in Nat
  BY SentTypes
<1>5. Ends = <<>> /\ UNCHANGED <<Ends, PeerClosed>>
  BY <1>1, <1>3, EvsSame, FilterEmpty DEF Ends, PeerClosed
<1>11. /\ skip' \in Nat /\ Units(k) \in Nat /\ Units(Len(sent)) \in Nat
       /\ Units(k) + skip' <= Units(Len(sent))
  <2>1. Units(k) \in Nat /\ Units(Len(sent)) \in Nat /\ Units(k) <= Units(Len(sent))
    BY <1>4 DEF Units, WireInv
  <2>2. CASE k < Len(sent)
    <3>1. k + 1 \in 1 .. Len(sent) /\ k + 1 # 0 /\ k + 1 - 1 = k /\ Len(sent) # 0
          /\ Len(sent) \in 1 .. Len(sent) /\ k + 1 <= Len(sent)
      BY <2>2, <1>4
    <3>2. Units(k + 1) \in Nat /\ Units(k + 1) <= Units(Len(sent))
      BY <3>1, <1>4 DEF Units, WireInv
    <3>3. Size(k + 1) = Units(k + 1) - Units(k)
      BY <3>1 DEF Size
    <3>4. skip' \in 0 .. Size(k + 1) - 1
      BY <1>2, <2>2
    <3>. QED
      BY ONLY <2>1, <3>2, <3>3, <3>4
  <2>3. CASE ~(k < Len(sent))
    BY <1>2, <2>1, <2>3
  <2>. QED
    BY <2>2, <2>3
<1>6. WsTypes'
  <2>1. <<>> \in Seq(1 .. k) /\ <<>> \in Seq({0}) /\ k \in 0 .. k
    BY <1>4
  <2>. QED
    BY <1>1, <1>2, <1>3, <1>11, <2>1 DEF WsTypes
<1>7. WireInv'
  <2>1. Units(k) + skip' <= Units(Len(sent)) /\ Units(k) \in Nat /\ Units(Len(sent)) \in Nat
    BY <1>11
  <2>2. Unread' = Units(Len(sent)) - Units(k) - skip'
    BY <1>1, <1>2, <1>3, <1>11, <2>1 DEF Unread, Units
  <2>3. Unread' >= 0
    BY <1>11, <2>1, <2>2
  <2>. QED
    BY <1>1, <2>3 DEF WireInv
<1>8. LifeInv' /\ OpenInv'
  BY <1>1, <1>3 DEF LifeInv, OpenInv
<1>9. EndInv'
  BY <1>1, <1>3, <1>5 DEF EndInv
<1>10. FragInv'
  <2>1. k + 1 .. k = {}
    BY <1>4
  <2>. QED
    BY <1>1, <1>2, <1>3, <2>1 DEF FragInv
<1>. QED
  BY <1>6, <1>7, <1>8, <1>9, <1>10

\* The script closes the connection.
LEMMA JsCloseInv ==
    ASSUME WsInv, NEW len \in Lengths, JsClose(len)
    PROVE  WsInv'
<1>. USE DEF WsInv
<1>1. /\ state # "CLOSED" /\ state' = "CLOSING" /\ alive
      /\ UNCHANGED <<sent, peer, alive, pc, inScript, opened, rlen, handled, frag, swallowed, skip, evs>>
      /\ told' \in BOOLEAN
  BY DEF JsClose, ScriptRuns, wire, WsTypes
<1>2. UNCHANGED <<Ends, PeerClosed>>
  BY <1>1, EvsSame DEF PeerClosed
<1>3. Ends = <<>> /\ state # "none"
  BY <1>1 DEF EndInv, LifeInv
<1>4. WsTypes'
  BY <1>1 DEF WsTypes
<1>5. WireInv' /\ FragInv'
  BY <1>1, WireSame, FragSame
<1>6. LifeInv' /\ OpenInv'
  BY <1>1, <1>2, <1>3 DEF LifeInv, OpenInv
<1>7. EndInv'
  BY <1>1, <1>2, <1>3 DEF EndInv
<1>. QED
  BY <1>4, <1>5, <1>6, <1>7

\* The bridge is destroyed between two pumps.
LEMMA BridgeDestroyInv ==
    ASSUME WsInv, BridgeDestroy
    PROVE  WsInv'
<1>. USE DEF WsInv
<1>1. /\ alive /\ pc = "idle" /\ alive' = FALSE /\ state' = "CLOSED" /\ told' \in BOOLEAN
      /\ UNCHANGED <<sent, peer, pc, inScript, opened, rlen, handled, frag, swallowed, skip, evs>>
  BY DEF BridgeDestroy, wire, WsTypes
<1>2. UNCHANGED <<Ends, PeerClosed>>
  BY <1>1, EvsSame DEF PeerClosed
<1>4. WsTypes'
  BY <1>1 DEF WsTypes
<1>5. WireInv' /\ FragInv'
  BY <1>1, WireSame, FragSame
<1>6. LifeInv' /\ OpenInv'
  BY <1>1, <1>2 DEF LifeInv, OpenInv
<1>7. EndInv'
  BY <1>1, <1>2 DEF EndInv
<1>. QED
  BY <1>4, <1>5, <1>6, <1>7

-----------------------------------------------------------------------------
(* The pump. *)

\* A pump starts, with the deferred onopen or without.
LEMMA PumpStartsInv ==
    ASSUME WsInv, PumpStarts
    PROVE  WsInv'
<1>. USE DEF WsInv
<1>1. /\ alive /\ pc = "idle" /\ state # "CLOSED" /\ pc' = "recv"
      /\ UNCHANGED <<sent, peer, state, alive, rlen, handled, frag, swallowed, skip, told>>
  BY DEF PumpStarts, wire
<1>2. Ends = <<>> /\ state # "none"
  BY <1>1 DEF EndInv, LifeInv
<1>3. UNCHANGED PeerClosed
  BY <1>1 DEF PeerClosed
<1>4. WireInv' /\ FragInv'
  BY <1>1, WireSame, FragSame
<1>5. CASE ~opened /\ state = "OPEN"
  <2>1. opened' = TRUE /\ inScript' = TRUE /\ Fire("open", <<>>)
    BY <1>5 DEF PumpStarts
  <2>2. evs = <<>> /\ Len(evs) = 0
    BY <1>5 DEF OpenInv
  <2>3. /\ evs' \in Seq(Told) /\ Len(evs') = 1 /\ evs'[1].type = "open"
        /\ Ends' = Ends
    <3>1. <<>> \in Seq(Nat) /\ "open" \in {"open", "message", "close", "error"}
      OBVIOUS
    <3>2. /\ evs' \in Seq(Told) /\ Len(evs') = Len(evs) + 1
          /\ evs'[Len(evs) + 1] = Event("open", <<>>) /\ Ends' = Ends
      BY <2>1, <3>1, FireFacts
    <3>3. Event("open", <<>>).type = "open"
      BY <3>1, EventTypes
    <3>. QED
      BY <2>2, <3>2, <3>3
  <2>4. evs' # <<>> /\ \A n \in 1 .. Len(evs') : n = 1
    <3>1. Len(<<>>) = 0 /\ 0 # 1
      OBVIOUS
    <3>2. evs' # <<>>
      BY <2>3, <3>1, Zenon
    <3>3. \A n \in 1 .. 1 : n = 1
      OBVIOUS
    <3>. QED
      BY <2>3, <3>2, <3>3
  <2>5. WsTypes'
    BY <1>1, <2>1, <2>3 DEF WsTypes
  <2>6. LifeInv'
    BY <1>1, <1>2 DEF LifeInv
  <2>7. OpenInv'
    BY <2>1, <2>3, <2>4 DEF OpenInv
  <2>8. EndInv'
    BY <1>1, <1>2, <1>3, <2>3 DEF EndInv
  <2>. QED
    BY <1>4, <2>5, <2>6, <2>7, <2>8
<1>6. CASE ~(~opened /\ state = "OPEN")
  <2>1. UNCHANGED <<opened, inScript, evs>>
    BY <1>6 DEF PumpStarts
  <2>2. UNCHANGED Ends
    BY <2>1, EvsSame
  <2>5. WsTypes'
    BY <1>1, <2>1 DEF WsTypes
  <2>6. LifeInv'
    BY <1>1, <1>2 DEF LifeInv
  <2>7. OpenInv'
    BY <1>1, <1>6, <2>1 DEF OpenInv
  <2>8. EndInv'
    BY <1>1, <1>2, <1>3, <2>2 DEF EndInv
  <2>. QED
    BY <1>4, <2>5, <2>6, <2>7, <2>8
<1>. QED
  BY <1>5, <1>6

\* What recv gives fits the buffer and had arrived.
LEMMA RecvFacts ==
    ASSUME WsTypes, WireInv, Recv
    PROVE  \E n \in Nat : rlen' = rlen + n /\ rlen + n <= RBUF /\ n <= Unread
<1>. DEFINE a == RBUF - rlen
            b == Unread
<1>0. PICK n \in 1 .. Min({a, b}) : rlen' = rlen + n
  BY DEF Recv
<1>1. /\ Len(sent) \in Nat /\ handled \in Nat /\ handled <= Len(sent) /\ rlen \in Nat /\ RBUF \in Nat
      /\ \A k \in 1 .. Len(sent) : sent[k].end \in Nat
  BY SentTypes
<1>2. a \in Int /\ b \in Int
  <2>1. Units(handled) \in Nat /\ Units(Len(sent)) \in Nat
    BY <1>1 DEF Units
  <2>2. skip \in Nat
    BY DEF WsTypes
  <2>. QED
    BY <1>1, <2>1, <2>2 DEF Unread
<1>3. a = RBUF - rlen /\ b = Unread
  OBVIOUS
<1>. HIDE DEF a, b
<1>4. \E m \in {a, b} : \A y \in {a, b} : m <= y
  BY <1>2
<1>5. Min({a, b}) \in {a, b} /\ \A y \in {a, b} : Min({a, b}) <= y
  BY <1>4 DEF Min
<1>6. Min({a, b}) \in Int /\ Min({a, b}) <= a /\ Min({a, b}) <= b
  BY <1>2, <1>5
<1>7. n \in Nat /\ n <= a /\ n <= b
  BY <1>2, <1>6
<1>. QED
  BY <1>0, <1>1, <1>2, <1>3, <1>7

\* A step of the pump's loop that tells the script nothing.
LEMMA QuietInv ==
    ASSUME WsInv, UNCHANGED <<sent, peer, state, opened, handled, frag, swallowed, skip, told, evs>>,
           rlen' \in 0 .. RBUF, Unread' >= 0, inScript' = FALSE,
           alive' \in BOOLEAN, pc' \in {"idle", "recv", "decode", "sweep", "corrupt"}, pc # "idle",
           pc' # "idle" => alive', state = "CLOSED" => Ends # <<>>,
           \/ pc' \in {"sweep", "idle"}
           \/ pc' \in {"recv", "decode"} /\ pc \in {"recv", "decode"}
           \/ pc' = "corrupt" /\ skip > 0
    PROVE  WsInv'
<1>. USE DEF WsInv
<1>1. UNCHANGED <<Ends, PeerClosed>>
  BY EvsSame DEF PeerClosed
<1>2. WsTypes'
  BY DEF WsTypes
<1>3. WireInv'
  BY DEF WireInv
<1>4. FragInv'
  BY FragSame
<1>5. LifeInv'
  BY <1>1 DEF LifeInv
<1>6. OpenInv'
  BY DEF OpenInv
<1>7. EndInv'
  BY <1>1 DEF EndInv
<1>. QED
  BY <1>2, <1>3, <1>4, <1>5, <1>6, <1>7

\* recv gives something.
LEMMA RecvInv ==
    ASSUME WsInv, Recv
    PROVE  WsInv'
<1>. USE DEF WsInv
<1>1. /\ pc = "recv" /\ pc' = "decode" /\ inScript' = FALSE
      /\ UNCHANGED <<sent, peer, state, alive, opened, handled, frag, swallowed, skip, told, evs>>
  BY DEF Recv, wire
<1>2. PICK n \in Nat : rlen' = rlen + n /\ rlen + n <= RBUF /\ n <= Unread
  BY RecvFacts
<1>3. /\ Len(sent) \in Nat /\ handled \in Nat /\ handled <= Len(sent) /\ rlen \in Nat /\ RBUF \in Nat
      /\ \A k \in 1 .. Len(sent) : sent[k].end \in Nat
  BY SentTypes
<1>4. Units(handled) \in Nat /\ Units(Len(sent)) \in Nat /\ UNCHANGED <<Units(handled), Units(Len(sent))>>
  BY <1>1, <1>3 DEF Units
<1>5. Unread' >= 0
  <2>1. skip \in Nat /\ UNCHANGED skip
    BY <1>1 DEF WsTypes
  <2>2. Unread = Units(Len(sent)) - Units(handled) - skip - rlen
    BY DEF Unread
  <2>3. Unread' = Units(Len(sent)) - Units(handled) - skip - (rlen + n)
    BY <1>2, <1>4, <2>1 DEF Unread
  <2>. QED
    BY ONLY <1>2, <1>3, <1>4, <2>1, <2>2, <2>3
<1>6. state = "CLOSED" => Ends # <<>>
  BY <1>1 DEF LifeInv
<1>7. alive' \in BOOLEAN /\ alive' /\ rlen' \in 0 .. RBUF
  BY <1>1, <1>2, <1>3 DEF LifeInv, WsTypes
<1>. QED
  BY <1>1, <1>5, <1>6, <1>7, QuietInv

\* The steps that neither read, nor handle a frame, nor fire an event.
LEMMA IdleSteps ==
    ASSUME WsInv, RecvNothing \/ DecodeDone \/ Sweep
    PROVE  WsInv'
<1>. USE DEF WsInv
<1>1. /\ pc # "idle" /\ pc' \in {"idle", "recv", "decode", "sweep"} /\ inScript' = FALSE
      /\ UNCHANGED <<sent, peer, state, opened, rlen, handled, frag, swallowed, skip, told, evs>>
      /\ alive' \in BOOLEAN /\ (pc' # "idle" => alive')
      /\ \/ pc' \in {"sweep", "idle"}
         \/ pc' \in {"recv", "decode"} /\ pc \in {"recv", "decode"}
  BY DEF RecvNothing, DecodeDone, Sweep, wire, WsTypes, LifeInv
<1>2. state = "CLOSED" => Ends # <<>>
  BY <1>1 DEF LifeInv
<1>3. Unread' >= 0 /\ rlen' \in 0 .. RBUF
  BY <1>1, WireSame DEF WireInv, WsTypes
<1>. QED
  BY <1>1, <1>2, <1>3, QuietInv

\* What is told the script after the pump's first step leaves onopen in front.
LEMMA OpenTold ==
    ASSUME WsTypes, OpenInv, NEW t \in {"message", "close", "error"}, NEW f \in Seq(Nat),
           Fire(t, f), UNCHANGED opened, opened \/ state' # "OPEN"
    PROVE  OpenInv'
<1>1. t \in {"open", "message", "close", "error"} /\ t # "open"
  OBVIOUS
<1>2. /\ Len(evs') = Len(evs) + 1 /\ Len(evs) \in Nat /\ evs'[Len(evs) + 1].type = t
      /\ \A n \in 1 .. Len(evs) : evs'[n] = evs[n]
  <2>1. /\ Len(evs') = Len(evs) + 1 /\ Len(evs) \in Nat
        /\ evs'[Len(evs) + 1] = Event(t, f)
        /\ \A n \in 1 .. Len(evs) : evs'[n] = evs[n]
    BY <1>1, FireFacts
  <2>2. Event(t, f).type = t
    BY DEF Event
  <2>. QED
    BY <2>1, <2>2
<1>3. opened => evs' # <<>> /\ evs'[1].type = "open"
  BY <1>2, EndsTypes DEF OpenInv
<1>4. \A n \in 1 .. Len(evs') : n = Len(evs) + 1 \/ n \in 1 .. Len(evs)
  BY <1>2
<1>5. \A n \in 1 .. Len(evs') : evs'[n].type = "open" => n = 1 /\ opened'
  BY <1>1, <1>2, <1>4 DEF OpenInv
<1>. QED
  BY <1>3, <1>5 DEF OpenInv

\* onclose or onerror from the pump: the first end, a second onclose when the
\* stream ends behind a close frame, or any number of them out of step.
LEMMA EndStepInv ==
    ASSUME WsInv, NEW t \in {"close", "error"}, Fire(t, <<>>),
           UNCHANGED <<sent, peer, alive, opened, swallowed, told>>,
           state' = "CLOSED", inScript' \in BOOLEAN, pc \in {"recv", "decode"},
           WsTypes', WireInv', FragInv', skip' = skip \/ (skip > 0 /\ skip' > 0),
           \/ pc' = "sweep"
           \/ pc' = "decode" /\ PeerClosed /\ handled' = Len(sent) /\ t = "close"
           \/ pc' = "decode" /\ skip > 0 /\ t = "close",
           \/ Ends = <<>>
           \/ t = "close" /\ peer = "eof" /\ pc' = "sweep" /\ pc = "recv"
           \/ t = "close" /\ skip > 0
    PROVE  WsInv'
<1>. USE DEF WsInv
<1>1. /\ Len(Ends') = Len(Ends) + 1 /\ Ends'[Len(Ends) + 1].type = t
      /\ \A n \in 1 .. Len(Ends) : Ends'[n] = Ends[n]
      /\ Len(Ends) \in Nat /\ Ends' # <<>>
  BY EndTold
<1>2. UNCHANGED PeerClosed
  BY DEF PeerClosed
<1>3. LifeInv'
  BY <1>1 DEF LifeInv
<1>4. /\ skip = 0 => Len(Ends) <= 1
      /\ \A n \in 1 .. Len(Ends) : Ends[n].type = "close"
      /\ (Ends = <<>> <=> Len(Ends) = 0)
  BY EndsTypes DEF EndInv
<1>7. skip \in Nat
  BY DEF WsTypes
<1>8. t = "close" => \A n \in 1 .. Len(Ends') : Ends'[n].type = "close"
  <2>1. \A n \in 1 .. Len(Ends) + 1 : n = Len(Ends) + 1 \/ n \in 1 .. Len(Ends)
    BY <1>1
  <2>. QED
    BY <1>1, <1>4, <2>1
<1>5. EndInv'
  <2>1. Ends' # <<>> =>
          /\ state' = "CLOSED"
          /\ \/ pc' \in {"sweep", "idle"} \/ (PeerClosed' /\ handled' = Len(sent)')
             \/ skip' > 0
    BY <1>2
  <2>2. CASE Ends = <<>>
    <3>1. Len(Ends') = 1 /\ (pc' = "decode" => t = "close")
      BY <2>2, <1>1, <1>4
    <3>. QED
      BY <2>1, <3>1, <1>8 DEF EndInv
  <2>3. CASE Ends # <<>> /\ skip = 0
    <3>0. Len(Ends) # 0
      BY <2>3, <1>4
    <3>c. \A n \in Nat : n <= 1 /\ n # 0 => n = 1
      OBVIOUS
    <3>a. Len(Ends) = 1
      BY <2>3, <3>0, <3>c, <1>1, <1>4, Zenon
    <3>b. t = "close" /\ peer = "eof" /\ pc' = "sweep" /\ pc = "recv" /\ skip' = 0
      BY <2>3
    <3>1. Len(Ends') = 2
      BY <3>a, <1>1
    <3>2. PeerClosed
      BY <2>3, <3>b DEF EndInv
    <3>. QED
      BY <2>1, <3>1, <3>2, <3>b, <1>2, <1>8 DEF EndInv
  <2>4. CASE Ends # <<>> /\ skip > 0
    <3>1. t = "close" /\ skip' # 0
      BY <2>4, <1>7, WsTypes' DEF WsTypes
    <3>. QED
      BY <2>1, <3>1, <1>8 DEF EndInv
  <2>. QED
    BY <1>7, <2>2, <2>3, <2>4
<1>6. OpenInv'
  <2>1. <<>> \in Seq(Nat) /\ t \in {"message", "close", "error"} /\ state' # "OPEN"
    OBVIOUS
  <2>. QED
    BY <2>1, OpenTold
<1>. QED
  BY <1>3, <1>5, <1>6

\* The end of the stream, or an error.
LEMMA RecvEndsInv ==
    ASSUME WsInv, RecvEnd \/ RecvError
    PROVE  WsInv'
<1>. USE DEF WsInv
<1>1. /\ pc = "recv" /\ pc' = "sweep"
      /\ UNCHANGED <<sent, peer, alive, opened, rlen, handled, frag, swallowed, skip, told>>
  BY DEF RecvEnd, RecvError, WsFail, wire
<1>2. WireInv' /\ FragInv'
  BY <1>1, WireSame, FragSame
<1>3. <<>> \in Seq(Nat)
  OBVIOUS
<1>4. CASE RecvEnd
  <2>1. state' = "CLOSED" /\ inScript' = TRUE /\ peer = "eof" /\ Fire("close", <<>>)
    BY <1>4 DEF RecvEnd
  <2>2. evs' \in Seq(Told)
    BY <2>1, <1>3, FireFacts
  <2>3. WsTypes'
    BY <1>1, <2>1, <2>2 DEF WsTypes
  <2>. QED
    BY <1>1, <1>2, <2>1, <2>3, EndStepInv
<1>5. CASE RecvError
  <2>1. CASE state = "CLOSED"
    <3>1. UNCHANGED <<state, evs>> /\ inScript' = FALSE
      BY <1>5, <2>1 DEF RecvError, WsFail
    <3>2. Ends # <<>>
      BY <1>1, <2>1 DEF LifeInv
    <3>3. Unread' >= 0 /\ rlen' \in 0 .. RBUF /\ alive' \in BOOLEAN /\ alive'
      BY <1>1, <1>2 DEF WireInv, WsTypes, LifeInv
    <3>. QED
      BY <1>1, <3>1, <3>2, <3>3, QuietInv
  <2>2. CASE state # "CLOSED"
    <3>1. state' = "CLOSED" /\ inScript' = TRUE /\ Fire("error", <<>>)
      BY <1>5, <2>2 DEF RecvError, WsFail
    <3>2. evs' \in Seq(Told)
      BY <3>1, <1>3, FireFacts
    <3>3. WsTypes'
      BY <1>1, <3>1, <3>2 DEF WsTypes
    <3>4. Ends = <<>>
      BY <2>2 DEF EndInv
    <3>. QED
      BY <1>1, <1>2, <3>1, <3>3, <3>4, EndStepInv
  <2>. QED
    BY <2>1, <2>2
<1>. QED
  BY <1>4, <1>5

-----------------------------------------------------------------------------
(* A frame taken out of the buffer. *)

\* A frame is taken out of the buffer: only an open connection decodes.
LEMMA TakeFacts ==
    ASSUME WsInv, Take
    PROVE  /\ pc = "decode" /\ UNCHANGED <<sent, peer, alive, pc, opened, swallowed, skip>>
           /\ handled < Len(sent) /\ handled' = handled + 1 /\ handled + 1 \in 1 .. Len(sent)
           /\ rlen' \in 0 .. RBUF /\ handled' \in 0 .. Len(sent') /\ swallowed' \in 0 .. handled'
           /\ WireInv' /\ Ends = <<>> /\ state \notin {"none", "CLOSED"} /\ alive
           /\ NextFrame = sent[handled + 1] /\ skip = 0 /\ skip' = 0
<1>. USE DEF WsInv
<1>1. /\ pc = "decode" /\ UNCHANGED <<sent, peer, alive, pc, opened, swallowed, skip>>
      /\ handled < Len(sent) /\ handled' = handled + 1
      /\ rlen' = rlen - Size(handled + 1) /\ Size(handled + 1) <= rlen
      /\ skip = 0 /\ skip' = 0
  BY DEF Take, WholeFrame, wire
<1>2. /\ Len(sent) \in Nat /\ handled \in Nat /\ swallowed \in Nat /\ swallowed <= handled
      /\ rlen \in Nat /\ RBUF \in Nat /\ rlen <= RBUF
      /\ \A k \in 1 .. Len(sent) : sent[k].end \in Nat
  BY SentTypes DEF WsTypes
<1>3. handled + 1 \in 1 .. Len(sent)
  BY <1>1, <1>2
<1>4. Size(handled + 1) = Units(handled + 1) - Units(handled)
  BY <1>2 DEF Size
<1>5. /\ Units(handled) \in Nat /\ Units(handled + 1) \in Nat /\ Units(Len(sent)) \in Nat
      /\ Units(handled) <= Units(handled + 1)
  <2>1. handled # 0 => handled \in 1 .. Len(sent) /\ handled <= handled + 1
    BY <1>1, <1>2
  <2>2. handled # 0 => sent[handled].end <= sent[handled + 1].end
    BY <2>1, <1>3 DEF WireInv
  <2>. QED
    BY <1>2, <1>3, <2>1, <2>2 DEF Units
<1>6. rlen' \in 0 .. RBUF
  BY <1>1, <1>2, <1>4, <1>5
<1>7. Unread' = Unread
  <2>1. Unread' = Units(Len(sent)) - Units(handled + 1) - 0 - rlen'
    BY <1>1 DEF Unread, Units
  <2>2. Unread = Units(Len(sent)) - Units(handled) - 0 - rlen
    BY <1>1 DEF Unread
  <2>3. PICK a \in Nat, b \in Nat, c \in Nat :
          a = Units(Len(sent)) /\ b = Units(handled) /\ c = Units(handled + 1)
    BY <1>5
  <2>4. rlen' = rlen - (c - b)
    BY <1>1, <1>4, <2>3
  <2>. QED
    BY ONLY <2>1, <2>2, <2>3, <2>4, <1>2
<1>8. WireInv'
  BY <1>1, <1>7 DEF WireInv
<1>9. Ends = <<>>
  BY <1>1, <1>2 DEF EndInv
<1>10. state \notin {"none", "CLOSED"} /\ alive
  BY <1>1, <1>9 DEF LifeInv
<1>11. NextFrame = sent[handled + 1]
  BY DEF NextFrame
<1>. QED
  BY <1>1, <1>2, <1>3, <1>6, <1>8, <1>9, <1>10, <1>11

\* What the frame taken does to the message that is put together: it leaves
\* what a control frame follows, and an unfinished message goes on with it.
LEMMA UnfinishedGoesOn ==
    ASSUME WsTypes, handled + 1 \in 1 .. Len(sent), NEW i \in swallowed + 1 .. handled
    PROVE  /\ i \in swallowed + 1 .. handled + 1
           /\ Unfinished(i, handled + 1) <=>
                /\ Unfinished(i, handled)
                /\ sent[handled + 1].op \notin Data
                /\ sent[handled + 1].op = "CONT" => ~sent[handled + 1].fin
<1>1. handled \in Nat /\ swallowed \in Nat /\ i \in Nat /\ i <= handled
  BY SentTypes
<1>2. /\ i + 1 .. handled + 1 = (i + 1 .. handled) \cup {handled + 1}
      /\ i .. handled + 1 = (i .. handled) \cup {handled + 1}
      /\ i \in swallowed + 1 .. handled + 1
  BY <1>1
<1>. QED
  BY <1>2 DEF Unfinished, Fragments, Data

\* A message that is a beginning only.
LEMMA UnfinishedBegins ==
    ASSUME WsTypes, handled + 1 \in 1 .. Len(sent)
    PROVE  Unfinished(handled + 1, handled + 1) <=>
             sent[handled + 1].op \in Data /\ ~sent[handled + 1].fin
<1>1. handled \in Nat
  BY SentTypes
<1>2. /\ (handled + 1) + 1 .. handled + 1 = {}
      /\ handled + 1 .. handled + 1 = {handled + 1}
  BY <1>1
<1>. QED
  BY <1>2 DEF Unfinished, Fragments, Data

\* The frames handled once one more is handled.
LEMMA NextIs ==
    ASSUME WsTypes, handled + 1 \in 1 .. Len(sent)
    PROVE  \A i \in swallowed + 1 .. handled + 1 : i = handled + 1 \/ i \in swallowed + 1 .. handled
<1>1. handled \in Nat /\ swallowed \in Nat
  BY SentTypes
<1>. QED
  BY <1>1

\* What has been collected of a message after one more frame.
LEMMA PartsGrow ==
    ASSUME WsTypes, handled + 1 \in 1 .. Len(sent), NEW i \in swallowed + 1 .. handled + 1
    PROVE  /\ Collected(swallowed, handled + 1, PartsSince(i), Places) =
                IF sent[handled + 1].op \in Fragments
                THEN Append(Collected(swallowed, handled, PartsSince(i), Places), handled + 1)
                ELSE Collected(swallowed, handled, PartsSince(i), Places)
           /\ i = handled + 1 => Collected(swallowed, handled, PartsSince(i), Places) = <<>>
<1>. DEFINE h == handled + 1
<1>1. handled \in Nat /\ swallowed \in Nat /\ swallowed <= handled /\ Len(sent) \in Nat
  BY SentTypes
<1>2. h \in Nat /\ swallowed < h /\ h - 1 = handled /\ h \in 1 .. Len(sent) /\ i \in Nat /\ i <= h
  BY <1>1
<1>3. Places[h] = h /\ (h \in PartsSince(i) <=> sent[h].op \in Fragments)
  BY <1>2 DEF Places, PartsSince
<1>4. Collected(swallowed, h, PartsSince(i), Places) =
        IF sent[h].op \in Fragments
        THEN Append(Collected(swallowed, handled, PartsSince(i), Places), h)
        ELSE Collected(swallowed, handled, PartsSince(i), Places)
  <2>. HIDE DEF h
  <2>1. Collected(swallowed, h, PartsSince(i), Places) =
            IF h \in PartsSince(i) THEN Append(Collected(swallowed, h - 1, PartsSince(i), Places), Places[h])
            ELSE Collected(swallowed, h - 1, PartsSince(i), Places)
    <3>1. PICK lo, hi, P, v : lo = swallowed /\ hi = h /\ P = PartsSince(i) /\ v = Places
      OBVIOUS
    <3>2. lo \in Nat /\ hi \in Nat /\ lo < hi
      BY <1>1, <1>2, <3>1
    <3>3. Collected(lo, hi, P, v) =
            IF hi \in P THEN Append(Collected(lo, hi - 1, P, v), v[hi]) ELSE Collected(lo, hi - 1, P, v)
      BY ONLY <3>2, CollectedLast
    <3>. QED
      BY ONLY <3>1, <3>3
  <2>. QED
    BY <2>1, <1>2, <1>3
<1>5. ASSUME i = h
      PROVE  Collected(swallowed, handled, PartsSince(i), Places) = <<>>
  <2>1. \A n \in swallowed + 1 .. handled : n \notin PartsSince(i)
    BY <1>1, <1>5 DEF PartsSince
  <2>. QED
    BY <2>1, <1>1, CollectedEmpty
<1>. QED
  BY <1>4, <1>5

\* The fragments after a frame, from what they were before it.
LEMMA FragNext ==
    ASSUME UNCHANGED <<sent, swallowed>>, handled' = handled + 1,
           frag' = <<>> => \A i \in swallowed + 1 .. handled + 1 : ~Unfinished(i, handled + 1),
           frag' # <<>> => \E i \in swallowed + 1 .. handled + 1 :
                /\ Unfinished(i, handled + 1)
                /\ frag' = Collected(swallowed, handled + 1, PartsSince(i), Places)
    PROVE  FragInv'
<1>1. /\ UNCHANGED Places
      /\ \A i : PartsSince(i)' = PartsSince(i)
      /\ \A i : Unfinished(i, handled)' <=> Unfinished(i, handled + 1)
  BY DEF Places, PartsSince, Unfinished
<1>. QED
  BY <1>1 DEF FragInv

\* A control frame leaves the message as it is.
LEMMA ControlFrag ==
    ASSUME WsInv, skip = 0, UNCHANGED <<sent, swallowed, frag>>, handled' = handled + 1,
           handled + 1 \in 1 .. Len(sent), sent[handled + 1].op \notin Fragments
    PROVE  FragInv'
<1>. USE DEF WsInv
<1>1. sent[handled + 1].op \notin Data /\ sent[handled + 1].op # "CONT"
  BY DEF Fragments
<1>2. \A i \in swallowed + 1 .. handled + 1 :
         Unfinished(i, handled + 1) => i \in swallowed + 1 .. handled /\ Unfinished(i, handled)
  BY <1>1, NextIs, UnfinishedBegins, UnfinishedGoesOn
<1>3. CASE frag = <<>>
  BY <1>2, <1>3, FragNext DEF FragInv
<1>4. CASE frag # <<>>
  <2>1. PICK i \in swallowed + 1 .. handled :
          /\ Unfinished(i, handled)
          /\ frag = Collected(swallowed, handled, PartsSince(i), Places)
    BY <1>4 DEF FragInv
  <2>2. i \in swallowed + 1 .. handled + 1 /\ Unfinished(i, handled + 1)
    BY <2>1, <1>1, UnfinishedGoesOn
  <2>3. frag = Collected(swallowed, handled + 1, PartsSince(i), Places)
    BY <2>1, <2>2, PartsGrow
  <2>. QED
    BY <1>4, <2>2, <2>3, FragNext
<1>. QED
  BY <1>3, <1>4

\* A data frame starts a message, whatever came before it.
LEMMA DataFrag ==
    ASSUME WsInv, skip = 0, UNCHANGED <<sent, swallowed>>, handled' = handled + 1,
           handled + 1 \in 1 .. Len(sent), sent[handled + 1].op \in Data,
           frag' = IF sent[handled + 1].fin THEN <<>> ELSE <<handled + 1>>
    PROVE  FragInv'
<1>. USE DEF WsInv
<1>1. \A i \in swallowed + 1 .. handled + 1 :
         Unfinished(i, handled + 1) => i = handled + 1 /\ ~sent[handled + 1].fin
  BY NextIs, UnfinishedBegins, UnfinishedGoesOn
<1>2. CASE sent[handled + 1].fin
  BY <1>1, <1>2, FragNext
<1>3. CASE ~sent[handled + 1].fin
  <2>1. handled \in Nat /\ swallowed \in Nat /\ swallowed <= handled
    BY SentTypes
  <2>2. handled + 1 \in swallowed + 1 .. handled + 1
    BY <2>1
  <2>3. Unfinished(handled + 1, handled + 1)
    BY <1>3, UnfinishedBegins
  <2>. DEFINE i == handled + 1
  <2>4. ASSUME NEW h \in swallowed + 1 .. handled + 1, h = handled + 1
        PROVE  Collected(swallowed, handled + 1, PartsSince(h), Places) = Append(<<>>, handled + 1)
    BY <2>4, PartsGrow DEF Fragments
  <2>5. Append(<<>>, handled + 1) = <<handled + 1>> /\ <<handled + 1>> # <<>>
    OBVIOUS
  <2>6. frag' = Collected(swallowed, handled + 1, PartsSince(handled + 1), Places)
    BY <1>3, <2>2, <2>4, <2>5
  <2>. QED
    BY <1>3, <2>2, <2>3, <2>5, <2>6, FragNext
<1>. QED
  BY <1>2, <1>3

\* A continuation goes on with a message, ends it, or belongs to none.
LEMMA ContinuationFrag ==
    ASSUME WsInv, skip = 0, UNCHANGED <<sent, swallowed>>, handled' = handled + 1,
           handled + 1 \in 1 .. Len(sent), sent[handled + 1].op = "CONT",
           frag' = IF frag = <<>> \/ sent[handled + 1].fin THEN <<>> ELSE Append(frag, handled + 1)
    PROVE  FragInv'
<1>. USE DEF WsInv
<1>1. sent[handled + 1].op \notin Data /\ sent[handled + 1].op \in Fragments
  BY DEF Data, Fragments
<1>2. \A i \in swallowed + 1 .. handled + 1 :
         Unfinished(i, handled + 1) =>
            /\ i \in swallowed + 1 .. handled /\ Unfinished(i, handled) /\ ~sent[handled + 1].fin
  BY <1>1, NextIs, UnfinishedBegins, UnfinishedGoesOn
<1>3. CASE frag = <<>>
  BY <1>2, <1>3, FragNext DEF FragInv
<1>4. CASE sent[handled + 1].fin
  BY <1>2, <1>4, FragNext
<1>5. CASE frag # <<>> /\ ~sent[handled + 1].fin
  <2>1. PICK i \in swallowed + 1 .. handled :
          /\ Unfinished(i, handled)
          /\ frag = Collected(swallowed, handled, PartsSince(i), Places)
    BY <1>5 DEF FragInv
  <2>2. i \in swallowed + 1 .. handled + 1 /\ Unfinished(i, handled + 1)
    BY <2>1, <1>1, <1>5, UnfinishedGoesOn
  <2>3. frag' = Collected(swallowed, handled + 1, PartsSince(i), Places)
    BY <2>1, <2>2, <1>1, <1>5, PartsGrow
  <2>4. frag' # <<>>
    <3>1. frag \in Seq(1 .. handled) /\ handled \in Nat
      BY SentTypes DEF WsTypes
    <3>2. frag \in Seq(Nat) /\ handled + 1 \in Nat
      BY <3>1
    <3>3. frag' = Append(frag, handled + 1)
      BY <1>5
    <3>. QED
      BY <3>2, <3>3, AppendFacts
  <2>. QED
    BY <2>2, <2>3, <2>4, FragNext
<1>. QED
  BY <1>3, <1>4, <1>5

\* A frame that ends nothing: the script is told of a message or of nothing.
LEMMA HandleStepInv ==
    ASSUME WsInv, Take, UNCHANGED <<state, told>>, WsTypes', FragInv',
           UNCHANGED evs \/ \E f \in Seq(Nat) : Fire("message", f)
    PROVE  WsInv' /\ UNCHANGED Ends
<1>. USE DEF WsInv
<1>1. /\ pc = "decode" /\ UNCHANGED <<sent, peer, alive, pc, opened, swallowed, skip>>
      /\ WireInv' /\ Ends = <<>> /\ state \notin {"none", "CLOSED"} /\ alive
  BY TakeFacts
<1>2. UNCHANGED Ends
  BY EvsSame, FireFacts
<1>3. UNCHANGED PeerClosed
  BY <1>1 DEF PeerClosed
<1>4. LifeInv'
  BY <1>1, <1>2 DEF LifeInv
<1>5. EndInv'
  BY <1>1, <1>2, <1>3 DEF EndInv
<1>6. OpenInv'
  <2>1. opened \/ state' # "OPEN"
    BY <1>1 DEF OpenInv
  <2>2. CASE UNCHANGED evs
    BY <2>2, <1>1 DEF OpenInv
  <2>3. CASE \E f \in Seq(Nat) : Fire("message", f)
    BY <2>1, <2>3, <1>1, OpenTold
  <2>. QED
    BY <2>2, <2>3
<1>. QED
  BY <1>1, <1>2, <1>4, <1>5, <1>6

\* The fragments are frames that were handled.
LEMMA FragTypes ==
    ASSUME WsTypes, skip = 0, handled + 1 \in 1 .. Len(sent)
    PROVE  /\ frag \in Seq(Nat) /\ handled + 1 \in Nat
           /\ frag \in Seq(1 .. handled + 1) /\ <<handled + 1>> \in Seq(1 .. handled + 1)
           /\ Append(frag, handled + 1) \in Seq(1 .. handled + 1)
           /\ <<>> \in Seq(1 .. handled + 1)
           /\ <<handled + 1>> \in Seq(Nat) /\ Append(frag, handled + 1) \in Seq(Nat)
<1>1. handled \in Nat /\ frag \in Seq(1 .. handled)
  BY SentTypes DEF WsTypes
<1>2. 1 .. handled \subseteq 1 .. handled + 1 /\ 1 .. handled + 1 \subseteq Nat /\ handled + 1 \in 1 .. handled + 1
  BY <1>1
<1>3. frag \in Seq(1 .. handled + 1)
  BY <1>1, <1>2
<1>4. frag \in Seq(Nat) /\ handled + 1 \in Nat
  BY <1>2, <1>3
<1>. QED
  BY <1>2, <1>3, <1>4

\* What a frame other than a close frame does, told by its handler.
LEMMA HandleFacts ==
    ASSUME WsInv, HandleControl \/ HandleData \/ HandleContinuation
    PROVE  /\ WsInv' /\ UNCHANGED Ends /\ Take /\ state' = state
           /\ sent[handled + 1].op \notin Fragments =>
                UNCHANGED <<evs, frag>>
           /\ sent[handled + 1].op \in Data /\ sent[handled + 1].fin =>
                Fire("message", <<handled + 1>>)
           /\ sent[handled + 1].op \in Data /\ ~sent[handled + 1].fin => UNCHANGED evs
           /\ sent[handled + 1].op = "CONT" /\ sent[handled + 1].fin /\ frag # <<>> =>
                Fire("message", Append(frag, handled + 1))
           /\ sent[handled + 1].op = "CONT" /\ ~(sent[handled + 1].fin /\ frag # <<>>) =>
                UNCHANGED evs
           /\ handled + 1 \in 1 .. Len(sent) /\ sent[handled + 1].op # "CLOSE"
<1>0. Take /\ UNCHANGED <<state, told>> /\ inScript' \in BOOLEAN
  BY DEF HandleControl, HandleData, HandleContinuation
<1>1. /\ pc = "decode" /\ UNCHANGED <<sent, peer, alive, pc, opened, swallowed, skip>>
      /\ handled' = handled + 1 /\ handled + 1 \in 1 .. Len(sent)
      /\ rlen' \in 0 .. RBUF /\ handled' \in 0 .. Len(sent') /\ swallowed' \in 0 .. handled'
      /\ NextFrame = sent[handled + 1] /\ skip = 0 /\ skip' = 0
  BY <1>0, TakeFacts
<1>. DEFINE f == sent[handled + 1]
<1>2. /\ frag \in Seq(1 .. handled + 1) /\ <<handled + 1>> \in Seq(1 .. handled + 1)
      /\ Append(frag, handled + 1) \in Seq(1 .. handled + 1)
      /\ <<>> \in Seq(1 .. handled + 1)
      /\ <<handled + 1>> \in Seq(Nat) /\ Append(frag, handled + 1) \in Seq(Nat)
  BY <1>1, FragTypes DEF WsInv
<1>3. WsTypes
  BY DEF WsInv
<1>4. ASSUME frag' \in Seq(1 .. handled + 1), FragInv',
             UNCHANGED evs \/ \E s \in Seq(Nat) : Fire("message", s)
      PROVE  WsInv' /\ UNCHANGED Ends
  <2>1. "message" \in {"open", "message", "close", "error"} /\ evs \in Seq(Told)
    BY <1>3 DEF WsTypes
  <2>2. evs' \in Seq(Told)
    BY <1>3, <1>4, <2>1, FireFacts
  <2>3. WsTypes'
    BY <1>0, <1>1, <1>3, <1>4, <2>2 DEF WsTypes
  <2>. QED
    BY <1>0, <1>4, <2>3, HandleStepInv
<1>5. CASE HandleControl
  <2>1. f.op \in {"PING", "PONG"} /\ UNCHANGED <<frag, evs>>
    BY <1>1, <1>5 DEF HandleControl
  <2>2. f.op \notin Fragments /\ f.op \notin Data /\ f.op # "CONT" /\ f.op # "CLOSE"
    BY <2>1 DEF Fragments, Data
  <2>3. FragInv'
    BY <1>1, <2>1, <2>2, ControlFrag
  <2>4. WsInv' /\ UNCHANGED Ends
    BY <1>2, <1>4, <2>1, <2>3
  <2>. QED
    BY <1>0, <1>1, <2>1, <2>2, <2>4
<1>6. CASE HandleData
  <2>1. /\ f.op \in Data
        /\ f.fin => Fire("message", <<handled + 1>>) /\ frag' = <<>>
        /\ ~f.fin => UNCHANGED evs /\ frag' = <<handled + 1>>
    BY <1>1, <1>6 DEF HandleData
  <2>2. f.op \in Fragments /\ f.op # "CONT" /\ f.op # "CLOSE"
    BY <2>1 DEF Fragments, Data
  <2>3. FragInv'
    BY <1>1, <2>1, DataFrag
  <2>4. WsInv' /\ UNCHANGED Ends
    BY <1>2, <1>4, <2>1, <2>3
  <2>. QED
    BY <1>0, <1>1, <2>1, <2>2, <2>4
<1>7. CASE HandleContinuation
  <2>1. /\ f.op = "CONT"
        /\ f.fin /\ frag # <<>> => Fire("message", Append(frag, handled + 1)) /\ frag' = <<>>
        /\ ~(f.fin /\ frag # <<>>) =>
             UNCHANGED evs /\ frag' = IF frag = <<>> THEN frag ELSE Append(frag, handled + 1)
    BY <1>1, <1>7 DEF HandleContinuation
  <2>2. f.op \in Fragments /\ f.op \notin Data /\ f.op # "CLOSE"
    BY <2>1 DEF Fragments, Data
  <2>3. FragInv'
    BY <1>1, <2>1, ContinuationFrag
  <2>4. WsInv' /\ UNCHANGED Ends
    BY <1>2, <1>4, <2>1, <2>3
  <2>. QED
    BY <1>0, <1>1, <2>1, <2>2, <2>4
<1>. QED
  BY <1>5, <1>6, <1>7

\* A close frame ends the connection; the pump goes on.
LEMMA HandleCloseInv ==
    ASSUME WsInv, HandleClose
    PROVE  WsInv'
<1>0. /\ Take /\ UNCHANGED <<frag, told>> /\ inScript' = TRUE /\ state' = "CLOSED"
      /\ Fire("close", <<>>) /\ NextFrame.op = "CLOSE"
  BY DEF HandleClose
<1>1. /\ pc = "decode" /\ UNCHANGED <<sent, peer, alive, pc, opened, swallowed, skip>>
      /\ handled' = handled + 1 /\ handled + 1 \in 1 .. Len(sent)
      /\ rlen' \in 0 .. RBUF /\ handled' \in 0 .. Len(sent') /\ swallowed' \in 0 .. handled'
      /\ NextFrame = sent[handled + 1] /\ WireInv' /\ Ends = <<>> /\ skip = 0 /\ skip' = 0
  BY <1>0, TakeFacts
<1>2. PeerClosed /\ handled' = Len(sent)
  BY <1>0, <1>1 DEF WsInv, WireInv, PeerClosed, WsTypes
<1>3. sent[handled + 1].op \notin Fragments
  BY <1>0, <1>1 DEF Fragments, Data
<1>4. FragInv'
  BY <1>0, <1>1, <1>3, ControlFrag
<1>5. WsTypes'
  <2>1. <<>> \in Seq(Nat) /\ "close" \in {"open", "message", "close", "error"}
    OBVIOUS
  <2>2. evs' \in Seq(Told)
    BY <1>0, <2>1, FireFacts DEF WsInv
  <2>3. frag \in Seq(1 .. handled + 1)
    BY <1>1, FragTypes DEF WsInv
  <2>. QED
    BY <1>0, <1>1, <2>2, <2>3 DEF WsInv, WsTypes
<1>. QED
  BY <1>0, <1>1, <1>2, <1>4, <1>5, EndStepInv

\* Out of step: what the decoder takes for a frame.
LEMMA HandleGarbledInv ==
    ASSUME WsInv, HandleGarbled
    PROVE  WsInv'
<1>. USE DEF WsInv
<1>1. /\ pc = "decode" /\ skip > 0
      /\ UNCHANGED <<sent, peer, alive, pc, opened, handled, swallowed, told>>
  BY DEF HandleGarbled, wire
<1>2. PICK n \in 1 .. rlen : rlen' = rlen - n /\ skip' = skip + n
  BY DEF HandleGarbled
<1>3. /\ skip \in Nat /\ rlen \in Nat /\ RBUF \in Nat /\ rlen <= RBUF /\ n \in Nat /\ n <= rlen
      /\ Len(sent) \in Nat /\ handled \in Nat /\ handled <= Len(sent)
      /\ \A k \in 1 .. Len(sent) : sent[k].end \in Nat
  <2>1. skip \in Nat /\ rlen \in 0 .. RBUF /\ RBUF \in Nat
    BY SentTypes DEF WsTypes
  <2>. QED
    BY <2>1, SentTypes
<1>4. skip' \in Nat /\ skip' > 0 /\ rlen' \in 0 .. RBUF
  BY ONLY <1>1, <1>2, <1>3
<1>5. WireInv' /\ FragInv'
  <2>1. /\ Units(handled) \in Nat /\ Units(Len(sent)) \in Nat
        /\ UNCHANGED <<Units(handled), Units(Len(sent))>>
    BY <1>1, <1>3 DEF Units
  <2>2. PICK a \in Nat, b \in Nat : a = Units(Len(sent)) /\ b = Units(handled)
    BY <2>1
  <2>3. Unread' = a - b - (skip + n) - (rlen - n) /\ Unread = a - b - skip - rlen
    BY <1>2, <2>1, <2>2 DEF Unread
  <2>4. Unread' = Unread
    BY ONLY <1>3, <2>2, <2>3
  <2>. QED
    BY <1>1, <1>4, <2>4 DEF WireInv, FragInv
<1>6. /\ alive /\ state # "none" /\ (state = "CLOSED" => Ends # <<>>)
      /\ opened \/ state # "OPEN"
  BY <1>1 DEF LifeInv, OpenInv
<1>7. ASSUME NEW f, frag' = f, f \in Seq({0}), UNCHANGED state, inScript' \in BOOLEAN,
             UNCHANGED evs \/ Fire("message", << 0 >>)
      PROVE  WsInv'
  <2>1. << 0 >> \in Seq(Nat) /\ "message" \in {"open", "message", "close", "error"}
    OBVIOUS
  <2>2. evs' \in Seq(Told)
    BY <1>7, <2>1, FireFacts DEF WsTypes
  <2>3. UNCHANGED Ends
    BY <1>7, <2>1, EvsSame, FireFacts
  <2>4. WsTypes'
    <3>1. frag' \in Seq(IF skip' > 0 THEN {0} ELSE 1 .. handled')
      BY <1>4, <1>7
    <3>. QED
      BY <1>1, <1>4, <1>7, <2>2, <3>1 DEF WsTypes
  <2>5. UNCHANGED PeerClosed
    BY <1>1 DEF PeerClosed
  <2>6. LifeInv' /\ EndInv'
    BY <1>1, <1>3, <1>4, <1>6, <1>7, <2>3, <2>5 DEF LifeInv, EndInv
  <2>7. OpenInv'
    <3>1. CASE UNCHANGED evs
      BY <3>1, <1>1, <1>7 DEF OpenInv
    <3>2. CASE Fire("message", << 0 >>)
      BY <3>2, <1>1, <1>6, <1>7, <2>1, OpenTold
    <3>. QED
      BY <1>7, <3>1, <3>2
  <2>. QED
    BY <1>5, <2>4, <2>6, <2>7
<1>8. CASE inScript' = TRUE /\ state' = "CLOSED" /\ Fire("close", <<>>) /\ UNCHANGED frag
  <2>1. <<>> \in Seq(Nat) /\ "close" \in {"open", "message", "close", "error"}
    OBVIOUS
  <2>2. evs' \in Seq(Told)
    BY <1>8, <2>1, FireFacts
  <2>3. frag' \in Seq(IF skip' > 0 THEN {0} ELSE 1 .. handled')
    BY <1>1, <1>4, <1>8 DEF WsTypes
  <2>4. WsTypes'
    BY <1>1, <1>4, <1>8, <2>2, <2>3 DEF WsTypes
  <2>. QED
    BY <1>1, <1>4, <1>5, <1>8, <2>4, EndStepInv
<1>9. frag \in Seq({0}) /\ << 0 >> \in Seq({0}) /\ <<>> \in Seq({0})
  BY <1>1 DEF WsTypes
<1>10. \/ inScript' = FALSE /\ UNCHANGED <<state, frag, evs>>
       \/ inScript' = FALSE /\ frag' = << 0 >> /\ UNCHANGED <<state, evs>>
       \/ inScript' = TRUE /\ frag' = <<>> /\ Fire("message", << 0 >>) /\ UNCHANGED state
       \/ inScript' = TRUE /\ state' = "CLOSED" /\ Fire("close", <<>>) /\ UNCHANGED frag
  BY DEF HandleGarbled
<1>. QED
  BY <1>7, <1>8, <1>9, <1>10

\* Out of step: a length for which there is no memory, or too little.
LEMMA GarbledLengthInv ==
    ASSUME WsInv, DecodeGarbledLength
    PROVE  WsInv'
<1>. USE DEF WsInv
<1>1. /\ pc = "decode" /\ skip > 0 /\ pc' \in {"sweep", "corrupt"}
      /\ UNCHANGED <<sent, peer, alive, opened, rlen, handled, frag, swallowed, skip, told>>
  BY DEF DecodeGarbledLength, WsFail, wire
<1>2. WireInv' /\ FragInv'
  BY <1>1, WireSame, FragSame
<1>3. Unread' >= 0 /\ rlen' \in 0 .. RBUF /\ alive' \in BOOLEAN /\ alive'
  BY <1>1, <1>2 DEF WireInv, WsTypes, LifeInv
<1>4. CASE UNCHANGED <<state, evs>> /\ inScript' = FALSE
  <2>1. state = "CLOSED" => Ends # <<>>
    BY <1>1 DEF LifeInv
  <2>. QED
    BY <1>1, <1>3, <1>4, <2>1, QuietInv
<1>5. CASE /\ state # "CLOSED" /\ state' = "CLOSED" /\ Fire("error", <<>>) /\ inScript' = TRUE
           /\ pc' = "sweep"
  <2>1. <<>> \in Seq(Nat)
    OBVIOUS
  <2>2. evs' \in Seq(Told)
    BY <1>5, <2>1, FireFacts
  <2>3. WsTypes'
    BY <1>1, <1>5, <2>2 DEF WsTypes
  <2>4. Ends = <<>>
    BY <1>5 DEF EndInv
  <2>. QED
    BY <1>1, <1>2, <1>5, <2>3, <2>4, EndStepInv
<1>. QED
  BY <1>4, <1>5 DEF DecodeGarbledLength, WsFail

-----------------------------------------------------------------------------

\* Every step keeps the invariant.
LEMMA WsNextInv ==
    ASSUME WsInv, [WsNext]_wsVars
    PROVE  WsInv'
<1>1. CASE PeerSends
  <2>1. PICK f \in Frames : PeerFrame(f.op, f.fin, f.size)
    BY <1>1 DEF PeerSends
  <2>2. /\ f.op \in {"TEXT", "BIN", "CONT", "CLOSE", "PING", "PONG"}
        /\ f.fin \in BOOLEAN /\ f.size \in Nat \ {0}
    BY WebSocketAssumption
  <2>. QED
    BY <2>1, <2>2, PeerFrameInv
<1>2. CASE PeerAnswersClose
  <2>1. PeerFrame("CLOSE", TRUE, 1)
    BY <1>2 DEF PeerAnswersClose
  <2>2. 1 \in Nat \ {0}
    OBVIOUS
  <2>. QED
    BY <2>1, <2>2, PeerFrameInv
<1>3. CASE \E how \in {"eof", "reset"} : PeerEnds(how)
  BY <1>3, PeerEndsInv
<1>4. CASE Connect
  BY <1>4, ConnectInv
<1>5. CASE \E len \in Lengths : JsClose(len)
  BY <1>5, JsCloseInv
<1>6. CASE BridgeDestroy
  BY <1>6, BridgeDestroyInv
<1>7. CASE Pump
  BY <1>7, PumpStartsInv, RecvInv, IdleSteps, RecvEndsInv, HandleFacts, HandleCloseInv,
     HandleGarbledInv, GarbledLengthInv DEF Pump
<1>8. CASE UNCHANGED wsVars
  <2>1. /\ UNCHANGED <<sent, peer, state, alive, pc, inScript, opened, rlen, handled,
                       frag, swallowed, skip, told, evs>>
    BY <1>8 DEF wsVars
  <2>2. UNCHANGED <<Ends, PeerClosed>>
    BY <2>1, EvsSame DEF PeerClosed
  <2>3. WireInv' /\ FragInv'
    BY <2>1, WireSame, FragSame DEF WsInv
  <2>4. WsTypes' /\ LifeInv' /\ EndInv' /\ OpenInv'
    BY <2>1, <2>2 DEF WsInv, WsTypes, LifeInv, EndInv, OpenInv
  <2>. QED
    BY <2>3, <2>4 DEF WsInv
<1>. QED
  BY <1>1, <1>2, <1>3, <1>4, <1>5, <1>6, <1>7, <1>8 DEF WsNext

\* The events of a connection: the type invariant, onopen before the others
\* and at most once (OpenFirst), and the end that the script is told of
\* (EndIsTold: one, or a second onclose when the stream ends behind a close
\* frame, or onclose again and again when the decoder is out of step), for every
\* set of frames, every buffer and every cut of the stream into reads.
THEOREM WebSocketInOrder == WsSpec => []EventsInOrder
<1>1. WsInv => EventsInOrder
  <2>. SUFFICES ASSUME WsInv PROVE EventsInOrder
    OBVIOUS
  <2>1. WsTypeOK
    BY DEF WsInv, WsTypes, WireInv, WsTypeOK
  <2>2. OpenFirst
    <3>1. DOMAIN evs = 1 .. Len(evs)
      BY DEF WsInv, WsTypes
    <3>. QED
      BY <3>1 DEF WsInv, OpenInv, OpenFirst
  <2>3. EndIsTold
    <3>1. DOMAIN Ends = 1 .. Len(Ends)
      BY EndsTypes DEF WsInv
    <3>. QED
      BY <3>1 DEF WsInv, EndInv, LifeInv, EndIsTold
  <2>. QED
    BY <2>1, <2>2, <2>3 DEF EventsInOrder
<1>. QED
  BY <1>1, WsInitInv, WsNextInv, PTL DEF WsSpec

-----------------------------------------------------------------------------
(* What the pump gives the script is the peer's messages (StreamSpec). *)

\* The fragments of the message that ends with frame j, the frames a message
\* ends with, and the messages, in the stream after frame lo.
Parts(lo, j) == {k \in 1 .. Len(sent) : /\ sent[k].op \in Fragments
                                        /\ \E i \in lo + 1 .. k : IsMessage(i, j)}
Finals(lo) == {j \in 1 .. Len(sent) : \E i \in lo + 1 .. j : IsMessage(i, j)}
Messages(lo) == [j \in 1 .. Len(sent) |-> Message(lo, j)]

\* Message and Complete collect them.
MessagesAre ==
    \A lo \in Nat : \A j \in 1 .. Len(sent) :
        lo <= j => Message(lo, j) = Collected(lo, j, Parts(lo, j), Places)
CompletesAre ==
    \A lo \in Nat : \A from \in 0 .. Len(sent) :
        Complete(lo, from) = Collected(from, Len(sent), Finals(lo), Messages(lo))

\* Message, as a run of the collecting loop.
LEMMA MessageIs == WsTypes => MessagesAre
<1>. SUFFICES ASSUME WsTypes, NEW lo \in Nat, NEW j \in 1 .. Len(sent), lo <= j
              PROVE  Message(lo, j) = Collected(lo, j, Parts(lo, j), Places)
  BY DEF MessagesAre
<1>. DEFINE IsUpTo(f) == f = [k \in lo .. j |->
            IF k = lo THEN <<>>
            ELSE IF /\ sent[k].op \in Data \cup {"CONT"}
                    /\ \E i \in lo + 1 .. k : IsMessage(i, j)
                 THEN Append(f[k - 1], k)
            ELSE f[k - 1]]
<1>0. Len(sent) \in Nat /\ j \in Nat /\ \A k \in lo .. j : k = lo \/ k \in 1 .. Len(sent)
  BY SentTypes
<1>1. Message(lo, j) = (CHOOSE f : IsUpTo(f))[j]
  BY DEF Message
<1>2. ASSUME NEW f PROVE IsUpTo(f) <=> Collects(f, lo, j, Parts(lo, j), Places)
  <2>1. \A k \in 1 .. Len(sent) :
           /\ Places[k] = k
           /\ k \in Parts(lo, j) <=> /\ sent[k].op \in Data \cup {"CONT"}
                                     /\ \E i \in lo + 1 .. k : IsMessage(i, j)
    BY DEF Parts, Places, Fragments
  <2>2. [k \in lo .. j |->
            IF k = lo THEN <<>>
            ELSE IF /\ sent[k].op \in Data \cup {"CONT"}
                    /\ \E i \in lo + 1 .. k : IsMessage(i, j)
                 THEN Append(f[k - 1], k)
            ELSE f[k - 1]]
        = [k \in lo .. j |-> IF k = lo THEN <<>>
                             ELSE IF k \in Parts(lo, j) THEN Append(f[k - 1], Places[k])
                             ELSE f[k - 1]]
    BY <1>0, <2>1
  <2>. QED
    BY <2>2 DEF Collects
<1>. HIDE DEF IsUpTo
<1>3. PICK g : Collects(g, lo, j, Parts(lo, j), Places)
  BY <1>0, CollectsExists
<1>4. IsUpTo(CHOOSE f : IsUpTo(f))
  BY <1>2, <1>3
<1>5. Collects((CHOOSE f : IsUpTo(f)), lo, j, Parts(lo, j), Places)
  BY <1>2, <1>4
<1>6. Collected(lo, j, Parts(lo, j), Places) = (CHOOSE f : IsUpTo(f))[j]
  BY <1>0, <1>5, CollectedIs
<1>. QED
  BY <1>1, <1>6

\* Complete, as a run of the collecting loop.
LEMMA CompleteIs == WsTypes => CompletesAre
<1>. SUFFICES ASSUME WsTypes, NEW lo \in Nat, NEW from \in 0 .. Len(sent)
              PROVE  Complete(lo, from) = Collected(from, Len(sent), Finals(lo), Messages(lo))
  BY DEF CompletesAre
<1>. DEFINE IsUpTo(f) == f = [j \in from .. Len(sent) |->
            IF j = from THEN <<>>
            ELSE IF \E i \in lo + 1 .. j : IsMessage(i, j)
                 THEN Append(f[j - 1], Message(lo, j))
            ELSE f[j - 1]]
<1>0. /\ Len(sent) \in Nat /\ from \in Nat /\ from <= Len(sent)
      /\ \A j \in from .. Len(sent) : j = from \/ j \in 1 .. Len(sent)
  BY SentTypes
<1>1. Complete(lo, from) = (CHOOSE f : IsUpTo(f))[Len(sent)]
  BY DEF Complete
<1>2. ASSUME NEW f PROVE IsUpTo(f) <=> Collects(f, from, Len(sent), Finals(lo), Messages(lo))
  <2>1. \A j \in 1 .. Len(sent) :
           /\ Messages(lo)[j] = Message(lo, j)
           /\ j \in Finals(lo) <=> \E i \in lo + 1 .. j : IsMessage(i, j)
    BY DEF Finals, Messages
  <2>2. [j \in from .. Len(sent) |->
            IF j = from THEN <<>>
            ELSE IF \E i \in lo + 1 .. j : IsMessage(i, j)
                 THEN Append(f[j - 1], Message(lo, j))
            ELSE f[j - 1]]
        = [j \in from .. Len(sent) |-> IF j = from THEN <<>>
                             ELSE IF j \in Finals(lo) THEN Append(f[j - 1], Messages(lo)[j])
                             ELSE f[j - 1]]
    BY <1>0, <2>1
  <2>. QED
    BY <2>2 DEF Collects
<1>. HIDE DEF IsUpTo
<1>3. PICK g : Collects(g, from, Len(sent), Finals(lo), Messages(lo))
  BY <1>0, CollectsExists
<1>4. IsUpTo(CHOOSE f : IsUpTo(f))
  BY <1>2, <1>3
<1>5. Collects((CHOOSE f : IsUpTo(f)), from, Len(sent), Finals(lo), Messages(lo))
  BY <1>2, <1>4
<1>6. Collected(from, Len(sent), Finals(lo), Messages(lo)) = (CHOOSE f : IsUpTo(f))[Len(sent)]
  <2>1. PICK u : u = (CHOOSE f : IsUpTo(f))
    OBVIOUS
  <2>2. Collects(u, from, Len(sent), Finals(lo), Messages(lo))
    BY <1>5, <2>1
  <2>3. Collected(from, Len(sent), Finals(lo), Messages(lo)) = u[Len(sent)]
    <3>1. PICK n \in Nat : n = Len(sent)
      BY <1>0
    <3>2. PICK P, v : P = Finals(lo) /\ v = Messages(lo)
      OBVIOUS
    <3>3. from \in Nat /\ from <= n /\ Collects(u, from, n, P, v)
      BY <1>0, <2>2, <3>1, <3>2
    <3>4. Collected(from, n, P, v) = u[n]
      BY <3>3, CollectedIs
    <3>. QED
      BY <3>1, <3>2, <3>4
  <2>. QED
    BY <2>1, <2>3
<1>. QED
  BY <1>1, <1>6

\* Frames that are parts of one message are not parts of another: a message has
\* one beginning, and the next one begins behind its end.
LEMMA OneBeginning ==
    ASSUME WsTypes, NEW i \in 1 .. Len(sent), NEW j \in 1 .. Len(sent), NEW h \in 1 .. Len(sent),
           i <= j, h <= j, IsMessage(i, j), IsMessage(h, j)
    PROVE  i = h
<1>1. Len(sent) \in Nat
  BY SentTypes
<1>2. \A a, b \in 1 .. Len(sent) : a < b /\ b <= j => b \in a + 1 .. j
  BY <1>1
<1>. QED
  BY <1>1, <1>2 DEF IsMessage

\* The next message begins behind the end of the one before.
LEMMA NextBegins ==
    ASSUME WsTypes, NEW i \in 1 .. Len(sent), NEW j \in 1 .. Len(sent),
           NEW h \in 1 .. Len(sent), NEW k \in 1 .. Len(sent),
           i <= j, h <= k, j < k, IsMessage(i, j), IsMessage(h, k)
    PROVE  j < h
<1>1. Len(sent) \in Nat
  BY SentTypes
<1>2. h <= j => j \in h .. k - 1
  BY <1>1
<1>3. sent[j].fin /\ sent[j].op \in Data \cup {"CONT"}
  BY DEF IsMessage
<1>4. ~(h <= j)
  BY <1>2, <1>3 DEF IsMessage
<1>. QED
  BY <1>1, <1>4

\* A message is the fragments since its beginning.
LEMMA MessageParts ==
    ASSUME WsTypes, NEW lo \in Nat, NEW j \in 1 .. Len(sent), NEW i \in lo + 1 .. j, IsMessage(i, j)
    PROVE  Message(lo, j) = Collected(lo, j, PartsSince(i), Places)
<1>1. Len(sent) \in Nat /\ i \in 1 .. Len(sent) /\ j \in Nat /\ lo <= j
  BY SentTypes
<1>2. \A k \in lo + 1 .. j : k \in Parts(lo, j) <=> k \in PartsSince(i)
  <2>1. SUFFICES ASSUME NEW k \in lo + 1 .. j
                 PROVE  (\E h \in lo + 1 .. k : IsMessage(h, j)) <=> i <= k
    BY <1>1 DEF Parts, PartsSince
  <2>2. ASSUME NEW h \in lo + 1 .. k, IsMessage(h, j) PROVE i <= k
    <3>1. h \in 1 .. Len(sent) /\ h <= j /\ i <= j
      BY <1>1
    <3>2. h = i
      BY <3>1, <1>1, <2>2, OneBeginning
    <3>. QED
      BY <3>2
  <2>3. i <= k => i \in lo + 1 .. k
    BY <1>1
  <2>. QED
    BY <2>2, <2>3
<1>3. Collected(lo, j, Parts(lo, j), Places) = Collected(lo, j, PartsSince(i), Places)
  BY <1>1, <1>2, CollectedAgree
<1>. QED
  BY <1>1, <1>3, MessageIs DEF MessagesAre

\* A message is a sequence of frames.
LEMMA MessagesType ==
    ASSUME WsTypes, NEW lo \in Nat
    PROVE  \A j \in 1 .. Len(sent) : j \in Finals(lo) => Messages(lo)[j] \in Seq(Nat)
<1>1. Len(sent) \in Nat
  BY SentTypes
<1>2. SUFFICES ASSUME NEW j \in 1 .. Len(sent), j \in Finals(lo) PROVE Message(lo, j) \in Seq(Nat)
  BY DEF Messages
<1>3. lo <= j /\ j \in lo .. Len(sent)
  BY <1>1, <1>2 DEF Finals
<1>4. \A k \in lo + 1 .. Len(sent) : k \in Parts(lo, j) => Places[k] \in Nat
  BY <1>1 DEF Places
<1>5. Collected(lo, j, Parts(lo, j), Places) \in Seq(Nat)
  BY <1>1, <1>3, <1>4, CollectedType
<1>. QED
  BY <1>3, <1>5, MessageIs DEF MessagesAre

\* A frame of the peer completes a message or none; the messages before it stay.
LEMMA SendStep ==
    ASSUME WsTypes, WsTypes', NEW op \in {"TEXT", "BIN", "CONT", "CLOSE", "PING", "PONG"},
           NEW fin \in BOOLEAN, NEW size \in Nat \ {0}, PeerFrame(op, fin, size)
    PROVE  \/ UNCHANGED Complete(swallowed, handled)
           \/ /\ Complete(swallowed, handled)' # <<>>
              /\ Front(Complete(swallowed, handled)') = Complete(swallowed, handled)
<1>. DEFINE L == Len(sent)
            M == L + 1
<1>1. UNCHANGED <<handled, swallowed>>
  BY DEF PeerFrame
<1>2. /\ Len(sent') = M /\ L \in Nat /\ \A k \in 1 .. L : sent'[k] = sent[k]
  BY SentGrows
<1>3. /\ handled \in Nat /\ handled <= L /\ swallowed \in Nat /\ swallowed <= handled
      /\ M \in Nat /\ M - 1 = L /\ handled < M
  BY <1>2, SentTypes
<1>4. ASSUME NEW j \in 1 .. L
      PROVE  \A i \in swallowed + 1 .. j : IsMessage(i, j)' <=> IsMessage(i, j)
  <2>1. SUFFICES ASSUME NEW i \in swallowed + 1 .. j PROVE IsMessage(i, j)' <=> IsMessage(i, j)
    OBVIOUS
  <2>2. sent'[i] = sent[i] /\ sent'[j] = sent[j]
    BY <1>2, <1>3
  <2>3. \A k \in i + 1 .. j : sent'[k] = sent[k]
    BY <1>2, <1>3
  <2>4. \A k \in i .. j - 1 : sent'[k] = sent[k]
    BY <1>2, <1>3
  <2>. QED
    BY <2>2, <2>3, <2>4 DEF IsMessage
<1>5. /\ \A lo \in Nat : \A j \in 1 .. Len(sent') :
           lo <= j => Message(lo, j)' = Collected(lo, j, Parts(lo, j)', Places')
      /\ \A lo \in Nat : \A from \in 0 .. Len(sent') :
           Complete(lo, from)' = Collected(from, Len(sent'), Finals(lo)', Messages(lo)')
  <2>1. MessagesAre' /\ CompletesAre'
    BY MessageIs, CompleteIs, PTL
  <2>. QED
    BY <2>1 DEF MessagesAre, CompletesAre
<1>6. ASSUME NEW j \in 1 .. L, swallowed <= j
      PROVE  Message(swallowed, j)' = Message(swallowed, j)
  <2>1. \A k \in swallowed + 1 .. j :
           /\ k \in Parts(swallowed, j)' <=> k \in Parts(swallowed, j)
           /\ k \in Parts(swallowed, j)' => Places'[k] = Places[k]
    <3>1. \A k \in swallowed + 1 .. j : k \in 1 .. L /\ k \in 1 .. M
      BY <1>3
    <3>2. \A k \in swallowed + 1 .. j : \A i \in swallowed + 1 .. k : i \in swallowed + 1 .. j
      BY <1>3
    <3>. QED
      BY <3>1, <3>2, <1>1, <1>2, <1>4 DEF Parts, Places, Fragments, Data
  <2>2. Collected(swallowed, j, Parts(swallowed, j)', Places') = Collected(swallowed, j, Parts(swallowed, j), Places)
    BY <1>3, <1>6, <2>1, CollectedAgree
  <2>3. j \in 1 .. Len(sent')
    BY <1>2, <1>3
  <2>. QED
    BY <1>1, <1>3, <1>5, <1>6, <2>2, <2>3, MessageIs DEF MessagesAre
<1>. DEFINE p == Collected(handled, L, Finals(swallowed), Messages(swallowed))
<1>7. Complete(swallowed, handled) = p
  BY <1>3, CompleteIs DEF CompletesAre
<1>8. Complete(swallowed, handled)' = Collected(handled, M, Finals(swallowed)', Messages(swallowed)')
  <2>1. handled \in 0 .. Len(sent')
    BY <1>2, <1>3
  <2>. QED
    BY <1>1, <1>2, <1>3, <1>5, <2>1
<1>9. Collected(handled, L, Finals(swallowed)', Messages(swallowed)') = p
  <2>1. ASSUME NEW j \in handled + 1 .. L
        PROVE  /\ j \in Finals(swallowed)' <=> j \in Finals(swallowed)
               /\ j \in Finals(swallowed)' => Messages(swallowed)'[j] = Messages(swallowed)[j]
    <3>1. j \in 1 .. L /\ j \in 1 .. M /\ swallowed <= j
      BY <1>3
    <3>2. j \in Finals(swallowed)' <=> j \in Finals(swallowed)
      BY <1>1, <1>2, <1>4, <3>1 DEF Finals
    <3>3. Messages(swallowed)'[j] = Message(swallowed, j)' /\ Messages(swallowed)[j] = Message(swallowed, j)
      BY <1>1, <1>2, <3>1 DEF Messages
    <3>. QED
      BY <3>1, <3>2, <3>3, <1>6
  <2>. QED
    BY <1>3, <2>1, CollectedAgree
<1>10. p \in Seq(Seq(Nat))
  <2>1. \A j \in handled + 1 .. L : j \in Finals(swallowed) => Messages(swallowed)[j] \in Seq(Nat)
    BY <1>3, MessagesType
  <2>2. L \in handled .. L
    BY <1>2, <1>3
  <2>. QED
    BY <1>2, <1>3, <2>1, <2>2, CollectedType
<1>11. Complete(swallowed, handled)' = IF M \in Finals(swallowed)' THEN Append(p, Messages(swallowed)'[M]) ELSE p
  <2>. HIDE DEF M
  <2>1. Collected(handled, M, Finals(swallowed)', Messages(swallowed)') =
          IF M \in Finals(swallowed)'
          THEN Append(Collected(handled, M - 1, Finals(swallowed)', Messages(swallowed)'), Messages(swallowed)'[M])
          ELSE Collected(handled, M - 1, Finals(swallowed)', Messages(swallowed)')
    BY <1>3, CollectedLast
  <2>. QED
    BY <2>1, <1>3, <1>8, <1>9
<1>. HIDE DEF p
<1>12. ASSUME NEW e PROVE Append(p, e) # <<>> /\ Front(Append(p, e)) = p
  <2>. DEFINE S == Seq(Nat) \cup {e}
              q == Append(p, e)
  <2>1. p \in Seq(S) /\ e \in S
    BY <1>10
  <2>. HIDE DEF S
  <2>2. q \in Seq(S) /\ Len(q) = Len(p) + 1 /\ q # <<>> /\ \A i \in 1 .. Len(p) : q[i] = p[i]
    BY <2>1, AppendFacts
  <2>3. Len(p) \in Nat /\ Len(p) <= Len(q) /\ Len(q) - 1 = Len(p)
    BY <2>1, <2>2
  <2>. HIDE DEF q
  <2>4. /\ SubSeq(q, 1, Len(p)) \in Seq(S) /\ Len(SubSeq(q, 1, Len(p))) = Len(p)
        /\ \A i \in 1 .. Len(p) : SubSeq(q, 1, Len(p))[i] = q[i]
    BY <2>2, <2>3, PrefixFacts
  <2>5. SubSeq(q, 1, Len(p)) = p
    BY <2>1, <2>2, <2>4
  <2>6. Front(q) = p
    BY <2>3, <2>5 DEF Front
  <2>. QED
    BY <2>2, <2>6 DEF q
<1>. QED
  BY <1>7, <1>11, <1>12

\* The frame taken ends a message exactly when its handler gives one, and the
\* message given is that one.
LEMMA TakenIs ==
    ASSUME WsInv, skip = 0, handled + 1 \in 1 .. Len(sent)
    PROVE  /\ handled + 1 \in Finals(swallowed) <=>
                /\ sent[handled + 1].fin
                /\ \/ sent[handled + 1].op \in Data
                   \/ sent[handled + 1].op = "CONT" /\ frag # <<>>
           /\ sent[handled + 1].op \in Data /\ sent[handled + 1].fin =>
                Message(swallowed, handled + 1) = <<handled + 1>>
           /\ sent[handled + 1].op = "CONT" /\ sent[handled + 1].fin /\ frag # <<>> =>
                Message(swallowed, handled + 1) = Append(frag, handled + 1)
<1>. USE DEF WsInv
<1>. DEFINE h == handled + 1
<1>1. /\ handled \in Nat /\ swallowed \in Nat /\ swallowed <= handled /\ Len(sent) \in Nat
      /\ h \in Nat /\ h - 1 = handled /\ h \in swallowed + 1 .. h /\ h \in 1 .. Len(sent)
  BY SentTypes
<1>2. IsMessage(h, h) <=> sent[h].op \in Data /\ sent[h].fin
  <2>1. h + 1 .. h = {} /\ h .. h - 1 = {}
    BY <1>1
  <2>. QED
    BY <2>1 DEF IsMessage
<1>3. ASSUME NEW i \in swallowed + 1 .. handled
      PROVE  IsMessage(i, h) <=> Unfinished(i, handled) /\ sent[h].op = "CONT" /\ sent[h].fin
  <2>1. h \in i + 1 .. h /\ i .. h - 1 = i .. handled /\ i + 1 .. h = (i + 1 .. handled) \cup {h}
    BY <1>1
  <2>2. "CONT" \notin Data
    BY DEF Data
  <2>. QED
    BY <2>1, <2>2 DEF IsMessage, Unfinished, Fragments
<1>. HIDE DEF h
<1>4. \A i \in swallowed + 1 .. h : i = h \/ i \in swallowed + 1 .. handled
  BY NextIs DEF h
<1>5. \A i \in swallowed + 1 .. handled : i \in swallowed + 1 .. h
  BY <1>1 DEF h
<1>6. h \in Finals(swallowed) <=> \E i \in swallowed + 1 .. h : IsMessage(i, h)
  BY <1>1 DEF Finals
<1>7. "CONT" \notin Data
  BY DEF Data
<1>8. h \in Finals(swallowed) <=>
         sent[h].fin /\ (sent[h].op \in Data \/ (sent[h].op = "CONT" /\ frag # <<>>))
  <2>1. (\E i \in swallowed + 1 .. handled : Unfinished(i, handled)) <=> frag # <<>>
    BY DEF FragInv
  <2>. QED
    BY <2>1, <1>1, <1>2, <1>3, <1>4, <1>5, <1>6
<1>9. ASSUME sent[h].op \in Data, sent[h].fin
      PROVE  Message(swallowed, h) = <<h>>
  <2>1. Message(swallowed, h) = Collected(swallowed, h, PartsSince(h), Places)
    BY <1>1, <1>2, <1>9, MessageParts
  <2>2. Collected(swallowed, h, PartsSince(h), Places) = Append(<<>>, h)
    <3>1. sent[handled + 1].op \in Fragments /\ h \in swallowed + 1 .. handled + 1 /\ h = handled + 1
      BY <1>1, <1>9 DEF h, Fragments
    <3>. QED
      BY <3>1, PartsGrow
  <2>. QED
    BY <2>1, <2>2
<1>10. ASSUME sent[h].op = "CONT", sent[h].fin, frag # <<>>
       PROVE  Message(swallowed, h) = Append(frag, h)
  <2>1. PICK i \in swallowed + 1 .. handled :
          /\ Unfinished(i, handled)
          /\ frag = Collected(swallowed, handled, PartsSince(i), Places)
    BY <1>10 DEF FragInv
  <2>2. IsMessage(i, h) /\ i \in swallowed + 1 .. h
    BY <2>1, <1>3, <1>5, <1>10
  <2>3. Message(swallowed, h) = Collected(swallowed, h, PartsSince(i), Places)
    BY <1>1, <2>2, MessageParts
  <2>4. Collected(swallowed, h, PartsSince(i), Places) = Append(frag, h)
    <3>1. sent[handled + 1].op \in Fragments /\ i \in swallowed + 1 .. handled + 1 /\ h = handled + 1
      BY <2>2, <1>10 DEF h, Fragments
    <3>. QED
      BY <3>1, <2>1, PartsGrow
  <2>. QED
    BY <2>3, <2>4
<1>. QED
  BY <1>8, <1>9, <1>10 DEF h

\* Complete depends on the stream and the two places in it.
LEMMA CompleteSame ==
    ASSUME UNCHANGED <<sent, swallowed>>
    PROVE  /\ UNCHANGED handled => UNCHANGED Complete(swallowed, handled)
           /\ handled' = handled + 1 =>
                Complete(swallowed, handled)' = Complete(swallowed, handled + 1)
<1>1. \A i, j : IsMessage(i, j)' <=> IsMessage(i, j)
  BY DEF IsMessage
<1>2. \A lo, j : Message(lo, j)' = Message(lo, j)
  <2>1. SUFFICES ASSUME NEW lo, NEW j PROVE Message(lo, j)' = Message(lo, j)
    OBVIOUS
  <2>. QED
    BY DEF Message, IsMessage
<1>3. \A from : Complete(swallowed, from)' = Complete(swallowed, from)
  BY <1>1, <1>2 DEF Complete
<1>. QED
  BY <1>3

\* Taking a frame takes the message it ends from those that are pending.
LEMMA TakeStep ==
    ASSUME WsInv, WsInv', HandleControl \/ HandleData \/ HandleContinuation
    PROVE  \/ UNCHANGED <<Complete(swallowed, handled), Given>>
           \/ /\ Complete(swallowed, handled) # <<>>
              /\ Given' = Append(Given, Head(Complete(swallowed, handled)))
              /\ Complete(swallowed, handled)' = Tail(Complete(swallowed, handled))
<1>. DEFINE h == handled + 1
            p == Complete(swallowed, handled)
            q == Complete(swallowed, h)
            L == Len(sent)
<1>1. /\ h \in 1 .. L /\ UNCHANGED <<sent, swallowed>> /\ handled' = h /\ sent[h].op # "CLOSE"
      /\ skip = 0
  BY HandleFacts, TakeFacts
<1>2. WsTypes
  BY DEF WsInv
<1>3. /\ handled \in Nat /\ swallowed \in Nat /\ swallowed <= handled /\ L \in Nat /\ h \in Nat
      /\ h <= L /\ handled \in 0 .. L /\ h \in 0 .. L /\ sent[h].op \in {"TEXT", "BIN", "CONT", "PING", "PONG"}
  <2>1. sent[h] \in Arrived
    BY <1>1, <1>2, SentTypes
  <2>2. sent[h].op \in {"TEXT", "BIN", "CONT", "PING", "PONG"}
    BY <1>1, <2>1 DEF Arrived
  <2>. QED
    BY <1>1, <1>2, <2>2, SentTypes
<1>4. Complete(swallowed, handled)' = q
  BY <1>1, CompleteSame
<1>5. /\ p = Collected(handled, L, Finals(swallowed), Messages(swallowed))
      /\ q = Collected(h, L, Finals(swallowed), Messages(swallowed))
  BY <1>2, <1>3, CompleteIs DEF CompletesAre
<1>6. /\ h \notin Finals(swallowed) => p = q
      /\ h \in Finals(swallowed) => p # <<>> /\ Head(p) = Messages(swallowed)[h] /\ Tail(p) = q
  <2>2. h = handled + 1
    OBVIOUS
  <2>. DEFINE P == Finals(swallowed)
              v == Messages(swallowed)
              c == Collected(handled, L, P, v)
              d == Collected(h, L, P, v)
  <2>4. p = c /\ q = d
    BY <1>5
  <2>. HIDE DEF h, p, q, L
  <2>. HIDE DEF P, v
  <2>3. /\ h \notin P => c = d
        /\ h \in P => c # <<>> /\ Head(c) = v[h] /\ Tail(c) = d
    BY <1>3, <2>2, CollectedFirst
  <2>. HIDE DEF c, d
  <2>. QED
    BY <2>3, <2>4 DEF P, v
<1>7. Messages(swallowed)[h] = Message(swallowed, h)
  BY <1>1 DEF Messages
<1>8. /\ h \in Finals(swallowed) <=>
           sent[h].fin /\ (sent[h].op \in Data \/ (sent[h].op = "CONT" /\ frag # <<>>))
      /\ sent[h].op \in Data /\ sent[h].fin => Message(swallowed, h) = <<h>>
      /\ sent[h].op = "CONT" /\ sent[h].fin /\ frag # <<>> => Message(swallowed, h) = Append(frag, h)
  BY <1>1, TakenIs
<1>9. CASE h \in Finals(swallowed)
  <2>1. Fire("message", Message(swallowed, h))
    BY <1>8, <1>9, HandleFacts
  <2>2. Message(swallowed, h) \in Seq(Nat)
    BY <1>1, <1>2, <1>3, <1>7, <1>9, MessagesType
  <2>3. Given' = Append(Given, Message(swallowed, h))
    BY <1>2, <2>1, <2>2, MessageGiven
  <2>. QED
    BY <2>3, <1>4, <1>6, <1>7, <1>9
<1>10. CASE h \notin Finals(swallowed)
  <2>1. sent[h].op \in Data => ~sent[h].fin
    BY <1>8, <1>10
  <2>2. UNCHANGED evs
    <3>1. sent[h].op \in Data \/ sent[h].op = "CONT" \/ sent[h].op \notin Fragments
      BY DEF Fragments
    <3>. QED
      BY <3>1, <2>1, <1>8, <1>10, HandleFacts
  <2>3. UNCHANGED Given
    BY <2>2, EvsSame
  <2>. QED
    BY <2>3, <1>4, <1>6, <1>10
<1>. QED
  BY <1>9, <1>10

\* A message that begins behind k is the same in the stream after frame k.
LEMMA LaterMessage ==
    ASSUME WsTypes, NEW k \in 0 .. Len(sent), NEW j \in 1 .. Len(sent), j \in Finals(k)
    PROVE  j \in Finals(0) /\ Messages(k)[j] = Messages(0)[j]
<1>1. Len(sent) \in Nat /\ k \in Nat
  BY SentTypes
<1>2. PICK i \in k + 1 .. j : IsMessage(i, j)
  BY DEF Finals
<1>3. i \in 0 + 1 .. j /\ 0 \in Nat /\ j \in Nat /\ k <= j
  BY <1>1
<1>4. j \in Finals(0)
  BY <1>2, <1>3 DEF Finals
<1>5. /\ Messages(k)[j] = Message(k, j) /\ Messages(0)[j] = Message(0, j)
  BY DEF Messages
<1>6. Message(k, j) = Collected(k, j, PartsSince(i), Places)
  BY <1>1, <1>2, MessageParts
<1>7. Message(0, j) = Collected(0, j, PartsSince(i), Places)
  BY <1>2, <1>3, MessageParts
<1>8. Collected(0, j, PartsSince(i), Places) = Collected(k, j, PartsSince(i), Places)
  <2>2. \A n \in 0 + 1 .. k : n \notin PartsSince(i)
    BY <1>1 DEF PartsSince
  <2>3. 0 <= k
    BY <1>1
  <2>. QED
    BY <1>1, <1>3, <2>2, <2>3, CollectedSkip
<1>. QED
  BY <1>4, <1>5, <1>6, <1>7, <1>8

\* What is dropped with the first k frames: all messages up to some frame c, the
\* end of the message that the cut falls into if it falls into one.
LEMMA CutFalls ==
    ASSUME WsTypes, NEW k \in 0 .. Len(sent)
    PROVE  \E c \in k .. Len(sent) :
              /\ \A j \in k + 1 .. c : j \notin Finals(k)
              /\ \A j \in c + 1 .. Len(sent) : j \in Finals(0) => j \in Finals(k)
<1>1. Len(sent) \in Nat /\ k \in Nat /\ k <= Len(sent)
  BY SentTypes
<1>2. CASE \E j \in k + 1 .. Len(sent) : j \in Finals(0) /\ j \notin Finals(k)
  <2>1. PICK c \in k + 1 .. Len(sent) : c \in Finals(0) /\ c \notin Finals(k)
    BY <1>2
  <2>2. PICK i \in 0 + 1 .. c : IsMessage(i, c)
    BY <2>1 DEF Finals
  <2>3. c \in k .. Len(sent) /\ c \in 1 .. Len(sent) /\ i \in 1 .. Len(sent) /\ i <= c /\ c \in Nat /\ i \in Nat
    BY <1>1
  <2>4. i <= k
    <3>1. i \notin k + 1 .. c
      BY <2>1, <2>2, <2>3 DEF Finals
    <3>. QED
      BY <3>1, <2>3, <1>1
  <2>5. ASSUME NEW j \in k + 1 .. c, j \in Finals(k) PROVE FALSE
    <3>1. PICK h \in k + 1 .. j : IsMessage(h, j)
      BY <2>5 DEF Finals
    <3>2. j < c /\ j \in 1 .. Len(sent) /\ h \in 1 .. Len(sent) /\ h <= j /\ k < j
      BY <2>1, <2>3, <2>5, <1>1
    <3>3. j < i
      BY <3>1, <3>2, <2>2, <2>3, NextBegins
    <3>. QED
      BY <3>2, <3>3, <2>3, <2>4, <1>1
  <2>6. ASSUME NEW j \in c + 1 .. Len(sent), j \in Finals(0) PROVE j \in Finals(k)
    <3>1. PICK h \in 0 + 1 .. j : IsMessage(h, j)
      BY <2>6 DEF Finals
    <3>2. c < j /\ j \in 1 .. Len(sent) /\ h \in 1 .. Len(sent) /\ h <= j
      BY <2>3, <1>1
    <3>3. c < h
      BY <3>1, <3>2, <2>2, <2>3, NextBegins
    <3>4. h \in k + 1 .. j
      BY <3>2, <3>3, <2>3, <1>1
    <3>. QED
      BY <3>1, <3>2, <3>4 DEF Finals
  <2>. QED
    BY <2>3, <2>5, <2>6
<1>3. CASE \A j \in k + 1 .. Len(sent) : j \in Finals(0) => j \in Finals(k)
  <2>1. k \in k .. Len(sent) /\ \A j \in k + 1 .. k : j \notin Finals(k)
    BY <1>1
  <2>. QED
    BY <1>3, <2>1
<1>. QED
  BY <1>2, <1>3

\* Dropping frames with the handshake's response drops the first messages.
LEMMA ConnectStep ==
    ASSUME WsInv, WsInv', Connect
    PROVE  /\ Len(Complete(swallowed, handled)) \in Nat
           /\ \E n \in 1 .. Len(Complete(swallowed, handled)) + 1 :
                Complete(swallowed, handled)' =
                    SubSeq(Complete(swallowed, handled), n, Len(Complete(swallowed, handled)))
<1>. DEFINE L == Len(sent)
            p == Complete(swallowed, handled)
<1>1. state = "none" /\ UNCHANGED sent
  BY DEF Connect, wire
<1>2. PICK k \in 0 .. L : swallowed' = k /\ handled' = k
  BY DEF Connect
<1>3. WsTypes /\ handled = 0 /\ swallowed = 0 /\ L \in Nat /\ k \in Nat /\ k <= L /\ 0 \in 0 .. L /\ 0 \in Nat
  <2>1. WsTypes /\ handled = 0
    BY <1>1 DEF WsInv, LifeInv
  <2>2. swallowed \in Nat /\ swallowed <= handled /\ L \in Nat
    BY <2>1, SentTypes
  <2>. QED
    BY <2>1, <2>2
<1>4. p = Collected(0, L, Finals(0), Messages(0))
  BY <1>3, CompleteIs DEF CompletesAre
<1>5. Complete(swallowed, handled)' = Collected(k, L, Finals(k), Messages(k))
  <2>1. \A i, j : IsMessage(i, j)' <=> IsMessage(i, j)
    BY <1>1 DEF IsMessage
  <2>2. \A lo, j : Message(lo, j)' = Message(lo, j)
    <3>1. SUFFICES ASSUME NEW lo, NEW j PROVE Message(lo, j)' = Message(lo, j)
      OBVIOUS
    <3>. QED
      BY <1>1 DEF Message, IsMessage
  <2>3. Complete(swallowed, handled)' = Complete(k, k)
    BY <1>1, <1>2, <2>1, <2>2 DEF Complete
  <2>. QED
    BY <1>3, <2>3, CompleteIs DEF CompletesAre
<1>6. PICK c \in k .. L :
         /\ \A j \in k + 1 .. c : j \notin Finals(k)
         /\ \A j \in c + 1 .. L : j \in Finals(0) => j \in Finals(k)
  BY <1>3, CutFalls
<1>7. c \in Nat /\ k <= c /\ c <= L /\ 0 <= c /\ L \in c .. L /\ c \in 0 .. L /\ L \in 0 .. L
  BY <1>3
<1>8. \A j \in 0 + 1 .. L : j \in Finals(0) => Messages(0)[j] \in Seq(Nat)
  BY <1>3, MessagesType
<1>9. Collected(k, L, Finals(k), Messages(k)) = Collected(c, L, Finals(k), Messages(k))
  BY <1>3, <1>6, <1>7, CollectedSkip
<1>10. Collected(c, L, Finals(k), Messages(k)) = Collected(c, L, Finals(0), Messages(0))
  <2>1. \A j \in c + 1 .. L : j \in 1 .. L
    BY <1>7, <1>3
  <2>2. \A j \in c + 1 .. L : /\ j \in Finals(k) <=> j \in Finals(0)
                              /\ j \in Finals(k) => Messages(k)[j] = Messages(0)[j]
    BY <1>3, <1>6, <2>1, LaterMessage
  <2>. QED
    BY <1>3, <1>7, <2>2, CollectedAgree
<1>. DEFINE a == Collected(0, c, Finals(0), Messages(0))
            b == Collected(c, L, Finals(0), Messages(0))
<1>11. Joins(a, b, p)
  <2>1. Joins(a, b, Collected(0, L, Finals(0), Messages(0)))
    BY <1>3, <1>7, <1>8, CollectedSplit
  <2>. QED
    BY <2>1, <1>4
<1>12. a \in Seq(Seq(Nat)) /\ b \in Seq(Seq(Nat)) /\ p \in Seq(Seq(Nat))
  <2>1. \A j \in c + 1 .. L : j \in Finals(0) => Messages(0)[j] \in Seq(Nat)
    BY <1>3, <1>7, <1>8
  <2>2. b \in Seq(Seq(Nat))
    BY <1>3, <1>7, <2>1, CollectedType
  <2>3. \A hi \in 0 .. L : Collected(0, hi, Finals(0), Messages(0)) \in Seq(Seq(Nat))
    BY <1>3, <1>8, CollectedType
  <2>. QED
    BY <2>2, <2>3, <1>4, <1>7
<1>13. Complete(swallowed, handled)' = b
  BY <1>5, <1>9, <1>10
<1>. HIDE DEF a, b, p
<1>14. Len(a) + 1 \in 1 .. Len(p) + 1 /\ b = SubSeq(p, Len(a) + 1, Len(p))
  BY <1>11, <1>12, JoinsEnd
<1>15. Len(p) \in Nat
  BY <1>12
<1>. QED
  BY <1>13, <1>14, <1>15 DEF p

-----------------------------------------------------------------------------

\* Before the handshake nothing is pending and nothing is given.
LEMMA StreamInit == WsInit => Stream!Init
<1>. SUFFICES ASSUME WsInit PROVE Stream!Init
  OBVIOUS
<1>1. evs = <<>> /\ Len(sent) = 0 /\ handled = 0 /\ swallowed = 0 /\ state = "none"
      /\ skip = 0
  BY DEF WsInit
<1>2. Ends = <<>>
  BY <1>1, FilterEmpty DEF Ends
<1>3. Given = <<>>
  <2>1. Filter(evs, [type : {"message"}, frames : Seq(Nat)]) = <<>>
    BY <1>1, FilterEmpty
  <2>. QED
    BY <2>1 DEF Given
<1>4. Complete(swallowed, handled) = <<>>
  <2>1. WsTypes
    BY WsInitInv DEF WsInv
  <2>2. Complete(swallowed, handled) = Collected(0, 0, Finals(0), Messages(0))
    BY <1>1, <2>1, CompleteIs DEF CompletesAre
  <2>. QED
    BY <2>2, CollectedNone
<1>. QED
  BY <1>1, <1>2, <1>3, <1>4 DEF Stream!Init

\* Once out of step the client stays so, and nothing is promised.
LEMMA OutOfStep ==
    ASSUME WsInv, WsInv', [WsNext]_wsVars, skip > 0
    PROVE  UNCHANGED Stream!vars
<1>1. skip \in Nat /\ state # "none"
  BY DEF WsInv, WsTypes, LifeInv
<1>2. skip' > 0
  <2>1. ~Connect /\ ~Take
    BY <1>1 DEF Connect, Take, WholeFrame
  <2>2. CASE HandleGarbled
    <3>1. PICK n \in 1 .. rlen : skip' = skip + n
      BY <2>2 DEF HandleGarbled
    <3>2. n \in Nat
      BY SentTypes DEF WsInv
    <3>. QED
      BY ONLY <1>1, <3>1, <3>2, skip > 0
  <2>3. CASE UNCHANGED skip
    BY <2>3
  <2>4. HandleGarbled \/ UNCHANGED skip
    BY <2>1 DEF WsNext, wsVars, PeerSends, PeerAnswersClose, PeerFrame, PeerEnds, JsClose,
       BridgeDestroy, Pump, PumpStarts, Recv, RecvNothing, RecvEnd, RecvError, DecodeDone,
       HandleControl, HandleClose, HandleData, HandleContinuation, DecodeGarbledLength, Sweep
  <2>. QED
    BY <2>2, <2>3, <2>4
<1>3. state' # "none" /\ skip' # 0 /\ skip # 0
  BY <1>1, <1>2 DEF WsInv, LifeInv
<1>. QED
  BY <1>1, <1>2, <1>3 DEF Stream!vars

\* The connection begins out of step: all messages are given up.
LEMMA ConnectOutOfStep ==
    ASSUME WsInv, WsInv', Connect, skip = 0, skip' > 0
    PROVE  Stream!Connect
<1>. DEFINE pending == Complete(swallowed, handled)
<1>1. state = "none" /\ state' = "OPEN" /\ evs = <<>>
  BY DEF Connect, WsInv, LifeInv
<1>2. Ends = <<>> /\ Given = <<>>
  <2>1. Ends = <<>>
    BY <1>1, FilterEmpty DEF Ends
  <2>2. Filter(evs, [type : {"message"}, frames : Seq(Nat)]) = <<>>
    BY <1>1, FilterEmpty
  <2>. QED
    BY <2>1, <2>2 DEF Given
<1>3. Len(pending) \in Nat
  BY ConnectStep
<1>4. Len(pending) + 1 \in 1 .. Len(pending) + 1 /\ <<>> = SubSeq(pending, Len(pending) + 1, Len(pending))
  BY <1>3
<1>5. skip' # 0 /\ ~(skip > 0)
  BY WsInv' DEF WsInv, WsTypes
<1>. HIDE DEF pending
<1>6. \E n \in 1 .. Len(pending) + 1 : <<>> = SubSeq(pending, n, Len(pending))
  BY <1>4
<1>. QED
  BY <1>1, <1>2, <1>5, <1>6 DEF Stream!Connect, pending

\* In step, a step of the client is a step of MessageStream or leaves it alone.
LEMMA InStep ==
    ASSUME WsInv, WsInv', [WsNext]_wsVars, skip = 0, skip' = 0
    PROVE  [Stream!Next]_(Stream!vars)
<1>. DEFINE usable == state # "none"
            pending == Complete(swallowed, handled)
            ended == Ends # <<>>
<1>. USE DEF Stream!Next, Stream!vars
<1>0. ~(skip > 0) /\ ~(skip' > 0) /\ skip = 0 /\ skip' = 0
  OBVIOUS
<1>1. ASSUME NEW op \in {"TEXT", "BIN", "CONT", "CLOSE", "PING", "PONG"},
             NEW fin \in BOOLEAN, NEW size \in Nat \ {0}, PeerFrame(op, fin, size)
      PROVE  [Stream!Next]_(Stream!vars)
  <2>1. UNCHANGED <<state, evs>>
    BY <1>1 DEF PeerFrame
  <2>2. UNCHANGED <<usable, Given, ended>>
    BY <2>1, EvsSame
  <2>3. UNCHANGED pending \/ (pending' # <<>> /\ Front(pending') = pending)
    BY <1>1, SendStep DEF WsInv
  <2>4. CASE UNCHANGED pending
    BY <1>0, <2>2, <2>4
  <2>5. CASE pending' # <<>> /\ Front(pending') = pending
    BY <1>0, <2>2, <2>5 DEF Stream!Send, Stream!Front, Front
  <2>. QED
    BY <2>3, <2>4, <2>5
<1>2. ASSUME UNCHANGED <<sent, swallowed, handled, evs>>, (state = "none") <=> (state' = "none")
      PROVE  UNCHANGED Stream!vars
  <2>1. UNCHANGED <<Ends, Given>>
    BY <1>2, EvsSame
  <2>2. UNCHANGED Complete(swallowed, handled)
    BY <1>2, CompleteSame
  <2>. QED
    BY <1>0, <1>2, <2>1, <2>2
<1>3. CASE Connect
  <2>1. state = "none" /\ state' = "OPEN" /\ UNCHANGED evs
    BY <1>3 DEF Connect
  <2>2. UNCHANGED <<Given, ended>>
    BY <2>1, EvsSame
  <2>3. \E n \in 1 .. Len(pending) + 1 : pending' = SubSeq(pending, n, Len(pending))
    BY <1>3, ConnectStep
  <2>4. ~usable /\ usable' = TRUE
    BY <2>1
  <2>. QED
    BY <1>0, <2>2, <2>3, <2>4 DEF Stream!Connect
<1>4. ASSUME NEW t \in {"close", "error"}, Fire(t, <<>>), UNCHANGED <<sent, swallowed>>,
             UNCHANGED pending, state # "none", state' = "CLOSED"
      PROVE  [Stream!Next]_(Stream!vars)
  <2>1. Ends' # <<>> /\ Given' = Given
    BY <1>4, EndTold DEF WsInv
  <2>2. usable /\ UNCHANGED usable
    BY <1>4
  <2>. QED
    BY <1>0, <1>4, <2>1, <2>2 DEF Stream!End
<1>5. CASE RecvEnd \/ RecvError
  <2>1. pc = "recv" /\ UNCHANGED <<sent, swallowed, handled>>
    BY <1>5 DEF RecvEnd, RecvError, WsFail, wire
  <2>2. state # "none"
    BY <2>1 DEF WsInv, LifeInv
  <2>3. UNCHANGED pending
    BY <2>1, CompleteSame
  <2>4. \/ state' = "CLOSED" /\ \E t \in {"close", "error"} : Fire(t, <<>>)
        \/ UNCHANGED <<state, evs>>
    BY <1>5 DEF RecvEnd, RecvError, WsFail
  <2>. QED
    BY <1>2, <1>4, <2>1, <2>2, <2>3, <2>4
<1>6. CASE HandleClose
  <2>. DEFINE h == handled + 1
              L == Len(sent)
  <2>1. Take /\ state' = "CLOSED" /\ Fire("close", <<>>) /\ NextFrame.op = "CLOSE"
    BY <1>6 DEF HandleClose
  <2>2. /\ UNCHANGED <<sent, swallowed>> /\ state # "none" /\ handled' = h
        /\ h \in 1 .. L /\ NextFrame = sent[h]
    BY <2>1, TakeFacts
  <2>3. WsTypes
    BY DEF WsInv
  <2>4. /\ handled \in Nat /\ h \in Nat /\ L \in Nat /\ h <= L /\ swallowed \in Nat
        /\ handled \in 0 .. L /\ h \in 0 .. L /\ handled <= h
    BY <2>2, <2>3, SentTypes
  <2>5. /\ pending = Collected(handled, L, Finals(swallowed), Messages(swallowed))
        /\ Complete(swallowed, h) = Collected(h, L, Finals(swallowed), Messages(swallowed))
    BY <2>3, <2>4, CompleteIs DEF CompletesAre
  <2>6. \A j \in handled + 1 .. h : j \notin Finals(swallowed)
    <3>1. \A j \in handled + 1 .. h : j = h
      BY <2>4
    <3>2. h \notin Finals(swallowed)
      BY <2>1, <2>2 DEF Finals, IsMessage, Data
    <3>. QED
      BY <3>1, <3>2
  <2>8. Collected(handled, L, Finals(swallowed), Messages(swallowed))
            = Collected(h, L, Finals(swallowed), Messages(swallowed))
    <3>. HIDE DEF h
    <3>. QED
      BY <2>4, <2>6, CollectedSkip
  <2>9. UNCHANGED pending
    BY <2>2, <2>5, <2>8, CompleteSame
  <2>. QED
    BY <1>4, <2>1, <2>2, <2>9
<1>7. CASE HandleControl \/ HandleData \/ HandleContinuation
  <2>1. Take /\ UNCHANGED <<Ends, state>>
    BY <1>7, HandleFacts
  <2>2. Ends = <<>> /\ state # "none"
    BY <2>1, TakeFacts
  <2>3. UNCHANGED <<usable, ended>> /\ usable /\ ~ended
    BY <2>1, <2>2
  <2>4. \/ UNCHANGED <<pending, Given>>
        \/ /\ pending # <<>>
           /\ Given' = Append(Given, Head(pending))
           /\ pending' = Tail(pending)
    BY <1>7, TakeStep
  <2>. QED
    BY <1>0, <2>3, <2>4 DEF Stream!Give
<1>8. CASE PumpStarts
  <2>1. /\ UNCHANGED <<sent, swallowed, handled, state>>
        /\ UNCHANGED evs \/ Fire("open", <<>>)
    BY <1>8 DEF PumpStarts, wire
  <2>2. CASE Fire("open", <<>>)
    <3>1. <<>> \in Seq(Nat) /\ "open" \in {"open", "message", "close", "error"}
      OBVIOUS
    <3>2. UNCHANGED <<Ends, Given>>
      BY <2>2, <3>1, FireFacts DEF WsInv
    <3>3. UNCHANGED Complete(swallowed, handled)
      BY <2>1, CompleteSame
    <3>. QED
      BY <1>0, <2>1, <3>2, <3>3
  <2>. QED
    BY <2>1, <2>2, <1>2
<1>9. CASE \E how \in {"eof", "reset"} : PeerEnds(how)
  BY <1>2, <1>9 DEF PeerEnds
<1>10. CASE (\E len \in Lengths : JsClose(len)) \/ BridgeDestroy
  <2>1. alive /\ state' # "none" /\ UNCHANGED <<sent, swallowed, handled, evs>>
    BY <1>10 DEF JsClose, BridgeDestroy, ScriptRuns, wire
  <2>2. state # "none"
    BY <2>1 DEF WsInv, LifeInv
  <2>. QED
    BY <1>2, <2>1, <2>2
<1>11. CASE Recv \/ RecvNothing \/ DecodeDone \/ Sweep
  BY <1>2, <1>11 DEF Recv, RecvNothing, DecodeDone, Sweep, wire
<1>12. CASE UNCHANGED wsVars
  BY <1>2, <1>12 DEF wsVars
<1>13. CASE PeerSends
  <2>1. PICK f \in Frames : PeerFrame(f.op, f.fin, f.size)
    BY <1>13 DEF PeerSends
  <2>2. /\ f.op \in {"TEXT", "BIN", "CONT", "CLOSE", "PING", "PONG"}
        /\ f.fin \in BOOLEAN /\ f.size \in Nat \ {0}
    BY WebSocketAssumption
  <2>. QED
    BY <2>1, <2>2, <1>1
<1>14. CASE PeerAnswersClose
  <2>1. PeerFrame("CLOSE", TRUE, 1)
    BY <1>14 DEF PeerAnswersClose
  <2>2. 1 \in Nat \ {0}
    OBVIOUS
  <2>. QED
    BY <2>1, <2>2, <1>1
<1>15. ~HandleGarbled /\ ~DecodeGarbledLength
  BY <1>0 DEF HandleGarbled, DecodeGarbledLength
<1>. QED
  BY <1>15, <1>3, <1>5, <1>6, <1>7, <1>8, <1>9, <1>10, <1>11, <1>12, <1>13, <1>14 DEF WsNext, Pump

\* A step of the client is a step of MessageStream or leaves it alone.
LEMMA StreamNext ==
    ASSUME WsInv, WsInv', [WsNext]_wsVars
    PROVE  [Stream!Next]_(Stream!vars)
<1>1. skip \in Nat /\ skip' \in Nat
  BY DEF WsInv, WsTypes
<1>2. CASE skip > 0
  BY <1>2, OutOfStep
<1>3. CASE skip = 0 /\ skip' = 0
  BY <1>3, InStep
<1>4. CASE skip = 0 /\ skip' > 0
  <2>1. ~HandleGarbled /\ skip' # skip
    BY <1>4 DEF HandleGarbled
  <2>2. Connect
    BY <2>1 DEF WsNext, wsVars, PeerSends, PeerAnswersClose, PeerFrame, PeerEnds, JsClose,
       BridgeDestroy, Pump, PumpStarts, Recv, RecvNothing, RecvEnd, RecvError, DecodeDone, Take,
       HandleControl, HandleClose, HandleData, HandleContinuation, DecodeGarbledLength, Sweep
  <2>. QED
    BY <1>4, <2>2, ConnectOutOfStep DEF Stream!Next
<1>. QED
  BY <1>1, <1>2, <1>3, <1>4

\* What the pump gives to onmessage is what MessageStream promises: the peer's
\* messages, each put together from its own frames by ws_handle_frame, once and
\* in order, none after the first onclose or onerror, and only the first ones
\* lost with the response to the handshake, unless ws_recv_handshake read into
\* the middle of a frame (skip > 0); for every stream of frames, every buffer
\* and every cut of the stream into reads.
THEOREM WebSocketIsStream == WsSpec => StreamSpec
<1>1. WsSpec => []WsInv
  BY WsInitInv, WsNextInv, PTL DEF WsSpec
<1>2. WsInv /\ WsInv' /\ [WsNext]_wsVars => [Stream!Next]_(Stream!vars)
  BY StreamNext
<1>. QED
  BY <1>1, <1>2, StreamInit, PTL DEF WsSpec, StreamSpec, Stream!Spec

=============================================================================

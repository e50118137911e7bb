------------------------------- MODULE HttpCache -------------------------------
(***************************************************************************)
(* The HTTP cache (mini_httpcache.c) and the fetch that uses it            *)
(* (mini_net_fetch of mini_net.c).  Fetches run on several threads: the    *)
(* host thread, the workers of the pool and the net.request threads.  The  *)
(* table in memory is under one lock; every entry is also a pair of files, *)
(* written one after the other, which outlive the process.                 *)
(*                                                                         *)
(* A URL's resource is a sequence of versions at its origin, which is      *)
(* external.  A body is the first bytes of a version: the version and the  *)
(* number of bytes.                                                        *)
(***************************************************************************)
EXTENDS Integers, Sequences, FiniteSets, SequencesExt

CONSTANTS Threads,        \* threads that call mini_net_fetch
          Urls,
          BodyLen,        \* lengths of the bodies of a URL's versions
          Headers,        \* validator and Cache-Control a URL may be sent with
          Cut,            \* versions of a URL whose response may end too early
          MAX_ENTRIES,    \* capacity of the table in memory
          HeuristicAge,   \* lifetime of a response without Cache-Control
          MaxNow,         \* bound: clock ticks
          MaxFetches,     \* bound: fetches
          MaxFaults       \* bound: crashes and files that cannot be opened

None == "none"
Free == "free"

ASSUME HttpCacheAssumption ==
    /\ Free \notin Threads
    /\ MAX_ENTRIES \in Nat \ {0} /\ HeuristicAge \in Nat \ {0}
    /\ BodyLen \in [Urls -> Seq(Nat) \ {<<>>}]
    /\ Headers \in [Urls -> SUBSET [tagged : BOOLEAN,
              cc : {"none", "max-age", "no-cache", "no-store"}]]
    /\ Cut \in [Urls -> SUBSET Nat]
    /\ MaxNow \in Nat /\ MaxFetches \in Nat
    /\ MaxFaults \in Nat

VARIABLES
    entries,    \* g_entries[0 .. g_n - 1]
    meta,       \* the .meta file of each URL
    bin,        \* the .bin file of each URL
    lock,       \* g_lock: the thread inside it, or Free
    th,         \* what each thread is doing
    origin,     \* the current version of each resource and its headers
    now,        \* time(NULL)
    fetches, faults,
    suspect,    \* history: URLs whose entry something went wrong with
    last        \* history: version of the body last given to a GET of a URL

disk == <<meta, bin>>
env == <<origin, now, fetches, faults>>
vars == <<entries, meta, bin, lock, th, origin, now, fetches, faults,
          suspect, last>>

Versions == UNION {DOMAIN BodyLen[u] : u \in Urls}

\* The first n bytes of version v's body: bytes that are not there have no version.
Bytes(v, n) == [ver |-> IF n = 0 THEN 0 ELSE v, len |-> n]
Body(u, v) == Bytes(v, BodyLen[u][v])
NoBytes == Bytes(0, 0)

\* A .meta that is missing, or was cut short so that its URL line is not there;
\* a .bin that is missing.
NoMeta == [ver |-> 0, tagged |-> FALSE, until |-> 0, len |-> 0]
NoBin == [ver |-> 0, len |-> -1]

Nothing == [status |-> 0, body |-> NoBytes, ver |-> 0, tagged |-> FALSE,
            cc |-> "none"]
Idle == [pc |-> "idle", url |-> None, get |-> FALSE, cond |-> 0,
         out |-> Nothing]

Init ==
    /\ entries = <<>> /\ lock = Free
    /\ meta = [u \in Urls |-> NoMeta] /\ bin = [u \in Urls |-> NoBin]
    /\ th = [t \in Threads |-> Idle]
    /\ \E h \in [Urls -> UNION Range(Headers)] :
          /\ \A u \in Urls : h[u] \in Headers[u]
          /\ origin = [u \in Urls |-> [ver |-> 1, tagged |-> h[u].tagged,
                                      cc |-> h[u].cc]]
    /\ now = 0 /\ fetches = 0 /\ faults = 0
    /\ suspect = {} /\ last = [u \in Urls |-> 0]

-----------------------------------------------------------------------------
(* The table. *)

Entry(u, body, ver, tagged, until) ==
    [url |-> u, body |-> body, ver |-> ver, tagged |-> tagged, until |-> until]

InRam(u) == {i \in DOMAIN entries : entries[i].url = u}
Slot(u) == CHOOSE i \in InRam(u) : TRUE

\* The slot of a new entry: at the capacity the oldest one is evicted.
Put(e) ==
    IF Len(entries) >= MAX_ENTRIES THEN Append(Tail(entries), e)
                                   ELSE Append(entries, e)

\* mini_httpcache_load_from_disk: the empty sequence when there is no entry,
\* when the .meta is cut short or when a body is announced and has no file;
\* a .bin of another length is read as far as it goes.
LoadFromDisk(u) ==
    IF meta[u] = NoMeta \/ (meta[u].len > 0 /\ bin[u] = NoBin)
    THEN <<>>
    ELSE LET n == IF meta[u].len = 0 THEN 0
                  ELSE IF bin[u].len < meta[u].len THEN bin[u].len
                  ELSE meta[u].len
             v == IF n = 0 THEN 0 ELSE bin[u].ver
         IN  <<Entry(u, Bytes(v, n), meta[u].ver, meta[u].tagged, meta[u].until)>>

\* find_idx: the entry found, as a sequence of at most one, and the table after.
FindIdx(u) ==
    LET loaded == LoadFromDisk(u)
    IN  IF InRam(u) # {}
        THEN [found |-> <<entries[Slot(u)]>>, table |-> entries]
        ELSE [found |-> loaded,
              table |-> IF loaded = <<>> THEN entries ELSE Put(loaded[1])]

\* fresh: an entry that must be revalidated is stored with until = 0.
Fresh(e) == now < e.until

\* parse_cc and the heuristic of mini_httpcache_store.
Until(cc) == CASE cc = "no-cache" -> 0
               [] cc = "max-age" -> now + 1
               [] OTHER -> now + HeuristicAge

-----------------------------------------------------------------------------
(* One fetch. *)

\* Other GETs of u that are between their look-up and their return.
InFlight(u, t) == \E s \in Threads \ {t} :
                      th[s].pc # "idle" /\ th[s].url = u /\ th[s].get

\* The caller of a GET is given a body; an empty one tells no version.
Give(u, get, body) ==
    last' = IF get /\ body.ver > 0 THEN [last EXCEPT ![u] = body.ver] ELSE last

\* mini_net_fetch to its first unlock: a fresh entry answers a GET.
Fetch(t, u, get) ==
    LET f == FindIdx(u)
        hit == f.found # <<>> /\ Fresh(f.found[1])
        stale == f.found # <<>> /\ ~hit
    IN  /\ th[t].pc = "idle" /\ lock = Free /\ fetches < MaxFetches
        /\ entries' = f.table
        /\ fetches' = fetches + 1
        /\ IF hit /\ get
           THEN /\ Give(u, get, f.found[1].body)
                /\ UNCHANGED <<th, suspect>>
           ELSE /\ th' = [th EXCEPT ![t] =
                           [Idle EXCEPT !.pc = IF stale THEN "stale" ELSE "request",
                                        !.url = u, !.get = get]]
                /\ suspect' = IF get /\ InFlight(u, t) THEN suspect \cup {u}
                                                       ELSE suspect
                /\ UNCHANGED last
        /\ UNCHANGED <<disk, lock, origin, now, faults>>

\* mini_httpcache_conditional_headers.
ConditionalHeaders(t) ==
    LET f == FindIdx(th[t].url)
    IN  /\ th[t].pc = "stale" /\ lock = Free
        /\ entries' = f.table
        /\ th' = [th EXCEPT ![t].pc = "request",
                            ![t].cond = IF f.found # <<>> /\ f.found[1].tagged
                                        THEN f.found[1].ver ELSE 0]
        /\ UNCHANGED <<disk, lock, env, suspect, last>>

\* What a response is taken for.  mini_net_http reads on until the end of the
\* connection or an error of recv: one that comes too early leaves a part of the
\* body, or of the head, without the headers behind and without a body, and the
\* response is a success all the same.
Arriving(u, whole) ==
    {whole} \cup (IF whole.ver \notin Cut[u] THEN {}
                  ELSE {[whole EXCEPT !.body = Bytes(whole.ver, n)] :
                          n \in 0 .. whole.body.len}
                       \cup {[whole EXCEPT !.body = NoBytes, !.tagged = g, !.cc = c] :
                          g \in {whole.tagged, FALSE}, c \in {whole.cc, "none"}})

\* mini_net_http: the origin answers, or the request fails and fetch returns.
Answer(t) ==
    LET u == th[t].url
        o == origin[u]
    IN  /\ th[t].pc = "request"
        /\ \/ /\ th[t].cond = o.ver
              /\ \E out \in Arriving(u, [status |-> 304, body |-> NoBytes,
                                   ver |-> o.ver, tagged |-> TRUE, cc |-> o.cc]) :
                    th' = [th EXCEPT ![t].pc = "answered", ![t].out = out]
           \/ /\ th[t].cond # o.ver
              /\ \E out \in Arriving(u, [status |-> 200, body |-> Body(u, o.ver),
                                   ver |-> o.ver, tagged |-> o.tagged, cc |-> o.cc]) :
                    th' = [th EXCEPT ![t].pc = "received", ![t].out = out]
           \/ /\ th' = [th EXCEPT ![t] = Idle]
        /\ UNCHANGED <<entries, disk, lock, env, suspect, last>>

\* The 304 branch: body and status of whatever entry is there by now.
NotModified(t) ==
    LET f == FindIdx(th[t].url)
    IN  /\ th[t].pc = "answered" /\ lock = Free
        /\ entries' = f.table
        /\ th' = [th EXCEPT ![t].pc = "received",
                     ![t].out = IF f.found = <<>> THEN @
                                ELSE [@ EXCEPT !.body = f.found[1].body,
                                               !.status = 200]]
        /\ UNCHANGED <<disk, lock, env, suspect, last>>

\* The tail of mini_net_fetch when nothing is stored: the CORS gate refused the
\* response, it is not a GET, or the entry of a 304 is gone.
ReturnUnstored(t) ==
    /\ th[t].pc = "received"
    /\ \/ UNCHANGED last
       \/ /\ ~th[t].get \/ th[t].out.status # 200
          /\ Give(th[t].url, th[t].get, th[t].out.body)
    /\ th' = [th EXCEPT ![t] = Idle]
    /\ UNCHANGED <<entries, disk, lock, env, suspect>>

\* mini_httpcache_store of a no-store response: the files go one after the
\* other, without the lock, and the entry in memory stays.
StoreNoStore(t) ==
    /\ th[t].pc = "received" /\ th[t].get /\ th[t].out.status = 200
    /\ th[t].out.cc = "no-store"
    /\ meta' = [meta EXCEPT ![th[t].url] = NoMeta]
    /\ th' = [th EXCEPT ![t].pc = "unlink_bin"]
    /\ UNCHANGED <<entries, bin, lock, env, suspect, last>>

UnlinkBin(t) ==
    /\ th[t].pc = "unlink_bin"
    /\ bin' = [bin EXCEPT ![th[t].url] = NoBin]
    /\ Give(th[t].url, TRUE, th[t].out.body)
    /\ th' = [th EXCEPT ![t] = Idle]
    /\ UNCHANGED <<entries, meta, lock, env, suspect>>

\* Mutant: the body of a URL that has an entry is kept.
StoreKeepsBody(t) ==
    LET u == th[t].url
        out == th[t].out
        e == Entry(u, out.body, out.ver, out.tagged, Until(out.cc))
    IN  /\ th[t].pc = "received" /\ th[t].get /\ out.status = 200
        /\ out.cc # "no-store" /\ lock = Free
        /\ lock' = t
        /\ entries' = IF InRam(u) = {} THEN Put(e)
                      ELSE [i \in DOMAIN entries |->
                              IF entries[i].url = u
                              THEN [e EXCEPT !.body = entries[i].body] ELSE entries[i]]
        /\ th' = [th EXCEPT ![t].pc = "save_meta"]
        /\ UNCHANGED <<disk, env, suspect, last>>

\* Any other response replaces the URL's entry, or takes a slot.
Store(t) ==
    LET u == th[t].url
        out == th[t].out
        e == Entry(u, out.body, out.ver, out.tagged, Until(out.cc))
    IN  /\ th[t].pc = "received" /\ th[t].get /\ out.status = 200
        /\ out.cc # "no-store" /\ lock = Free
        /\ lock' = t
        /\ entries' = IF InRam(u) = {} THEN Put(e)
                      ELSE [i \in DOMAIN entries |->
                              IF entries[i].url = u THEN e ELSE entries[i]]
        /\ th' = [th EXCEPT ![t].pc = "save_meta"]
        /\ UNCHANGED <<disk, env, suspect, last>>

\* What mini_httpcache_save_to_disk writes into the two files.
MetaOf(e) == [ver |-> e.ver, tagged |-> e.tagged, until |-> e.until,
              len |-> e.body.len]
Saved(t) == entries[Slot(th[t].url)]

\* fopen of the file of a URL fails.
OpenFails(u) ==
    /\ faults < MaxFaults /\ faults' = faults + 1
    /\ suspect' = suspect \cup {u}

\* Mutant: a .meta that is there is not written again.
SaveMetaOnce(t) ==
    /\ th[t].pc = "save_meta"
    /\ meta' = IF meta[th[t].url] # NoMeta THEN meta
               ELSE [meta EXCEPT ![th[t].url] = MetaOf(Saved(t))]
    /\ th' = [th EXCEPT ![t].pc = "save_bin"]
    /\ UNCHANGED <<entries, bin, lock, env, suspect, last>>

SaveMeta(t) ==
    /\ th[t].pc = "save_meta"
    /\ \/ /\ meta' = [meta EXCEPT ![th[t].url] = MetaOf(Saved(t))]
          /\ UNCHANGED <<faults, suspect>>
       \/ OpenFails(th[t].url) /\ UNCHANGED meta
    /\ th' = [th EXCEPT ![t].pc = "save_bin"]
    /\ UNCHANGED <<entries, bin, lock, origin, now, fetches, last>>

\* Mutant: a response to a revalidation is taken to have its body on disk.
SaveBinUnlessRevalidated(t) ==
    LET u == th[t].url
    IN  /\ th[t].pc = "save_bin"
        /\ bin' = IF th[t].cond > 0 THEN bin ELSE [bin EXCEPT ![u] = Saved(t).body]
        /\ lock' = Free
        /\ Give(u, TRUE, th[t].out.body)
        /\ th' = [th EXCEPT ![t] = Idle]
        /\ UNCHANGED <<entries, meta, env, suspect>>

\* The .bin file (an empty body has none), the unlock and the return.
SaveBin(t) ==
    LET u == th[t].url
    IN  /\ th[t].pc = "save_bin"
        /\ \/ /\ bin' = IF Saved(t).body.len > 0
                        THEN [bin EXCEPT ![u] = Saved(t).body] ELSE bin
              /\ UNCHANGED <<faults, suspect>>
           \/ /\ Saved(t).body.len > 0
              /\ OpenFails(u) /\ UNCHANGED bin
        /\ lock' = Free
        /\ Give(u, TRUE, th[t].out.body)
        /\ th' = [th EXCEPT ![t] = Idle]
        /\ UNCHANGED <<entries, meta, origin, now, fetches>>

-----------------------------------------------------------------------------
(* Everything else that happens to the cache. *)

\* session.clearCache and clearStorageData: the files stay.
Clear ==
    /\ lock = Free /\ entries # <<>>
    /\ entries' = <<>>
    /\ UNCHANGED <<disk, lock, th, env, suspect, last>>

\* mini_httpcache_invalidate: files and entry, under the lock.
Invalidate(u) ==
    /\ lock = Free
    /\ InRam(u) # {} \/ meta[u] # NoMeta
    /\ meta' = [meta EXCEPT ![u] = NoMeta] /\ bin' = [bin EXCEPT ![u] = NoBin]
    /\ entries' = IF InRam(u) = {} THEN entries ELSE RemoveAt(entries, Slot(u))
    /\ UNCHANGED <<lock, th, env, suspect, last>>

\* The process dies and starts again.  A .meta that was being written is left
\* as it was or empty; a .bin is left as it was or with part of its bytes.
Crash ==
    /\ faults < MaxFaults /\ faults' = faults + 1
    /\ \/ UNCHANGED disk
       \/ \E t \in Threads : /\ th[t].pc = "save_meta"
                             /\ meta' = [meta EXCEPT ![th[t].url] = NoMeta]
                             /\ UNCHANGED bin
       \/ \E t \in Threads : /\ th[t].pc = "save_bin"
                             /\ \E n \in 0 .. Saved(t).body.len - 1 :
                                  bin' = [bin EXCEPT ![th[t].url] =
                                            Bytes(Saved(t).body.ver, n)]
                             /\ UNCHANGED meta
    /\ suspect' = suspect \cup {th[t].url : t \in {s \in Threads : th[s].pc = "save_bin"}}
    /\ entries' = <<>> /\ lock' = Free /\ th' = [t \in Threads |-> Idle]
    /\ UNCHANGED <<origin, now, fetches, last>>

\* The resource changes at its origin.
Publish(u) ==
    /\ origin[u].ver + 1 \in DOMAIN BodyLen[u]
    /\ \E h \in Headers[u] :
          origin' = [origin EXCEPT ![u] = [ver |-> @.ver + 1, tagged |-> h.tagged,
                                           cc |-> h.cc]]
    /\ UNCHANGED <<entries, disk, lock, th, now, fetches, faults, suspect, last>>

Tick ==
    /\ now < MaxNow /\ now' = now + 1
    /\ UNCHANGED <<entries, disk, lock, th, origin, fetches, faults, suspect, last>>

Step(t) ==
    \/ \E u \in Urls, get \in BOOLEAN : Fetch(t, u, get)
    \/ ConditionalHeaders(t)
    \/ Answer(t)
    \/ NotModified(t)
    \/ ReturnUnstored(t)
    \/ StoreNoStore(t)
    \/ UnlinkBin(t)
    \/ Store(t)
    \/ SaveMeta(t)
    \/ SaveBin(t)

Next ==
    \/ \E t \in Threads : Step(t)
    \/ Clear
    \/ \E u \in Urls : Invalidate(u) \/ Publish(u)
    \/ Crash
    \/ Tick

Spec == Init /\ [][Next]_vars

-----------------------------------------------------------------------------

EntrySet == [url : Urls, body : [ver : Nat, len : Nat], ver : Versions,
             tagged : BOOLEAN, until : Nat]
MetaSet == [ver : Versions, tagged : BOOLEAN, until : Nat, len : Nat]
Pcs == {"idle", "stale", "request", "answered", "received", "unlink_bin",
        "save_meta", "save_bin"}

\* Type invariant: the table, the files, the lock and the steps of a fetch.
TypeOK ==
    /\ entries \in Seq(EntrySet)
    /\ meta \in [Urls -> {NoMeta} \cup MetaSet]
    /\ bin \in [Urls -> {NoBin} \cup [ver : Nat, len : Nat]]
    /\ lock \in Threads \cup {Free}
    /\ \A t \in Threads : th[t].pc \in Pcs /\ th[t].url \in Urls \cup {None}
    /\ suspect \subseteq Urls
    /\ last \in [Urls -> {0} \cup Versions]

\* The table never holds a URL twice and never more than MAX_ENTRIES entries,
\* whatever loads, stores and evictions follow one another, and the entry a
\* thread is writing to disk is still in it: mini_httpcache_store keeps using
\* its slot until the unlock.
TableIsSound ==
    /\ Len(entries) <= MAX_ENTRIES
    /\ \A i, j \in DOMAIN entries : entries[i].url = entries[j].url => i = j
    /\ \A t \in Threads : th[t].pc \in {"save_meta", "save_bin"} =>
                             lock = t /\ InRam(th[t].url) # {}

\* What can have arrived of version v's body: all of it, or, when its response
\* may have ended too early, a part.
ArrivedBody(u, v) ==
    {Bytes(v, n) : n \in IF v \in Cut[u] THEN 0 .. BodyLen[u][v] ELSE {BodyLen[u][v]}}

\* An entry, in memory or as a restart would read it from the two files, is one
\* response: what arrived of the body of the version its validators belong to,
\* and that is all of it unless a response of that very version ended too early
\* (mini_net_http takes it for a success and mini_net_fetch stores it with all
\* its validators).  Excepted are a GET that overlapped another one of the same
\* URL (the 304 branch takes the body that is there by then), a file that could
\* not be opened, and a crash after the .meta and before the end of the .bin.
EntryIsOneResponse ==
    \A u \in Urls \ suspect :
        /\ \A i \in InRam(u) : entries[i].body \in ArrivedBody(u, entries[i].ver)
        /\ (\A t \in Threads : th[t].pc = "save_bin" => th[t].url # u) =>
              \A i \in DOMAIN LoadFromDisk(u) :
                 LoadFromDisk(u)[i].body \in ArrivedBody(u, LoadFromDisk(u)[i].ver)

\* As long as nothing failed, the files of a URL that is in memory are those of
\* its entry or no entry at all, although the files of a no-store response are
\* removed without the lock while another thread writes them: evicting an entry
\* and finding it again on disk changes nothing.
DiskFollowsTable ==
    faults = 0 =>
       \A u \in Urls : \A i \in InRam(u) :
          (\A t \in Threads : th[t].pc \in {"save_meta", "save_bin"} => th[t].url # u)
             => LoadFromDisk(u) \in {<<>>, <<entries[i]>>}

\* A 304 answers the validator the GET carried: unless something went wrong
\* with the URL's entry, the body the 304 branch copies is what arrived with
\* that validator, all of it unless a response of that version ended too early.
NotModifiedMeansThisBody ==
    \A t \in Threads :
        (th[t].pc = "received" /\ th[t].get /\ th[t].cond > 0 /\ th[t].out.status = 200
            /\ th[t].url \notin suspect)
        => th[t].out.body \in ArrivedBody(th[t].url, th[t].out.ver)

\* A GET is never given an older version than the GET of the URL before it was,
\* across evictions, restarts, clearCache and responses that are not stored,
\* unless GETs overlapped, a file could not be opened or a save was cut off.
ReadsNeverGoBack ==
    [][\A u \in Urls \ suspect' : last'[u] >= last[u]]_vars

\* The cache is sound: the table is one, and the files are those of its entries
\* (mini_httpcache_store, mini_httpcache_load_from_disk).
CacheIsSound == TypeOK /\ TableIsSound /\ DiskFollowsTable
=============================================================================

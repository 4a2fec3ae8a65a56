----------------------------- MODULE HttpCacheInv -----------------------------
(* The inductive invariant behind what HttpCache promises: whose copies the   *)
(* files are, that they are whole, how old they are, and which go first.      *)
EXTENDS HttpCache

\* The database tells the URLs apart. (It does not when two differ in case only.)
KeysTellURLs == \A u, v \in URLs : KeyOf[u] = KeyOf[v] => u = v

\* A request is for a page, and has the name of the file it writes.
JobNamed(i) ==
    /\ i.pc # "free" => i.url \in URLs
    /\ i.pc \in {"body", "closed", "stored"} => i.name # None

\* Who writes a file holds it, and nobody deletes it.
Held == \A j \in Jobs : job[j].pc = "body" => writer[job[j].name] = j /\ Exists(job[j].name)

\* Somebody takes the file n for a copy of page u: it is one, the database says so, or a
\* request goes by that name.
Claimed(n, u) ==
    \/ file[n] # None /\ file[n].url = u
    \/ db[KeyOf[u]] # None /\ db[KeyOf[u]].name = n
    \/ \E j \in Jobs : job[j].name = n /\ job[j].url = u

\* All that take a file for a copy of a page mean the same page; new names are not claimed.
NamesTellURLs ==
    /\ \A n \in Names, u, v \in URLs : Claimed(n, u) /\ Claimed(n, v) => u = v
    /\ \A n \in Names, u \in URLs : Claimed(n, u) => n \in used

-----------------------------------------------------------------------------
(* Who is at work. *)

\* Between sessions nothing is left of the requests.
Resting == ~running => visited = {} /\ served = {} /\ \A j \in Jobs : job[j] = Free

\* No two requests work on one page.
OneActive == \A i, j \in Jobs : Active(i) /\ Active(j) /\ job[i].url = job[j].url => i = j

\* Who has a file open to write it is its request, receiving the page or stopped.
Writers ==
    \A n \in Names : writer[n] # None =>
        /\ Exists(n) /\ job[writer[n]].name = n
        /\ \/ job[writer[n]].pc = "body"
           \/ job[writer[n]].pc = "ended" /\ job[writer[n]].abort

-----------------------------------------------------------------------------
(* Behind NeverPart. *)

\* A file half of which was written, and nobody writes.
Half(n) == Readable(n) /\ file[n].len = "part"

\* Sizes are those of whole files, and who found a file there found no half one.
Wholes ==
    /\ \A k \in Keys : db[k] # None => db[k].size # 1
    /\ \A j \in Jobs : job[j].pc = "closed" => writer[job[j].name] = None
    /\ \A j \in Jobs : (job[j].pc \in {"notify", "local", "closed", "stored"} \/ job[j].date # 0)
                           => ~Half(job[j].name)

-----------------------------------------------------------------------------
(* Behind DatesAreEarned and FreshThisSession. *)

\* What is there of n is no older than the version v.
NotBefore(n, v) == Exists(n) => file[n].ver >= v

\* Dates are those of versions that were, and of files that are no older.
Dates ==
    /\ \A k \in Keys : db[k] # None =>
           /\ \E u \in URLs : KeyOf[u] = k /\ db[k].date <= page[u]
           /\ NotBefore(db[k].name, db[k].date)
    /\ \A j \in Jobs : job[j].pc # "free" =>
           /\ job[j].date <= page[job[j].url]
           /\ NotBefore(job[j].name, job[j].date)

\* A request for a copy of this session.
Fresh(i) == i.pc \in {"local", "body", "closed", "stored"} \/ (i.pc = "notify" /\ ~i.any)

\* Pages were asked for when they are visited, and their files are of this session; until
\* then a request has the name of the entry.
Verified ==
    /\ \A u \in URLs : begin[u] <= page[u]
    /\ \A u \in visited : db[KeyOf[u]] # None => NotBefore(db[KeyOf[u]].name, begin[u])
    /\ \A j \in Jobs : Fresh(job[j]) => NotBefore(job[j].name, begin[job[j].url])
    /\ \A j \in Jobs : job[j].pc # "free" /\ job[j].url \notin visited
                           /\ db[KeyOf[job[j].url]] # None
                           => job[j].name = db[KeyOf[job[j].url]].name

-----------------------------------------------------------------------------
(* Behind EvictsUnusedFirst. *)

\* A request that is about to date its file anew, or to delete it.
Due(i) == i.pc = "local" \/ (i.pc = "ended" /\ i.abort)

\* A file of an earlier session is used in this one only when that is about to happen.
Renewed(n) ==
    n \in untouched /\ Exists(n) => \E j \in Jobs : job[j].name = n /\ Due(job[j])

\* What is delivered, or may be without asking its server, is used.
Renewals ==
    /\ \A n \in served : Renewed(n)
    /\ \A u \in visited : db[KeyOf[u]] # None => Renewed(db[KeyOf[u]].name)
    /\ \A j \in Jobs : job[j].pc = "notify" /\ ~job[j].any => Renewed(job[j].name)
    /\ \A j \in Jobs : job[j].pc \in {"body", "closed", "stored"} => job[j].name \notin untouched

UnusedFirst ==
    \A i, k \in 1 .. Len(order) : order[i] \in untouched /\ order[k] \notin untouched => i < k

CacheInv ==
    /\ TypeOK
    /\ \A j \in Jobs : JobNamed(job[j])
    /\ Held /\ Resting /\ OneActive /\ Writers /\ UnusedFirst
    /\ KeysTellURLs => NamesTellURLs /\ Wholes /\ Dates /\ Verified /\ Renewals
=============================================================================

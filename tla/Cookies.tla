-------------------------------- MODULE Cookies --------------------------------
(***************************************************************************)
(* The cookies the HTTP engine keeps (ChHttpCookie in api/ChHttpCookie.cpp *)
(* and its callers): one list per domain, and the file they are kept in    *)
(* from one run of the client to the next.  A cookie's value may hold      *)
(* several names; values, the secure flag and the check of the domain are  *)
(* left out.  Lists of different domains never meet, so the file is one    *)
(* list per domain as well: a line of it is a cookie.  The file is written *)
(* line by line, and what a crash or a full disk leaves of it is what was  *)
(* written until then, the last line perhaps in part.                      *)
(***************************************************************************)
EXTENDS Subsequences, Functions

Lists == INSTANCE SequencesExt

CONSTANTS
    Domains,
    NameLists,  \* sequences of names the value of a cookie may hold, also
                \* when it has been cut
    Paths,
    Dates,      \* expiry dates; 0 is a cookie without one
    MaxTime     \* bound: the latest date

VARIABLES
    lists,      \* m_cookieTree
    saved,      \* m_boolSaved
    file,       \* the cookie file
    open,       \* the client runs
    now,        \* the date
    writing,      \* where WriteCookieFile is: "no" when it does not run
    leaving,    \* it runs for the last time, when the client ends
    changed,    \* history: a cookie has been set since the client started
    failed      \* history: the last write of the file has failed

memory == <<lists, saved, open, leaving, changed>>
cookieVars == <<memory, file, now, writing, failed>>

Cookie == [names : NameLists, path : Paths, expires : Dates]
Nothing == [d \in {} |-> <<>>]

Expired(cookie) == cookie.expires # 0 /\ cookie.expires < now

CookiesInit ==
    /\ lists = Nothing /\ file = Nothing
    /\ saved = TRUE
    /\ open = TRUE
    /\ now = 2
    /\ writing = "no" /\ leaving = FALSE
    /\ changed = FALSE /\ failed = FALSE

-----------------------------------------------------------------------------
(***************************************************************************)
(* AddCookie.  MatchNames looks up every name of the old cookie in the new *)
(* one, except the last, which no semicolon follows.  The first cookie     *)
(* that matches is replaced where it stands, or removed when the new one   *)
(* has expired; a domain without a list gets one even then.                *)
(***************************************************************************)
MatchNames(old, new) ==
    /\ old # <<>> /\ new # <<>>
    /\ \A i \in 1 .. Len(old) - 1 : \E j \in DOMAIN new : new[j] = old[i]

Matches(list, cookie) ==
    {i \in DOMAIN list : /\ list[i].path = cookie.path
                         /\ MatchNames(list[i].names, cookie.names)}

\* Faulty: the list stays when its last cookie has been removed.
CutFaulty(trees, domain, i) ==
    [trees EXCEPT ![domain] = Lists!RemoveAt(@, i)]

Cut(trees, domain, i) ==
    IF Len(trees[domain]) = 1
    THEN [d \in DOMAIN trees \ {domain} |-> trees[d]]
    ELSE [trees EXCEPT ![domain] = Lists!RemoveAt(@, i)]

AddCookie(trees, domain, cookie) ==
    IF domain \notin DOMAIN trees
    THEN [d \in DOMAIN trees \cup {domain} |->
             IF d = domain THEN <<cookie>> ELSE trees[d]]
    ELSE LET found == Matches(trees[domain], cookie)
             i == CHOOSE n \in found : \A k \in found : n <= k
         IN  IF found # {}
             THEN IF Expired(cookie) THEN Cut(trees, domain, i)
                                     ELSE [trees EXCEPT ![domain][i] = cookie]
             ELSE IF Expired(cookie) THEN trees
                                     ELSE [trees EXCEPT ![domain] = Append(@, cookie)]

\* m_boolSaved: nothing sets it again.
StaysSaved(cookie) == saved /\ cookie.expires = 0

\* WriteCookieFile: the cookies that have an expiry date.
Kept(list) == Without(list, {cookie \in Cookie : cookie.expires = 0})
Written(trees) == [d \in {x \in DOMAIN trees : Kept(trees[x]) # <<>>} |-> Kept(trees[d])]

\* Faulty: the file is written for a cookie that has an expiry date itself.
SavesFaulty(cookie) == cookie.expires # 0

\* Whether the engine writes the file after it has set a cookie.
Saves(cookie) == ~StaysSaved(cookie)

\* A Set-Cookie header of a reply: under the HTTP lock, which is held until
\* the file has been written.
SetCookie(domain, cookie) ==
    /\ open /\ writing = "no"
    /\ cookie.names # <<>>
    /\ lists' = AddCookie(lists, domain, cookie)
    /\ saved' = StaysSaved(cookie)
    /\ writing' = IF Saves(cookie) THEN "opening" ELSE "no"
    /\ changed' = TRUE
    /\ UNCHANGED <<file, open, now, leaving, failed>>

-----------------------------------------------------------------------------
(* The end of the client: memory is gone. *)

Gone ==
    /\ open' = FALSE /\ lists' = Nothing /\ saved' = TRUE
    /\ writing' = "no" /\ leaving' = FALSE
    /\ changed' = FALSE /\ failed' = FALSE

\* TermHTTPInfo's caller writes the file once more if anything has ever been
\* set that belongs there.
Close ==
    /\ open /\ writing = "no"
    /\ \/ saved /\ Gone
       \/ /\ ~saved
          /\ writing' = "opening" /\ leaving' = TRUE
          /\ UNCHANGED <<lists, saved, open, changed, failed>>
    /\ UNCHANGED <<file, now>>

-----------------------------------------------------------------------------
(* WriteCookieFile, whose result its callers ignore. *)

Returns(ok) ==
    \/ leaving /\ Gone
    \/ /\ ~leaving
       /\ writing' = "no" /\ failed' = ~ok
       /\ UNCHANGED memory

\* Opening the file cuts it to nothing ...
Truncate ==
    /\ writing = "opening"
    /\ file' = Nothing
    /\ writing' = "lines"
    /\ UNCHANGED <<memory, now, failed>>

\* ... unless it cannot be opened.
OpenFails == writing = "opening" /\ Returns(FALSE) /\ UNCHANGED <<file, now>>

Lines(trees, d) == IF d \in DOMAIN trees THEN trees[d] ELSE <<>>

\* The cookies of a domain are written together, in the order of the list.
IsNextLine(d, cookie) ==
    /\ writing = "lines"
    /\ d \in DOMAIN Written(lists)
    /\ Len(Lines(file, d)) < Len(Written(lists)[d])
    /\ \A e \in DOMAIN file \ {d} : Len(file[e]) = Len(Written(lists)[e])
    /\ cookie = Written(lists)[d][Len(Lines(file, d)) + 1]

Extended(d, cookie) == [e \in DOMAIN file \cup {d} |->
                        IF e = d THEN Append(Lines(file, d), cookie) ELSE file[e]]

WriteLine(d) ==
    /\ \E cookie \in Cookie : IsNextLine(d, cookie) /\ file' = Extended(d, cookie)
    /\ UNCHANGED <<memory, now, writing, failed>>

LastLine ==
    /\ writing = "lines"
    /\ \A d \in DOMAIN Written(lists) : Len(Lines(file, d)) = Len(Written(lists)[d])
    /\ Returns(TRUE)
    /\ UNCHANGED <<file, now>>

\* What is lost of a line is the end of its last column, the names: a line
\* that ends earlier is not a cookie.
Torn ==
    \/ UNCHANGED file
    \/ \E d \in Domains, cookie \in Cookie, names \in NameLists :
          /\ IsNextLine(d, cookie)
          /\ Lists!IsPrefix(names, cookie.names)
          /\ file' = Extended(d, [cookie EXCEPT !.names = names])

\* The disk is full: the stream ignores what is written after that.
DiskFull == writing = "lines" /\ Returns(FALSE) /\ Torn /\ UNCHANGED now

Crash == open /\ Gone /\ Torn /\ UNCHANGED now

-----------------------------------------------------------------------------
\* ReadCookieFile adds what it reads cookie by cookie.
Read(domain) ==
    LET trees[i \in 0 .. Len(file[domain])] ==
            IF i = 0 THEN Nothing ELSE AddCookie(trees[i - 1], domain, file[domain][i])
    IN  trees[Len(file[domain])]

Start ==
    /\ ~open
    /\ open' = TRUE
    /\ lists' = [d \in {x \in DOMAIN file : Read(x) # Nothing} |-> Read(d)[d]]
    /\ saved' = (file = Nothing)
    /\ UNCHANGED <<file, now, writing, leaving, changed, failed>>

\* Time passes, and cookies expire.
Tick == now < MaxTime /\ now' = now + 1 /\ UNCHANGED <<memory, file, writing, failed>>

CookiesNext ==
    \/ \E domain \in Domains, cookie \in Cookie : SetCookie(domain, cookie)
    \/ Truncate \/ OpenFails \/ (\E d \in Domains : WriteLine(d)) \/ LastLine \/ DiskFull
    \/ Close \/ Crash \/ Start
    \/ Tick

CookiesSpec == CookiesInit /\ [][CookiesNext]_cookieVars

-----------------------------------------------------------------------------
ListsType(trees) ==
    DOMAIN trees \subseteq Domains /\ trees \in [DOMAIN trees -> Seq(Cookie) \ {<<>>}]

CookiesTypeOK ==
    /\ ListsType(lists) /\ ListsType(file)
    /\ saved \in BOOLEAN /\ open \in BOOLEAN /\ leaving \in BOOLEAN
    /\ changed \in BOOLEAN /\ failed \in BOOLEAN
    /\ writing \in {"no", "opening", "lines"}
    /\ now \in Nat

\* The trees a write of the file may have got to.
IsPart(part, whole) ==
    \A d \in DOMAIN part :
        /\ d \in DOMAIN whole
        /\ Len(part[d]) <= Len(whole[d])
        /\ \A i \in 1 .. Len(part[d]) : part[d][i] = whole[d][i]

(***************************************************************************)
(* Between two writes a crash loses no cookie that has an expiry date and  *)
(* brings none back: from the first cookie set since the start on, the     *)
(* file holds exactly those in memory, also when a cookie without a date   *)
(* has taken the place of one with a date, and also after writes that have *)
(* failed, as soon as one has succeeded.  Before that it holds at least    *)
(* those in memory, since reading the file may drop some.  In the middle   *)
(* of a write it holds a part of them, whole lines of this write only.     *)
(***************************************************************************)
FileIsCurrent ==
    /\ writing = "lines" => IsPart(file, Written(lists))
    /\ open /\ writing = "no" /\ changed /\ ~failed => file = Written(lists)
    /\ open /\ writing = "no" /\ ~changed =>
           \A d \in DOMAIN lists : d \in DOMAIN file /\ Range(lists[d]) \subseteq Range(file[d])

\* As long as m_boolSaved holds there is nothing to write, in the file or in memory.
NothingToSave ==
    open /\ saved => /\ file = Nothing
                     /\ \A d \in DOMAIN lists : \A i \in DOMAIN lists[d] : lists[d][i].expires = 0

\* The file is written only while there is something that belongs there, and
\* a write can fail only when there is.
WritesWhatIsUnsaved ==
    /\ writing # "no" => /\ open /\ ~saved
                         /\ leaving \/ changed
    /\ changed => open
    /\ failed => ~saved /\ open
    /\ leaving => writing # "no"

CookiesInv == CookiesTypeOK /\ FileIsCurrent /\ NothingToSave /\ WritesWhatIsUnsaved
=============================================================================

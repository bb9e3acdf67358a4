---------------------------- MODULE GetHandlers ----------------------------
(***************************************************************************)
(* The requests that read the cache: which resource a path belongs to, the *)
(* data of a resource for its provider, and plain reads (gnmiServerGet.go, *)
(* serverconfig.go).  Requests do not look at each other, so one at a time *)
(* is followed, while everybody else changes the entries and the copy of   *)
(* the configuration: a loop over a Go map that is changed meanwhile       *)
(* visits what stays, and may or may not visit what comes or goes.         *)
(*                                                                         *)
(* The paths are compared as text (strings.Contains).  A text is a         *)
(* sequence of pieces, among them "/" before each element and "[" before   *)
(* its key.                                                                *)
(***************************************************************************)
EXTENDS Naturals, SequencesExt

CONSTANTS
  Piece,        \* pieces of texts
  Resource,     \* managed resources
  XPath,        \* the path of each, as text
  Leaf,         \* leaves of the configuration tree, each the text of its path
  Asked,        \* paths that are asked for, as text
  MaxChanges,   \* bound: changes of the cache while one request is served
  NoResource    \* no match: the empty name, or unmanagedResource

Root == <<"/">>

\* The text of a path begins with "/", after which comes a name.
IsText(t) ==
  /\ t \in Seq(Piece)
  /\ t # <<>>
  /\ t[1] = "/"
  /\ t # Root => \A i \in 1..Len(t) :
                  t[i] = "/" => i < Len(t) /\ t[i + 1] \notin {"/", "["}

ASSUME PieceAssumption == {"/", "["} \subseteq Piece
ASSUME XPathAssumption ==
  /\ DOMAIN XPath = Resource
  /\ \A r \in Resource : IsText(XPath[r])
ASSUME LeafAssumption ==
  \A l \in Leaf : IsText(l) /\ l # Root /\ \A r \in Resource : l # XPath[r]
ASSUME AskedAssumption == \A p \in Asked : IsText(p)
ASSUME MaxChangesAssumption == MaxChanges \in Nat
ASSUME NoResourceAssumption == NoResource \notin Resource

VARIABLES
  service,   \* "gnmi", which works on Cache.Data2, or "legacy", on Cache.Data
  ready,     \* Cache.ready
  entries,   \* the resources in the map of the service
  copy,      \* the leaves in Cache.CurrentConfig
  request,   \* what is asked for
  step,      \* where the handler is
  visited,   \* what its loop over the map has visited
  match,     \* matchedResourceName; its path is matchedResourcePath
  pathElems, \* names of elements to cut out of the data
  todo,      \* paths a plain read has still to look at
  value,     \* the data read
  answer     \* what is sent back

\* Auxiliary: what was there at any time since the request came, what was
\* there all the time, and how many changes there were.
VARIABLES seen, lasting, seenLeaf, lastingLeaf, changes

cacheVars == <<ready, entries, copy>>
handlerVars == <<request, step, visited, match, pathElems, todo, value,
                 answer>>
auxVars == <<seen, lasting, seenLeaf, lastingLeaf, changes>>
vars == <<service, cacheVars, handlerVars, auxVars>>

-----------------------------------------------------------------------------
(* Paths.                                                                  *)

\* strings.Contains
InText(t, u) ==
  \E i \in 0..(Len(t) - Len(u)) : SubSeq(t, i + 1, i + Len(u)) = u

\* What the comparison of texts is meant to find: p is q or lies below it.
Within(p, q) == p = q \/ q = Root \/ IsPrefix(Append(q, "/"), p)

TrimPrefix(t, u) == IF IsPrefix(u, t) THEN SubSeq(t, Len(u) + 1, Len(t)) ELSE t

\* The name of the first element of a text: split at "/", then at "[".
FirstName(t) ==
  Restrict(t, {i \in DOMAIN t : \A j \in 1..i : t[j] \notin {"/", "["}})

ElemBelow(p, q) == FirstName(TrimPrefix(p, Append(q, "/")))

Below(p) == {l \in Leaf : Within(l, p)}

-----------------------------------------------------------------------------

NoRequest == [op |-> "none"]
NoAnswer == [kind |-> "none"]

Name(r) == [kind |-> "name", res |-> r]
Data(L) == [kind |-> "data", data |-> L]
Status(cacheReady, exists, hasData, L) ==
  [kind |-> "status", cacheReady |-> cacheReady, exists |-> exists,
   hasData |-> hasData, data |-> L]

Init ==
  /\ service \in {"gnmi", "legacy"}
  /\ ready = FALSE
  /\ entries = {}
  /\ copy = {}
  /\ request = NoRequest
  /\ step = "idle"
  /\ visited = {}
  /\ match = NoResource
  /\ pathElems = {}
  /\ todo = <<>>
  /\ value = {}
  /\ answer = NoAnswer
  /\ seen = {}
  /\ lasting = {}
  /\ seenLeaf = {}
  /\ lastingLeaf = {}
  /\ changes = 0

-----------------------------------------------------------------------------
(* Plausible mistakes in the definitions below and above.  No              *)
(* specification uses them: they stand in for what they are named after    *)
(* when the properties are tested (PROJECT.json, "mutants").               *)

\* EntryStored, by a handler that does not look whether the cache is ready.
StoredEarly(r) ==
  /\ step = "idle"
  /\ r \notin entries
  /\ entries' = entries \union {r}
  /\ UNCHANGED <<service, ready, copy, handlerVars, auxVars>>

\* Longer, the first match being kept.
FirstMatch(r) == match = NoResource

\* Unmanaged, the data forgotten.
UnmanagedWithoutData ==
  /\ step = "lookup"
  /\ request.res \notin entries
  /\ step' = "reply"
  /\ answer' = Status(TRUE, FALSE, FALSE, {})
  /\ UNCHANGED <<service, cacheVars, request, visited, match, pathElems, todo,
                 value, auxVars>>

\* ParseVisit, the separator not being part of the prefix.
ParseVisitNoSeparator(r) ==
  /\ step = "parse"
  /\ r \in entries \ visited
  /\ visited' = visited \union {r}
  /\ pathElems' =
       IF InText(XPath[r], request.path)
         THEN pathElems \union {FirstName(TrimPrefix(XPath[r], request.path))}
         ELSE pathElems
  /\ UNCHANGED <<service, cacheVars, request, step, match, todo, value, answer,
                 auxVars>>

\* ParseDone, cutting out what begins with the name of an element.
ParseDoneByPrefix ==
  /\ step = "parse"
  /\ lasting \subseteq visited
  /\ request.path # Root
  /\ step' = "reply"
  /\ answer' = Status(TRUE, TRUE, TRUE,
       {l \in value : \A e \in pathElems :
                        ~IsPrefix(e, ElemBelow(l, request.path))})
  /\ UNCHANGED <<service, cacheVars, request, visited, match, pathElems, todo,
                 value, auxVars>>

\* ReadPath, ending at a path that is not found.
ReadPathGivesUp ==
  /\ step = "paths"
  /\ todo # <<>>
  /\ value' = value \union (copy \intersect Below(Head(todo)))
  /\ todo' = IF copy \intersect Below(Head(todo)) = {}
               THEN <<>> ELSE Tail(todo)
  /\ UNCHANGED <<service, cacheVars, request, step, visited, match, pathElems,
                 answer, auxVars>>

-----------------------------------------------------------------------------
(* The rest of the driver.  It is free between two requests.               *)

Change ==
  /\ step # "reply"
  /\ IF step = "idle"
       THEN UNCHANGED auxVars
       ELSE /\ changes < MaxChanges
            /\ changes' = changes + 1
            /\ seen' = seen \union entries'
            /\ lasting' = lasting \intersect entries'
            /\ seenLeaf' = seenLeaf \union copy'
            /\ lastingLeaf' = lastingLeaf \intersect copy'
  /\ UNCHANGED <<service, handlerVars>>

CacheReady ==
  /\ ~ready
  /\ ready' = TRUE
  /\ UNCHANGED <<entries, copy>>
  /\ Change

\* CreateGNMIK8sResource, or Create of the old service.
EntryStored(r) ==
  /\ ready
  /\ r \notin entries
  /\ entries' = entries \union {r}
  /\ UNCHANGED <<ready, copy>>
  /\ Change

\* DeleteResource2.  Nothing removes an entry of the old service.
EntryRemoved(r) ==
  /\ service = "gnmi"
  /\ r \in entries
  /\ entries' = entries \ {r}
  /\ UNCHANGED <<ready, copy>>
  /\ Change

\* The copy has several writers (module ConfigSync).
LeafStored(l) ==
  /\ l \notin copy
  /\ copy' = copy \union {l}
  /\ UNCHANGED <<ready, entries>>
  /\ Change

LeafRemoved(l) ==
  /\ l \in copy
  /\ copy' = copy \ {l}
  /\ UNCHANGED <<ready, entries>>
  /\ Change

-----------------------------------------------------------------------------
(* A request comes, and is answered.                                       *)

Request(req) ==
  /\ step = "idle"
  /\ request' = req
  /\ seen' = entries
  /\ lasting' = entries
  /\ seenLeaf' = copy
  /\ lastingLeaf' = copy
  /\ changes' = 0
  /\ UNCHANGED <<service, cacheVars, visited, match, pathElems, value>>

Answer(a) ==
  /\ step' = "reply"
  /\ answer' = a

Reply ==
  /\ step = "reply"
  /\ step' = "idle"
  /\ request' = NoRequest
  /\ visited' = {}
  /\ match' = NoResource
  /\ pathElems' = {}
  /\ todo' = <<>>
  /\ value' = {}
  /\ answer' = NoAnswer
  /\ seen' = {}
  /\ lasting' = {}
  /\ seenLeaf' = {}
  /\ lastingLeaf' = {}
  /\ changes' = 0
  /\ UNCHANGED <<service, cacheVars>>

-----------------------------------------------------------------------------
(* Which resource a path belongs to.                                       *)

StartMatch(p) ==
  /\ Request([op |-> "match", path |-> p])
  /\ step' = "match"
  /\ UNCHANGED <<todo, answer>>

GetGNMIK8sResourceName(p) ==
  /\ service = "gnmi"
  /\ \/ ready /\ StartMatch(p)
     \/ /\ ~ready
        /\ Request([op |-> "match", path |-> p])
        /\ Answer(Name(NoResource))
        /\ UNCHANGED todo

GetResourceName(p) ==
  /\ service = "legacy"
  /\ \/ ready /\ StartMatch(p)
     \/ /\ ~ready
        /\ Request([op |-> "match", path |-> p])
        /\ Answer(Name(NoResource))
        /\ UNCHANGED todo

\* For a change of the device; it asks the map of the old service.
FindManagedResource(p) == service = "legacy" /\ ready /\ StartMatch(p)

Longer(r) ==
  match = NoResource \/ Len(XPath[r]) > Len(XPath[match])

MatchVisit(r) ==
  /\ step = "match"
  /\ r \in entries \ visited
  /\ visited' = visited \union {r}
  /\ match' = IF InText(request.path, XPath[r]) /\ Longer(r) THEN r ELSE match
  /\ UNCHANGED <<service, cacheVars, request, step, pathElems, todo, value,
                 answer, auxVars>>

MatchDone ==
  /\ step = "match"
  /\ lasting \subseteq visited
  /\ Answer(Name(match))
  /\ UNCHANGED <<service, cacheVars, request, visited, match, pathElems, todo,
                 value, auxVars>>

-----------------------------------------------------------------------------
(* The data of a resource, for its provider.                               *)

\* The old service says whether the resource exists and gives the data; that
\* the cache is not ready it does not say.
Observe(r) ==
  /\ Request([op |-> "observe", path |-> XPath[r], res |-> r])
  /\ \/ ready /\ step' = "read" /\ UNCHANGED answer
     \/ ~ready /\ Answer(Status(FALSE, FALSE, FALSE, {}))
  /\ UNCHANGED todo

GetGNMIK8s(r) == service = "gnmi" /\ Observe(r)

Get(r) == service = "legacy" /\ Observe(r)

ReadCopy ==
  /\ step = "read"
  /\ step' = "lookup"
  /\ value' = copy \intersect Below(request.path)
  /\ UNCHANGED <<service, cacheVars, request, visited, match, pathElems, todo,
                 answer, auxVars>>

\* The entry is looked up after the data was read.
Unmanaged ==
  /\ step = "lookup"
  /\ request.res \notin entries
  /\ Answer(Status(TRUE, FALSE, value # {}, value))
  /\ UNCHANGED <<service, cacheVars, request, visited, match, pathElems, todo,
                 value, auxVars>>

ManagedNoData ==
  /\ step = "lookup"
  /\ request.res \in entries
  /\ value = {}
  /\ Answer(Status(TRUE, TRUE, FALSE, {}))
  /\ UNCHANGED <<service, cacheVars, request, visited, match, pathElems, todo,
                 value, auxVars>>

Managed ==
  /\ step = "lookup"
  /\ request.res \in entries
  /\ value # {}
  /\ step' = "parse"
  /\ UNCHANGED <<service, cacheVars, request, visited, match, pathElems, todo,
                 value, answer, auxVars>>

\* ParseReturnObserveDataGnmi collects the elements under which other
\* resources live ...
ParseVisit(r) ==
  /\ step = "parse"
  /\ r \in entries \ visited
  /\ visited' = visited \union {r}
  /\ pathElems' =
       IF /\ InText(XPath[r], request.path)
          /\ Len(XPath[r]) > Len(request.path)
         THEN pathElems \union {ElemBelow(XPath[r], request.path)}
         ELSE pathElems
  /\ UNCHANGED <<service, cacheVars, request, step, match, todo, value, answer,
                 auxVars>>

\* ... and deletes them from the data, whatever their keys.
ParseDone ==
  /\ step = "parse"
  /\ lasting \subseteq visited
  /\ request.path # Root
  /\ Answer(Status(TRUE, TRUE, TRUE,
              {l \in value : ElemBelow(l, request.path) \notin pathElems}))
  /\ UNCHANGED <<service, cacheVars, request, visited, match, pathElems, todo,
                 value, auxVars>>

\* It indexes the last element of the path: without one, the process ends.
ParsePanic ==
  /\ step = "parse"
  /\ lasting \subseteq visited
  /\ request.path = Root
  /\ step' = "reply"
  /\ ready' = FALSE
  /\ entries' = {}
  /\ copy' = {}
  /\ UNCHANGED <<service, request, visited, match, pathElems, todo, value,
                 answer, auxVars>>

-----------------------------------------------------------------------------
(* Plain reads.                                                            *)

StartRead(ps) ==
  /\ Request([op |-> "read", paths |-> ps])
  /\ step' = "paths"
  /\ todo' = ps
  /\ UNCHANGED answer

\* The paths one by one; a request without a path reads the whole tree.  The
\* cache need not be ready.
GetGNMI(ps) == service = "gnmi" /\ StartRead(ps)

GetConfig ==
  /\ service = "legacy"
  /\ \/ ready /\ StartRead(<<Root>>)
     \/ /\ ~ready
        /\ Request([op |-> "read", paths |-> <<>>])
        /\ Answer(Data({}))
        /\ UNCHANGED todo

\* A path that is not found adds nothing.
ReadPath ==
  /\ step = "paths"
  /\ todo # <<>>
  /\ value' = value \union (copy \intersect Below(Head(todo)))
  /\ todo' = Tail(todo)
  /\ UNCHANGED <<service, cacheVars, request, step, visited, match, pathElems,
                 answer, auxVars>>

ReadDone ==
  /\ step = "paths"
  /\ todo = <<>>
  /\ Answer(Data(value))
  /\ UNCHANGED <<service, cacheVars, request, visited, match, pathElems, todo,
                 value, auxVars>>

-----------------------------------------------------------------------------

Environment ==
  \/ CacheReady
  \/ \E r \in Resource : EntryStored(r) \/ EntryRemoved(r)
  \/ \E l \in Leaf : LeafStored(l) \/ LeafRemoved(l)

Paths == {<<Root>>} \union {<<p, q>> : p \in Asked, q \in Asked}

Next ==
  \/ Environment
  \/ \E p \in Asked : GetGNMIK8sResourceName(p)
  \/ \E p \in Asked : GetResourceName(p)
  \/ \E p \in Asked : FindManagedResource(p)
  \/ \E r \in Resource : MatchVisit(r)
  \/ MatchDone
  \/ \E r \in Resource : GetGNMIK8s(r)
  \/ \E r \in Resource : Get(r)
  \/ ReadCopy
  \/ Unmanaged
  \/ ManagedNoData
  \/ Managed
  \/ \E r \in Resource : ParseVisit(r)
  \/ ParseDone
  \/ ParsePanic
  \/ \E ps \in Paths : GetGNMI(ps)
  \/ GetConfig
  \/ ReadPath
  \/ ReadDone
  \/ Reply

Spec == Init /\ [][Next]_vars

-----------------------------------------------------------------------------
(* What holds.                                                             *)

\* The cache, the place of the handler, and what the properties compare with.
StateTypeOK ==
  /\ service \in {"gnmi", "legacy"}
  /\ ready \in BOOLEAN
  /\ entries \subseteq Resource
  /\ entries # {} => ready
  /\ copy \subseteq Leaf
  /\ step \in {"idle", "match", "read", "lookup", "parse", "paths", "reply"}
  /\ visited \subseteq Resource
  /\ match \in Resource \union {NoResource}
  /\ value \subseteq Leaf
  /\ lasting \subseteq seen
  /\ seen \subseteq Resource
  /\ lastingLeaf \subseteq seenLeaf
  /\ seenLeaf \subseteq Leaf
  /\ changes \in 0..MaxChanges

Requests ==
  {NoRequest}
    \union [op : {"match"}, path : Asked]
    \union {[op |-> "observe", path |-> XPath[r], res |-> r] : r \in Resource}
    \union [op : {"read"}, paths : Paths \union {<<>>}]

\* The names of elements that lead from one resource to another one.
Elements == {ElemBelow(XPath[s], XPath[r]) : r \in Resource, s \in Resource}

Answers ==
  {NoAnswer}
    \union [kind : {"name"}, res : Resource \union {NoResource}]
    \union [kind : {"data"}, data : SUBSET Leaf]
    \union [kind : {"status"}, cacheReady : BOOLEAN, exists : BOOLEAN,
            hasData : BOOLEAN, data : SUBSET Leaf]

\* What is asked, what is still to be cut out or read for it, and what is
\* answered.
RequestTypeOK ==
  /\ request \in Requests
  /\ pathElems \subseteq Elements
  /\ todo \in Seq(Asked \union {Root})
  /\ answer \in Answers

\* Every variable has its type; entries exist only in a ready cache.
TypeOK == StateTypeOK /\ RequestTypeOK

\* However entries come and go while the map is searched, the resource a path
\* is said to belong to was one of those in the map, and no resource at the
\* path or above it that was there all the time has a longer path; if there
\* was such a resource, some resource is found (gnmiServerGet.go:106-119,
\* serverconfig.go:190-202, 644-658).
BestMatch ==
  answer.kind = "name" =>
    /\ answer.res # NoResource => answer.res \in seen
    /\ \A r \in lasting :
         Within(request.path, XPath[r]) =>
           /\ answer.res # NoResource
           /\ Len(XPath[r]) <= Len(XPath[answer.res])

\* A provider is told that its resource exists only if it did at some time of
\* the request, that it does not only if it was not there all the time, and
\* likewise of its data, although data and entry are read one after the other
\* and both change in between (gnmiServerGet.go:185-305,
\* serverconfig.go:273-389).
StatusWasTrue ==
  answer.kind = "status" /\ answer.cacheReady =>
    /\ answer.exists => request.res \in seen
    /\ request.res \in lasting => answer.exists
    /\ answer.data \subseteq seenLeaf \intersect Below(request.path)
    /\ ~answer.hasData => lastingLeaf \intersect Below(request.path) = {}

Inside(r) ==
  {s \in Resource : XPath[s] # XPath[r] /\ Within(XPath[s], XPath[r])}

\* The data of a resource holds nothing of a resource inside it that was there
\* all the time, however the text of other paths is contained in that of its
\* own (serverconfig.go:777-810).
InnerDataCutOut ==
  answer.kind = "status" /\ answer.exists =>
    \A s \in Inside(request.res) \intersect lasting :
      answer.data \intersect Below(XPath[s]) = {}

\* It holds everything else of its own: what lies below an element under which
\* no other resource was at any time is there, also if the name of a resource
\* outside begins with that of this one, or ends in its path.
OwnDataKept ==
  answer.kind = "status" /\ answer.hasData =>
    \A l \in lastingLeaf \intersect Below(request.path) :
      \/ l \in answer.data
      \/ \E s \in Inside(request.res) \intersect seen :
           ElemBelow(XPath[s], request.path) = ElemBelow(l, request.path)

\* A read of several paths has what was below any of them all the time, and
\* nothing that was not in the copy at some time (gnmiServerGet.go:333-358).
AllPathsRead ==
  answer.kind = "data" /\ request.paths # <<>> =>
    /\ answer.data \subseteq seenLeaf
    /\ \A p \in Range(request.paths) :
         lastingLeaf \intersect Below(p) \subseteq answer.data

=============================================================================

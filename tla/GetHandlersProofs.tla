------------------------- MODULE GetHandlersProofs -------------------------
(* The readers of the cache, for every set of resources, paths and leaves. *)
EXTENDS GetHandlers, SequenceTheorems, TLAPS

-----------------------------------------------------------------------------
(* Texts.                                                                  *)

\* A prefix agrees with the text at each of its places.
LEMMA PrefixPointwise ==
  ASSUME NEW s \in Seq(Piece), NEW t \in Seq(Piece)
  PROVE  IsPrefix(s, t) <=> /\ Len(s) <= Len(t)
                            /\ \A i \in 1..Len(s) : s[i] = t[i]
<1>1. CASE Len(s) <= Len(t)
  <2>1. /\ SubSeq(s, 1, Len(s)) = s
        /\ SubSeq(t, 1, Len(s)) \in Seq(Piece)
        /\ Len(SubSeq(t, 1, Len(s))) = Len(s)
        /\ \A i \in 1..Len(s) : SubSeq(t, 1, Len(s))[i] = t[i]
    BY <1>1
  <2> QED
    BY <1>1, <2>1, SeqEqual DEF IsPrefix
<1> QED
  BY <1>1 DEF IsPrefix

\* A text that begins with another one contains it.
LEMMA PrefixInText ==
  ASSUME NEW s \in Seq(Piece), NEW t \in Seq(Piece), IsPrefix(s, t)
  PROVE  InText(t, s)
<1>1. Len(s) <= Len(t) /\ SubSeq(s, 1, Len(s)) = SubSeq(t, 1, Len(s))
  BY DEF IsPrefix
<1>2. SubSeq(s, 1, Len(s)) = s
  OBVIOUS
<1>3. 0 \in 0..(Len(t) - Len(s)) /\ SubSeq(t, 0 + 1, 0 + Len(s)) = s
  BY <1>1, <1>2
<1> QED
  BY <1>3 DEF InText

\* What the comparison of texts is meant to find, it finds: the text of a path
\* contains that of every path above it.
LEMMA WithinInText ==
  ASSUME NEW p, NEW q, IsText(p), IsText(q), Within(p, q)
  PROVE  InText(p, q)
<1>1. p \in Seq(Piece) /\ q \in Seq(Piece)
  BY DEF IsText
<1>2. IsPrefix(q, p)
  <2>1. CASE p = q
    BY <1>1, <2>1, PrefixPointwise
  <2>2. CASE q = Root
    <3>1. q[1] = "/" /\ Len(q) = 1 /\ Len(p) >= 1 /\ p[1] = "/"
      BY <1>1, <2>2 DEF IsText, Root
    <3> QED
      BY <1>1, <3>1, PrefixPointwise
  <2>3. CASE IsPrefix(Append(q, "/"), p)
    <3>1. /\ Append(q, "/") \in Seq(Piece)
          /\ Len(Append(q, "/")) = Len(q) + 1
          /\ \A i \in 1..Len(q) : Append(q, "/")[i] = q[i]
      BY <1>1, PieceAssumption, AppendProperties
    <3>2. /\ Len(q) + 1 <= Len(p)
          /\ \A i \in 1..(Len(q) + 1) : Append(q, "/")[i] = p[i]
      BY <1>1, <2>3, <3>1, PrefixPointwise
    <3>3. \A i \in 1..Len(q) : q[i] = p[i]
      BY <1>1, <3>1, <3>2
    <3> QED
      BY <1>1, <3>2, <3>3, PrefixPointwise
  <2> QED
    BY <2>1, <2>2, <2>3 DEF Within
<1> QED
  BY <1>1, <1>2, PrefixInText

\* What is below a path, after the path and the separator.
LEMMA BelowPointwise ==
  ASSUME NEW p \in Seq(Piece), NEW q \in Seq(Piece),
         IsPrefix(Append(q, "/"), p)
  PROVE  /\ TrimPrefix(p, Append(q, "/")) \in Seq(Piece)
         /\ Len(p) = Len(q) + 1 + Len(TrimPrefix(p, Append(q, "/")))
         /\ \A i \in 1..Len(TrimPrefix(p, Append(q, "/"))) :
              TrimPrefix(p, Append(q, "/"))[i] = p[Len(q) + 1 + i]
         /\ p[Len(q) + 1] = "/"
         /\ \A i \in 1..Len(q) : p[i] = q[i]
<1> DEFINE t == TrimPrefix(p, Append(q, "/"))
<1>1. /\ Append(q, "/") \in Seq(Piece)
      /\ Len(Append(q, "/")) = Len(q) + 1
      /\ \A i \in 1..Len(q) : Append(q, "/")[i] = q[i]
      /\ Append(q, "/")[Len(q) + 1] = "/"
  BY PieceAssumption, AppendProperties
<1>2. /\ Len(q) + 1 <= Len(p)
      /\ \A i \in 1..(Len(q) + 1) : Append(q, "/")[i] = p[i]
  BY <1>1, PrefixPointwise
<1>3. t = SubSeq(p, Len(q) + 2, Len(p))
  BY <1>1 DEF TrimPrefix
<1> HIDE DEF t
<1>4. /\ t \in Seq(Piece)
      /\ Len(t) = Len(p) - Len(q) - 1
      /\ \A i \in 1..(Len(p) - Len(q) - 1) : t[i] = p[Len(q) + 1 + i]
  BY <1>2, <1>3, SubSeqProperties
<1>5. p[Len(q) + 1] = "/" /\ \A i \in 1..Len(q) : p[i] = q[i]
  BY <1>1, <1>2
<1>6. /\ Len(p) = Len(q) + 1 + Len(t)
      /\ \A i \in 1..Len(t) : t[i] = p[Len(q) + 1 + i]
  BY <1>2, <1>4
<1> QED
  BY <1>4, <1>5, <1>6 DEF t

\* The first name of a text stays the same when more elements are appended.
LEMMA FirstNameKept ==
  ASSUME NEW t \in Seq(Piece), NEW u \in Seq(Piece),
         Len(t) + 1 <= Len(u), u[Len(t) + 1] = "/",
         \A i \in 1..Len(t) : u[i] = t[i]
  PROVE  FirstName(u) = FirstName(t)
<1> DEFINE N(s) == {i \in DOMAIN s : \A j \in 1..i : s[j] \notin {"/", "["}}
<1>1. DOMAIN t = 1..Len(t) /\ DOMAIN u = 1..Len(u) /\ Len(t) \in Nat
  OBVIOUS
<1>2. \A i \in N(u) : i \in N(t)
  <2> TAKE i \in N(u)
  <2>1. i \in 1..Len(u) /\ \A j \in 1..i : u[j] \notin {"/", "["}
    BY <1>1
  <2>2. i <= Len(t)
    <3>1. SUFFICES ASSUME Len(t) < i PROVE FALSE
      BY <1>1, <2>1
    <3>2. Len(t) + 1 \in 1..i
      BY <1>1, <2>1, <3>1
    <3> QED
      BY <2>1, <3>2
  <2>3. \A j \in 1..i : t[j] \notin {"/", "["}
    <3> TAKE j \in 1..i
    <3>1. j \in 1..Len(t)
      BY <1>1, <2>1, <2>2
    <3> QED
      BY <2>1, <3>1
  <2> QED
    BY <1>1, <2>1, <2>2, <2>3
<1>3. \A i \in N(t) : i \in N(u)
  <2> TAKE i \in N(t)
  <2>1. i \in 1..Len(t) /\ \A j \in 1..i : t[j] \notin {"/", "["}
    BY <1>1
  <2>2. \A j \in 1..i : u[j] \notin {"/", "["}
    <3> TAKE j \in 1..i
    <3>1. j \in 1..Len(t)
      BY <1>1, <2>1
    <3> QED
      BY <2>1, <3>1
  <2> QED
    BY <1>1, <2>1, <2>2
<1>4. N(u) = N(t) /\ \A i \in N(t) : u[i] = t[i]
  BY <1>1, <1>2, <1>3
<1> HIDE DEF N
<1>5. Restrict(u, N(u)) = Restrict(t, N(t))
  BY <1>4 DEF Restrict
<1> QED
  BY <1>5 DEF FirstName, N

\* A leaf below a resource below a path lies under the element of the path
\* that the resource lies under.
LEMMA SameElement ==
  ASSUME NEW l \in Seq(Piece), NEW p \in Seq(Piece), NEW q \in Seq(Piece),
         IsPrefix(Append(q, "/"), p), IsPrefix(Append(p, "/"), l)
  PROVE  /\ IsPrefix(Append(q, "/"), l)
         /\ ElemBelow(l, q) = ElemBelow(p, q)
<1> DEFINE t == TrimPrefix(p, Append(q, "/"))
           u == TrimPrefix(l, Append(q, "/"))
<1>1. /\ Append(q, "/") \in Seq(Piece)
      /\ Len(Append(q, "/")) = Len(q) + 1
      /\ \A i \in 1..Len(q) : Append(q, "/")[i] = q[i]
      /\ Append(q, "/")[Len(q) + 1] = "/"
  BY PieceAssumption, AppendProperties
<1>2. /\ t \in Seq(Piece)
      /\ Len(p) = Len(q) + 1 + Len(t)
      /\ \A i \in 1..Len(t) : t[i] = p[Len(q) + 1 + i]
      /\ p[Len(q) + 1] = "/"
      /\ \A i \in 1..Len(q) : p[i] = q[i]
  BY BelowPointwise
<1>3. /\ Len(l) >= Len(p) + 1
      /\ l[Len(p) + 1] = "/"
      /\ \A i \in 1..Len(p) : l[i] = p[i]
  BY BelowPointwise
<1>4. IsPrefix(Append(q, "/"), l)
  <2>1. /\ Len(q) + 1 <= Len(l)
        /\ \A i \in 1..(Len(q) + 1) : Append(q, "/")[i] = l[i]
    BY <1>1, <1>2, <1>3
  <2> QED
    BY <1>1, <2>1, PrefixPointwise
<1>5. /\ u \in Seq(Piece)
      /\ Len(l) = Len(q) + 1 + Len(u)
      /\ \A i \in 1..Len(u) : u[i] = l[Len(q) + 1 + i]
  BY <1>4, BelowPointwise
<1> HIDE DEF t, u
<1>6. Len(t) + 1 <= Len(u)
  BY <1>2, <1>3, <1>5
<1>7. u[Len(t) + 1] = "/"
  BY <1>2, <1>3, <1>5, <1>6
<1>8. \A i \in 1..Len(t) : u[i] = t[i]
  <2> TAKE i \in 1..Len(t)
  <2>1. i \in 1..Len(u) /\ Len(q) + 1 + i \in 1..Len(p)
    BY <1>2, <1>6
  <2> QED
    BY <1>2, <1>3, <1>5, <2>1
<1>9. FirstName(u) = FirstName(t)
  BY <1>2, <1>5, <1>6, <1>7, <1>8, FirstNameKept
<1> QED
  BY <1>4, <1>9 DEF ElemBelow, t, u

\* What is not below a path has no name there, and what is has one.
LEMMA NoElement ==
  ASSUME NEW p, NEW q \in Seq(Piece), IsText(p),
         ~IsPrefix(Append(q, "/"), p)
  PROVE  DOMAIN ElemBelow(p, q) = {}
<1>1. TrimPrefix(p, Append(q, "/")) = p
  BY DEF TrimPrefix
<1>2. p \in Seq(Piece) /\ p[1] = "/"
  BY DEF IsText
<1>3. {i \in DOMAIN p : \A j \in 1..i : p[j] \notin {"/", "["}} = {}
  BY <1>2
<1> QED
  BY <1>1, <1>3 DEF ElemBelow, FirstName, Restrict

LEMMA SomeElement ==
  ASSUME NEW p, NEW q \in Seq(Piece), IsText(p), p # Root,
         IsPrefix(Append(q, "/"), p)
  PROVE  1 \in DOMAIN ElemBelow(p, q)
<1> DEFINE t == TrimPrefix(p, Append(q, "/"))
<1>1. p \in Seq(Piece)
  BY DEF IsText
<1>2. /\ t \in Seq(Piece)
      /\ Len(p) = Len(q) + 1 + Len(t)
      /\ \A i \in 1..Len(t) : t[i] = p[Len(q) + 1 + i]
      /\ p[Len(q) + 1] = "/"
  BY <1>1, BelowPointwise
<1>3. /\ Len(q) + 1 < Len(p)
      /\ p[Len(q) + 2] \notin {"/", "["}
  <2>1. Len(q) + 1 \in 1..Len(p)
    BY <1>1, <1>2
  <2> QED
    BY <1>2, <2>1 DEF IsText
<1> HIDE DEF t
<1>4. 1 \in DOMAIN t /\ t[1] \notin {"/", "["}
  BY <1>2, <1>3
<1>5. 1 \in {i \in DOMAIN t : \A j \in 1..i : t[j] \notin {"/", "["}}
  BY <1>4
<1> QED
  BY <1>5 DEF ElemBelow, FirstName, Restrict, t

-----------------------------------------------------------------------------
(* The inductive invariant.                                                *)

Active == step \notin {"idle", "reply"}

\* While a handler runs, the auxiliary variables enclose entries and copy.
SeenInv ==
  Active => /\ entries \subseteq seen
            /\ lasting \subseteq entries
            /\ copy \subseteq seenLeaf
            /\ lastingLeaf \subseteq copy

\* What a handler begins with, and that it answers once.
FreshInv ==
  /\ step \in {"idle", "read", "lookup"} => visited = {} /\ pathElems = {}
  /\ step = "idle" => match = NoResource /\ value = {}
  /\ step # "reply" => answer = NoAnswer

\* The match so far is the longest of what was visited.
MatchInv ==
  step = "match" =>
    /\ request.path \in Asked
    /\ match # NoResource => match \in seen
    /\ \A r \in visited :
         InText(request.path, XPath[r]) =>
           /\ match # NoResource
           /\ Len(XPath[r]) <= Len(XPath[match])

\* The data read is enclosed by what was there, and stays so.
StatusInv ==
  /\ step \in {"read", "lookup", "parse"} =>
       /\ request.res \in Resource
       /\ request.path = XPath[request.res]
  /\ step \in {"lookup", "parse"} =>
       /\ value \subseteq seenLeaf \intersect Below(request.path)
       /\ lastingLeaf \intersect Below(request.path) \subseteq value
  /\ step = "parse" => request.res \in seen

ReachesInto(p, q) == InText(p, q) /\ Len(p) > Len(q)

\* The elements to cut out are those of the resources visited.
ParseInv ==
  step = "parse" =>
    /\ \A s \in visited :
         ReachesInto(XPath[s], request.path) =>
           ElemBelow(XPath[s], request.path) \in pathElems
    /\ \A e \in pathElems :
         \E s \in seen : e = ElemBelow(XPath[s], request.path)

\* What was there all the time under the paths done is read.
ReadInv ==
  step = "paths" =>
    /\ todo \in Seq(Asked \union {Root})
    /\ value \subseteq seenLeaf
    /\ \A p \in Range(request.paths) \ Range(todo) :
         lastingLeaf \intersect Below(p) \subseteq value

AnswersInv ==
  /\ BestMatch
  /\ StatusWasTrue
  /\ InnerDataCutOut
  /\ OwnDataKept
  /\ AllPathsRead

Inv ==
  /\ StateTypeOK
  /\ SeenInv
  /\ FreshInv
  /\ MatchInv
  /\ StatusInv
  /\ ParseInv
  /\ ReadInv
  /\ AnswersInv

\* All that is said of answers is said of answers given.
LEMMA NothingAnswered ==
  ASSUME answer' = NoAnswer
  PROVE  AnswersInv'
BY DEF AnswersInv, BestMatch, StatusWasTrue, InnerDataCutOut, OwnDataKept,
       AllPathsRead, NoAnswer

LEMMA InitInv == Init => Inv
<1> SUFFICES ASSUME Init PROVE Inv
  OBVIOUS
<1>1. StateTypeOK
  <2>1. 0 \in 0..MaxChanges
    BY MaxChangesAssumption
  <2> QED
    BY <2>1, Zenon DEF Init, StateTypeOK
<1>2. AnswersInv
  BY DEF Init, AnswersInv, BestMatch, StatusWasTrue, InnerDataCutOut,
         OwnDataKept, AllPathsRead, NoAnswer
<1> QED
  BY <1>1, <1>2 DEF Init, Inv, SeenInv, Active, FreshInv, MatchInv, StatusInv,
                    ParseInv, ReadInv

-----------------------------------------------------------------------------
(* The rest of the driver.                                                 *)

LEMMA EnvironmentKeepsInv ==
  ASSUME Inv, Environment
  PROVE  Inv'
<1>1. Change /\ entries' \subseteq Resource /\ copy' \subseteq Leaf
      /\ (entries' # {} => ready')
  BY DEF Environment, CacheReady, EntryStored, EntryRemoved, LeafStored,
         LeafRemoved, Inv, StateTypeOK
<1>2. /\ UNCHANGED <<service, handlerVars>>
      /\ step # "reply"
      /\ step = "idle" => UNCHANGED auxVars
      /\ ready' \in BOOLEAN
  BY <1>1 DEF Change, Environment, CacheReady, EntryStored, EntryRemoved,
              LeafStored, LeafRemoved, Inv, StateTypeOK
<1>3. step # "idle" =>
        /\ changes' = changes + 1 /\ changes < MaxChanges
        /\ seen' = seen \union entries'
        /\ lasting' = lasting \intersect entries'
        /\ seenLeaf' = seenLeaf \union copy'
        /\ lastingLeaf' = lastingLeaf \intersect copy'
  BY <1>1 DEF Change
<1>4. StateTypeOK'
  <2>1. changes' \in 0..MaxChanges
    BY <1>2, <1>3, MaxChangesAssumption DEF Inv, StateTypeOK, auxVars
  <2>2. /\ lasting' \subseteq seen' /\ seen' \subseteq Resource
        /\ lastingLeaf' \subseteq seenLeaf' /\ seenLeaf' \subseteq Leaf
    BY <1>1, <1>2, <1>3 DEF Inv, StateTypeOK, auxVars
  <2> QED
    BY <1>1, <1>2, <2>1, <2>2 DEF Inv, StateTypeOK, handlerVars
<1>5. SeenInv'
  BY <1>2, <1>3 DEF SeenInv, Active, handlerVars
<1>6. FreshInv'
  BY <1>2 DEF Inv, FreshInv, handlerVars
<1>7. /\ step # "idle" => seen \subseteq seen' /\ seenLeaf \subseteq seenLeaf'
                          /\ lastingLeaf' \subseteq lastingLeaf
  BY <1>3
<1>8. MatchInv' /\ StatusInv' /\ ParseInv' /\ ReadInv'
  <2> USE <1>2, <1>7 DEF Inv, handlerVars
  <2>1. MatchInv'
    BY DEF MatchInv
  <2>2. StatusInv'
    BY DEF StatusInv
  <2>3. ParseInv'
    BY DEF ParseInv
  <2>4. ReadInv'
    BY DEF ReadInv
  <2> QED
    BY <2>1, <2>2, <2>3, <2>4
<1>9. AnswersInv'
  BY <1>2, NothingAnswered DEF Inv, FreshInv, handlerVars
<1> QED
  BY <1>4, <1>5, <1>6, <1>8, <1>9 DEF Inv

-----------------------------------------------------------------------------
(* A request comes.                                                        *)

LEMMA RequestEffect ==
  ASSUME Inv, NEW req, Request(req)
  PROVE  /\ request' = req
         /\ seen' = entries' /\ lasting' = entries'
         /\ seenLeaf' = copy' /\ lastingLeaf' = copy'
         /\ UNCHANGED <<service, ready, entries, copy>>
         /\ visited' = {} /\ match' = NoResource /\ pathElems' = {}
         /\ value' = {}
         /\ answer = NoAnswer
         /\ lasting' # {} => ready
         /\ step' \in {"match", "read", "paths", "reply"} => StateTypeOK'
         /\ SeenInv'
<1>1. /\ step = "idle"
      /\ request' = req /\ seen' = entries /\ lasting' = entries
      /\ seenLeaf' = copy /\ lastingLeaf' = copy /\ changes' = 0
      /\ UNCHANGED <<service, ready, entries, copy, visited, match, pathElems,
                     value>>
  BY DEF Request, cacheVars
<1>2. visited = {} /\ match = NoResource /\ pathElems = {} /\ value = {}
      /\ answer = NoAnswer
  BY <1>1 DEF Inv, FreshInv
<1>3. 0 \in 0..MaxChanges
  BY MaxChangesAssumption
<1>4. step' \in {"match", "read", "paths", "reply"} => StateTypeOK'
  BY <1>1, <1>2, <1>3 DEF Inv, StateTypeOK
<1>5. SeenInv'
  BY <1>1 DEF SeenInv
<1> QED
  BY <1>1, <1>2, <1>4, <1>5 DEF Inv, StateTypeOK

LEMMA StartMatchKeepsInv ==
  ASSUME Inv, NEW p \in Asked,
         GetGNMIK8sResourceName(p) \/ GetResourceName(p)
           \/ FindManagedResource(p)
  PROVE  Inv'
<1> DEFINE req == [op |-> "match", path |-> p]
<1>1. Request(req)
  BY DEF GetGNMIK8sResourceName, GetResourceName, FindManagedResource,
         StartMatch
<1>2. \/ step' = "match" /\ answer' = answer
      \/ ~ready /\ step' = "reply" /\ answer' = Name(NoResource)
  BY DEF GetGNMIK8sResourceName, GetResourceName, FindManagedResource,
         StartMatch, Answer
<1>3. /\ request'.path = p
      /\ lasting' # {} => ready
      /\ visited' = {} /\ pathElems' = {} /\ match' = NoResource
      /\ answer = NoAnswer /\ SeenInv' /\ StateTypeOK'
  BY <1>1, <1>2, RequestEffect
<1>4. AnswersInv'
  <2>1. CASE answer' = answer
    BY <1>3, <2>1, NothingAnswered
  <2>2. CASE ~ready /\ answer' = Name(NoResource)
    <3>1. answer'.kind = "name" /\ answer'.res = NoResource
      BY <2>2 DEF Name
    <3>2. lasting' = {}
      BY <1>3, <2>2
    <3> QED
      BY <3>1, <3>2 DEF AnswersInv, BestMatch, StatusWasTrue, InnerDataCutOut,
                        OwnDataKept, AllPathsRead
  <2> QED
    BY <1>2, <2>1, <2>2
<1>5. FreshInv' /\ MatchInv'
  BY <1>2, <1>3 DEF FreshInv, MatchInv
<1>6. StatusInv' /\ ParseInv' /\ ReadInv'
  BY <1>2 DEF StatusInv, ParseInv, ReadInv
<1> QED
  BY <1>3, <1>4, <1>5, <1>6 DEF Inv

LEMMA ObserveKeepsInv ==
  ASSUME Inv, NEW r \in Resource, GetGNMIK8s(r) \/ Get(r)
  PROVE  Inv'
<1> DEFINE req == [op |-> "observe", path |-> XPath[r], res |-> r]
<1>1. Request(req)
  BY DEF GetGNMIK8s, Get, Observe
<1>2. \/ step' = "read" /\ answer' = answer
      \/ step' = "reply" /\ answer' = Status(FALSE, FALSE, FALSE, {})
  BY DEF GetGNMIK8s, Get, Observe, Answer
<1>3. /\ request' = req
      /\ visited' = {} /\ pathElems' = {}
      /\ answer = NoAnswer /\ SeenInv' /\ StateTypeOK'
  <2> HIDE DEF req
  <2> QED
    BY <1>1, <1>2, RequestEffect
<1>4. AnswersInv'
  <2>1. CASE answer' = answer
    BY <1>3, <2>1, NothingAnswered
  <2>2. CASE answer' = Status(FALSE, FALSE, FALSE, {})
    BY <2>2 DEF Status, AnswersInv, BestMatch, StatusWasTrue, InnerDataCutOut,
                OwnDataKept, AllPathsRead
  <2> QED
    BY <1>2, <2>1, <2>2
<1>5. FreshInv' /\ MatchInv'
  BY <1>2, <1>3 DEF FreshInv, MatchInv
<1>6. StatusInv' /\ ParseInv' /\ ReadInv'
  BY <1>2, <1>3 DEF StatusInv, ParseInv, ReadInv
<1> QED
  BY <1>3, <1>4, <1>5, <1>6 DEF Inv

LEMMA StartReadKeepsInv ==
  ASSUME Inv, (\E ps \in Paths : GetGNMI(ps)) \/ GetConfig
  PROVE  Inv'
<1>1. PICK ps \in Paths \union {<<>>} :
        /\ Request([op |-> "read", paths |-> ps])
        /\ \/ step' = "paths" /\ todo' = ps /\ answer' = answer
           \/ step' = "reply" /\ ps = <<>> /\ answer' = Data({})
  <2>1. <<Root>> \in Paths
    BY DEF Paths
  <2> QED
    BY <2>1 DEF GetGNMI, GetConfig, StartRead, Answer
<1>2. /\ request'.paths = ps
      /\ visited' = {} /\ pathElems' = {} /\ match' = NoResource
      /\ value' = {} /\ answer = NoAnswer /\ SeenInv' /\ StateTypeOK'
  BY <1>1, RequestEffect
<1>3. AnswersInv'
  <2>1. CASE answer' = answer
    BY <1>2, <2>1, NothingAnswered
  <2>2. CASE ps = <<>> /\ answer' = Data({})
    BY <1>2, <2>2 DEF Data, AnswersInv, BestMatch, StatusWasTrue,
                      InnerDataCutOut, OwnDataKept, AllPathsRead
  <2> QED
    BY <1>1, <2>1, <2>2
<1>4. ReadInv'
  <2>1. ps \in Seq(Asked \union {Root})
    <3>1. CASE ps = <<>>
      BY <3>1, EmptySeq
    <3>2. CASE ps = <<Root>>
      BY <3>2
    <3>3. ASSUME NEW p \in Asked, NEW q \in Asked, ps = <<p, q>>
          PROVE  ps \in Seq(Asked \union {Root})
      BY <3>3
    <3> QED
      BY <1>1, <3>1, <3>2, <3>3 DEF Paths
  <2> QED
    BY <1>1, <1>2, <2>1 DEF ReadInv
<1> QED
  BY <1>1, <1>2, <1>3, <1>4 DEF Inv, FreshInv, MatchInv, StatusInv, ParseInv

\* The handler is done.
LEMMA ReplyKeepsInv ==
  ASSUME Inv, Reply
  PROVE  Inv'
<1>1. 0 \in 0..MaxChanges
  BY MaxChangesAssumption
<1>2. StateTypeOK'
  BY <1>1 DEF Reply, Inv, StateTypeOK, cacheVars
<1>3. AnswersInv'
  BY NothingAnswered DEF Reply
<1> QED
  BY <1>2, <1>3 DEF Reply, Inv, SeenInv, Active, FreshInv, MatchInv, StatusInv,
                    ParseInv, ReadInv

-----------------------------------------------------------------------------
(* The search for the resource of a path.                                  *)

LEMMA MatchVisitKeepsInv ==
  ASSUME Inv, NEW r \in Resource, MatchVisit(r)
  PROVE  Inv'
<1>1. /\ step = "match" /\ r \in entries /\ visited' = visited \union {r}
      /\ UNCHANGED <<service, ready, entries, copy, request, step, pathElems,
                     todo, value, answer, seen, lasting, seenLeaf,
                     lastingLeaf, changes>>
      /\ match' = IF InText(request.path, XPath[r]) /\ Longer(r)
                    THEN r ELSE match
  BY DEF MatchVisit, cacheVars, auxVars
<1>2. StateTypeOK' /\ SeenInv' /\ FreshInv'
  BY <1>1 DEF Inv, StateTypeOK, SeenInv, Active, FreshInv
<1>3. MatchInv'
  <2>1. match' \in {r, match} /\ r \in seen
    BY <1>1 DEF Inv, SeenInv, Active
  <2>2. \A s \in Resource : Len(XPath[s]) \in Nat
    BY XPathAssumption DEF IsText
  <2>3. ASSUME NEW s \in visited', InText(request.path, XPath[s])
        PROVE  match' # NoResource /\ Len(XPath[s]) <= Len(XPath[match'])
    <3>1. s \in Resource /\ match \in Resource \union {NoResource}
      BY <1>1 DEF Inv, StateTypeOK
    <3> QED
      BY <1>1, <2>2, <2>3, <3>1, NoResourceAssumption
         DEF Inv, MatchInv, Longer
  <2> QED
    BY <1>1, <2>1, <2>3 DEF Inv, MatchInv
<1>4. AnswersInv'
  BY <1>1, NothingAnswered DEF Inv, FreshInv
<1> QED
  BY <1>1, <1>2, <1>3, <1>4 DEF Inv, StatusInv, ParseInv, ReadInv

LEMMA MatchDoneKeepsInv ==
  ASSUME Inv, MatchDone
  PROVE  Inv'
<1>1. /\ step = "match" /\ step' = "reply" /\ lasting \subseteq visited
      /\ answer' = Name(match)
      /\ UNCHANGED <<service, ready, entries, copy, request, visited, match,
                     pathElems, todo, value, seen, lasting, seenLeaf,
                     lastingLeaf, changes>>
  BY DEF MatchDone, Answer, cacheVars, auxVars
<1>2. BestMatch'
  <2>1. ASSUME NEW r \in lasting, Within(request.path, XPath[r])
        PROVE  match # NoResource /\ Len(XPath[r]) <= Len(XPath[match])
    <3>1. IsText(request.path) /\ IsText(XPath[r])
      BY <1>1, XPathAssumption, AskedAssumption DEF Inv, MatchInv, StateTypeOK
    <3> QED
      BY <1>1, <2>1, <3>1, WithinInText DEF Inv, MatchInv
  <2> QED
    BY <1>1, <2>1 DEF Name, BestMatch, Inv, MatchInv
<1>3. AnswersInv'
  BY <1>1, <1>2 DEF Name, AnswersInv, StatusWasTrue, InnerDataCutOut,
                    OwnDataKept, AllPathsRead
<1> QED
  BY <1>1, <1>3 DEF Inv, StateTypeOK, SeenInv, Active, FreshInv, MatchInv,
                    StatusInv, ParseInv, ReadInv

-----------------------------------------------------------------------------
(* The data of a resource.                                                 *)

LEMMA LookupKeepsInv ==
  ASSUME Inv, ReadCopy \/ Unmanaged \/ ManagedNoData \/ Managed
  PROVE  Inv'
<1>1. /\ step \in {"read", "lookup"}
      /\ UNCHANGED <<service, ready, entries, copy, request, visited, match,
                     pathElems, todo, seen, lasting, seenLeaf, lastingLeaf,
                     changes>>
  BY DEF ReadCopy, Unmanaged, ManagedNoData, Managed, Answer, cacheVars,
         auxVars
<1>2. /\ visited = {} /\ pathElems = {} /\ answer = NoAnswer
      /\ entries \subseteq seen /\ lasting \subseteq entries
      /\ copy \subseteq seenLeaf /\ lastingLeaf \subseteq copy
      /\ request.res \in Resource /\ request.path = XPath[request.res]
  BY <1>1 DEF Inv, FreshInv, SeenInv, Active, StatusInv
<1>3. StateTypeOK'
  <2>1. step' \in {"lookup", "parse", "reply"} /\ value' \subseteq Leaf
    BY DEF ReadCopy, Unmanaged, ManagedNoData, Managed, Answer, Inv,
           StateTypeOK
  <2> QED
    BY <1>1, <2>1 DEF Inv, StateTypeOK
<1>4. SeenInv'
  BY <1>1, <1>2 DEF SeenInv
<1>5. MatchInv' /\ ReadInv' /\ ParseInv'
  BY <1>1, <1>2 DEF ReadCopy, Unmanaged, ManagedNoData, Managed, Answer,
                    MatchInv, ReadInv, ParseInv
<1>6. FreshInv'
  BY <1>1, <1>2 DEF ReadCopy, Unmanaged, ManagedNoData, Managed, Answer,
                    FreshInv
<1>7. StatusInv'
  <2>1. CASE ReadCopy
    BY <1>1, <1>2, <2>1 DEF ReadCopy, StatusInv
  <2>2. CASE Unmanaged \/ ManagedNoData
    BY <2>2 DEF Unmanaged, ManagedNoData, Answer, StatusInv
  <2>3. CASE Managed
    BY <1>1, <1>2, <2>3 DEF Managed, Inv, StatusInv
  <2> QED
    BY <2>1, <2>2, <2>3
<1>8. AnswersInv'
  <2>1. CASE ReadCopy \/ Managed
    BY <1>2, <2>1, NothingAnswered DEF ReadCopy, Managed
  <2>2. CASE Unmanaged
    <3>1. /\ answer'.kind = "status" /\ answer'.cacheReady
          /\ answer'.exists = FALSE /\ answer'.data = value
          /\ answer'.hasData = (value # {})
      BY <2>2 DEF Unmanaged, Answer, Status
    <3>2. /\ request.res \notin lasting
          /\ value \subseteq seenLeaf \intersect Below(request.path)
          /\ lastingLeaf \intersect Below(request.path) \subseteq value
      BY <1>2, <2>2 DEF Unmanaged, Inv, StatusInv
    <3> QED
      BY <1>1, <3>1, <3>2 DEF AnswersInv, BestMatch, StatusWasTrue,
                              InnerDataCutOut, OwnDataKept, AllPathsRead
  <2>3. CASE ManagedNoData
    <3>1. /\ answer'.kind = "status" /\ answer'.cacheReady
          /\ answer'.exists = TRUE /\ answer'.data = {}
          /\ answer'.hasData = FALSE
      BY <2>3 DEF ManagedNoData, Answer, Status
    <3>2. /\ request.res \in seen
          /\ lastingLeaf \intersect Below(request.path) = {}
      BY <1>2, <2>3 DEF ManagedNoData, Inv, StatusInv
    <3> QED
      BY <1>1, <3>1, <3>2 DEF AnswersInv, BestMatch, StatusWasTrue,
                              InnerDataCutOut, OwnDataKept, AllPathsRead
  <2> QED
    BY <2>1, <2>2, <2>3
<1> QED
  BY <1>3, <1>4, <1>5, <1>6, <1>7, <1>8 DEF Inv

LEMMA ParseVisitKeepsInv ==
  ASSUME Inv, NEW r \in Resource, ParseVisit(r)
  PROVE  Inv'
<1>1. /\ step = "parse" /\ r \in entries /\ visited' = visited \union {r}
      /\ UNCHANGED <<service, ready, entries, copy, request, step, match, todo,
                     value, answer, seen, lasting, seenLeaf, lastingLeaf,
                     changes>>
      /\ pathElems' = IF ReachesInto(XPath[r], request.path)
                        THEN pathElems
                               \union {ElemBelow(XPath[r], request.path)}
                        ELSE pathElems
  BY DEF ParseVisit, ReachesInto, cacheVars, auxVars
<1>2. StateTypeOK' /\ SeenInv' /\ FreshInv'
  BY <1>1 DEF Inv, StateTypeOK, SeenInv, Active, FreshInv
<1>3. ParseInv'
  <2>1. r \in seen
    BY <1>1 DEF Inv, SeenInv, Active
  <2> QED
    BY <1>1, <2>1 DEF Inv, ParseInv
<1>4. AnswersInv'
  BY <1>1, NothingAnswered DEF Inv, FreshInv
<1>5. MatchInv' /\ StatusInv' /\ ReadInv'
  BY <1>1 DEF Inv, MatchInv, StatusInv, ReadInv
<1> QED
  BY <1>2, <1>3, <1>4, <1>5 DEF Inv

\* A resource inside another one, neither being the whole tree.
LEMMA InsideIsBelow ==
  ASSUME NEW r \in Resource, NEW s \in Inside(r), XPath[r] # Root
  PROVE  /\ XPath[r] \in Seq(Piece) /\ XPath[s] \in Seq(Piece)
         /\ XPath[s] # Root
         /\ IsPrefix(Append(XPath[r], "/"), XPath[s])
         /\ ReachesInto(XPath[s], XPath[r])
<1>1. /\ XPath[r] \in Seq(Piece) /\ XPath[s] \in Seq(Piece)
      /\ IsText(XPath[r]) /\ IsText(XPath[s])
      /\ Within(XPath[s], XPath[r]) /\ XPath[s] # XPath[r]
  BY XPathAssumption DEF Inside, IsText
<1>2. IsPrefix(Append(XPath[r], "/"), XPath[s])
  BY <1>1 DEF Within
<1>3. Len(XPath[s]) > Len(XPath[r])
  BY <1>1, <1>2, BelowPointwise
<1>4. XPath[s] # Root
  <2>1. Len(XPath[r]) > 0 /\ Len(Root) = 1
    BY <1>1 DEF IsText, Root
  <2>2. Len(XPath[s]) # Len(Root)
    BY <1>1, <1>3, <2>1
  <2> QED
    BY <2>2
<1> QED
  BY <1>1, <1>2, <1>3, <1>4, WithinInText DEF ReachesInto

LEMMA ParseDoneAnswers ==
  ASSUME Inv, ParseDone
  PROVE  AnswersInv'
<1> DEFINE p == request.path
           r == request.res
<1>1. /\ step = "parse" /\ lasting \subseteq visited /\ p # Root
      /\ UNCHANGED <<request, seen, lasting, seenLeaf, lastingLeaf>>
      /\ answer' = Status(TRUE, TRUE, TRUE,
                     {l \in value : ElemBelow(l, p) \notin pathElems})
  BY DEF ParseDone, Answer, auxVars
<1>2. /\ answer'.kind = "status" /\ answer'.cacheReady /\ answer'.exists
      /\ answer'.hasData
      /\ answer'.data = {l \in value : ElemBelow(l, p) \notin pathElems}
  BY <1>1 DEF Status
<1>3. /\ r \in Resource /\ p = XPath[r] /\ r \in seen
      /\ value \subseteq seenLeaf \intersect Below(p)
      /\ lastingLeaf \intersect Below(p) \subseteq value
      /\ value \subseteq Leaf /\ seen \subseteq Resource
      /\ lasting \subseteq Resource
  BY <1>1 DEF Inv, StatusInv, StateTypeOK
<1>4. IsText(p) /\ p \in Seq(Piece)
  BY <1>3, XPathAssumption DEF IsText
<1> HIDE DEF p, r
<1>5. StatusWasTrue'
  BY <1>1, <1>2, <1>3 DEF StatusWasTrue, p, r
<1>6. ASSUME NEW s \in Inside(r) \intersect lasting,
             NEW l \in answer'.data \intersect Below(XPath[s])
      PROVE  FALSE
  <2>1. /\ XPath[s] \in Seq(Piece) /\ XPath[s] # Root
        /\ IsPrefix(Append(p, "/"), XPath[s]) /\ ReachesInto(XPath[s], p)
    BY <1>1, <1>3, InsideIsBelow
  <2>2. ElemBelow(XPath[s], p) \in pathElems
    BY <1>1, <2>1 DEF Inv, ParseInv, p
  <2>3. l \in Leaf /\ l \in value /\ Within(l, XPath[s])
    BY <1>2, <1>3 DEF Below
  <2>4. l \in Seq(Piece) /\ l # XPath[s]
    BY <1>3, <2>3, LeafAssumption DEF IsText
  <2>5. ElemBelow(l, p) = ElemBelow(XPath[s], p)
    BY <1>4, <2>1, <2>3, <2>4, SameElement DEF Within
  <2> QED
    BY <1>2, <2>2, <2>5
<1>7. InnerDataCutOut'
  BY <1>1, <1>6 DEF InnerDataCutOut, r
<1>8. ASSUME NEW l \in lastingLeaf \intersect Below(p), l \notin answer'.data
      PROVE  \E s \in Inside(r) \intersect seen :
               ElemBelow(XPath[s], p) = ElemBelow(l, p)
  <2>1. l \in value /\ ElemBelow(l, p) \in pathElems
    BY <1>2, <1>3, <1>8
  <2>2. PICK s \in seen : ElemBelow(l, p) = ElemBelow(XPath[s], p)
    BY <1>1, <2>1 DEF Inv, ParseInv, p
  <2>3. /\ s \in Resource /\ IsText(XPath[s])
        /\ l \in Leaf /\ IsText(l) /\ l # Root /\ l # p
    BY <1>3, <2>1, XPathAssumption, LeafAssumption
  <2>4. IsPrefix(Append(p, "/"), l)
    BY <1>1, <1>8, <2>3 DEF Below, Within
  <2>5. 1 \in DOMAIN ElemBelow(l, p)
    BY <1>4, <2>3, <2>4, SomeElement
  <2>6. IsPrefix(Append(p, "/"), XPath[s])
    BY <1>4, <2>2, <2>3, <2>5, NoElement
  <2>7. XPath[s] # p
    <3>1. XPath[s] \in Seq(Piece)
      BY <2>3 DEF IsText
    <3>2. Len(XPath[s]) > Len(p)
      BY <1>4, <2>6, <3>1, BelowPointwise
    <3> QED
      BY <3>1, <3>2
  <2>8. s \in Inside(r)
    BY <1>3, <2>3, <2>6, <2>7 DEF Inside, Within
  <2> QED
    BY <2>2, <2>8
<1>9. OwnDataKept'
  BY <1>1, <1>8 DEF OwnDataKept, p, r
<1> QED
  BY <1>2, <1>5, <1>7, <1>9 DEF AnswersInv, BestMatch, AllPathsRead

LEMMA ParseEndsKeepsInv ==
  ASSUME Inv, ParseDone \/ ParsePanic
  PROVE  Inv'
<1>1. /\ step = "parse" /\ step' = "reply"
      /\ UNCHANGED <<service, request, visited, match, pathElems, todo, value,
                     seen, lasting, seenLeaf, lastingLeaf, changes>>
      /\ \/ UNCHANGED <<ready, entries, copy>>
         \/ ready' = FALSE /\ entries' = {} /\ copy' = {}
  BY DEF ParseDone, ParsePanic, Answer, cacheVars, auxVars
<1>2. StateTypeOK'
  BY <1>1 DEF Inv, StateTypeOK
<1>3. AnswersInv'
  <2>1. CASE ParsePanic
    <3>1. answer' = NoAnswer
      BY <1>1, <2>1 DEF ParsePanic, Inv, FreshInv
    <3> QED
      BY <3>1, NothingAnswered
  <2> QED
    BY <2>1, ParseDoneAnswers
<1> QED
  BY <1>1, <1>2, <1>3 DEF Inv, SeenInv, Active, FreshInv, MatchInv, StatusInv,
                          ParseInv, ReadInv

-----------------------------------------------------------------------------
(* Plain reads.                                                            *)

LEMMA ReadPathKeepsInv ==
  ASSUME Inv, ReadPath
  PROVE  Inv'
<1>1. /\ step = "paths" /\ todo # <<>> /\ todo' = Tail(todo)
      /\ value' = value \union (copy \intersect Below(Head(todo)))
      /\ UNCHANGED <<service, ready, entries, copy, request, step, visited,
                     match, pathElems, answer, seen, lasting, seenLeaf,
                     lastingLeaf, changes>>
  BY DEF ReadPath, cacheVars, auxVars
<1>2. StateTypeOK' /\ SeenInv' /\ FreshInv'
  BY <1>1 DEF Inv, StateTypeOK, SeenInv, Active, FreshInv
<1>3. ReadInv'
  <2>1. todo \in Seq(Asked \union {Root})
    BY <1>1 DEF Inv, ReadInv
  <2>2. todo' \in Seq(Asked \union {Root})
    BY <1>1, <2>1
  <2>3. \A p \in Range(todo) : p = Head(todo) \/ p \in Range(todo')
    <3>1. ASSUME NEW i \in 1..Len(todo), i # 1
          PROVE  todo[i] \in Range(todo')
      <4> DEFINE t == Tail(todo)
      <4>1. /\ Len(t) = Len(todo) - 1
            /\ \A j \in 1..Len(t) : t[j] = todo[j + 1]
        BY <1>1, <2>1, HeadTailProperties
      <4>2. t \in Seq(Asked \union {Root}) /\ todo' = t
        BY <1>1, <2>2
      <4> HIDE DEF t
      <4>3. i - 1 \in 1..Len(t) /\ t[i - 1] = todo[i]
        BY <2>1, <3>1, <4>1
      <4> QED
        BY <4>2, <4>3 DEF Range
    <3>2. Head(todo) = todo[1]
      BY <1>1, <2>1
    <3> QED
      BY <2>1, <3>1, <3>2 DEF Range
  <2>4. copy \subseteq seenLeaf /\ lastingLeaf \subseteq copy
    BY <1>1 DEF Inv, SeenInv, Active
  <2>5. ASSUME NEW p \in Range(request.paths) \ Range(todo')
        PROVE  lastingLeaf \intersect Below(p) \subseteq value'
    <3>1. CASE p = Head(todo)
      BY <1>1, <2>4, <3>1
    <3>2. CASE p \notin Range(todo)
      BY <1>1, <3>2 DEF Inv, ReadInv
    <3> QED
      BY <2>3, <3>1, <3>2
  <2> QED
    BY <1>1, <2>2, <2>4, <2>5 DEF Inv, ReadInv
<1>4. AnswersInv'
  BY <1>1, NothingAnswered DEF Inv, FreshInv
<1>5. MatchInv' /\ StatusInv' /\ ParseInv'
  BY <1>1 DEF MatchInv, StatusInv, ParseInv
<1> QED
  BY <1>2, <1>3, <1>4, <1>5 DEF Inv

LEMMA ReadDoneKeepsInv ==
  ASSUME Inv, ReadDone
  PROVE  Inv'
<1>1. /\ step = "paths" /\ todo = <<>> /\ step' = "reply"
      /\ answer' = Data(value)
      /\ UNCHANGED <<service, ready, entries, copy, request, visited, match,
                     pathElems, todo, value, seen, lasting, seenLeaf,
                     lastingLeaf, changes>>
  BY DEF ReadDone, Answer, cacheVars, auxVars
<1>2. AllPathsRead'
  <2>1. Range(todo) = {}
    <3>1. Len(todo) = 0 /\ todo \in Seq({})
      BY <1>1, EmptySeq
    <3> QED
      BY <3>1 DEF Range
  <2> QED
    BY <1>1, <2>1 DEF Data, AllPathsRead, Inv, ReadInv
<1>3. AnswersInv'
  BY <1>1, <1>2 DEF Data, AnswersInv, BestMatch, StatusWasTrue,
                    InnerDataCutOut, OwnDataKept
<1> QED
  BY <1>1, <1>3 DEF Inv, StateTypeOK, SeenInv, Active, FreshInv, MatchInv,
                    StatusInv, ParseInv, ReadInv

-----------------------------------------------------------------------------
(* The theorems.                                                           *)

LEMMA NextKeepsInv == Inv /\ [Next]_vars => Inv'
<1> SUFFICES ASSUME Inv, [Next]_vars PROVE Inv'
  OBVIOUS
<1>1. CASE UNCHANGED vars
  BY <1>1 DEF vars, cacheVars, handlerVars, auxVars, Inv, StateTypeOK, SeenInv,
              Active, FreshInv, MatchInv, StatusInv, ParseInv, ReadInv,
              AnswersInv, BestMatch, StatusWasTrue, InnerDataCutOut,
              OwnDataKept, AllPathsRead
<1>2. CASE Next
  BY <1>2, EnvironmentKeepsInv, StartMatchKeepsInv, MatchVisitKeepsInv,
     MatchDoneKeepsInv, ObserveKeepsInv, LookupKeepsInv, ParseVisitKeepsInv,
     ParseEndsKeepsInv, StartReadKeepsInv, ReadPathKeepsInv,
     ReadDoneKeepsInv, ReplyKeepsInv
     DEF Next
<1> QED
  BY <1>1, <1>2

\* What is asked and answered has its type, as the answers are made of what
\* the invariant says of the handlers.
LEMMA RequestsTyped ==
  Inv /\ RequestTypeOK /\ [Next]_vars => RequestTypeOK'
<1> SUFFICES ASSUME Inv, RequestTypeOK, [Next]_vars PROVE RequestTypeOK'
  OBVIOUS
<1>1. ASSUME UNCHANGED <<request, pathElems, todo, answer>>
      PROVE  RequestTypeOK'
  BY <1>1 DEF RequestTypeOK
<1>2. CASE UNCHANGED vars
  BY <1>1, <1>2 DEF vars, handlerVars
<1>3. CASE Environment
  <2>1. Change
    BY <1>3 DEF Environment, CacheReady, EntryStored, EntryRemoved, LeafStored,
                LeafRemoved
  <2> QED
    BY <1>1, <2>1 DEF Change, handlerVars
<1>4. ASSUME NEW p \in Asked,
             GetGNMIK8sResourceName(p) \/ GetResourceName(p)
               \/ FindManagedResource(p)
      PROVE  RequestTypeOK'
  <2>1. /\ request' = [op |-> "match", path |-> p]
        /\ UNCHANGED <<pathElems, todo>>
        /\ answer' \in {answer, Name(NoResource)}
    BY <1>4 DEF GetGNMIK8sResourceName, GetResourceName, FindManagedResource,
                StartMatch, Request, Answer
  <2>2. request' \in Requests /\ Name(NoResource) \in Answers
    BY <2>1 DEF Requests, Answers, Name
  <2> QED
    BY <2>1, <2>2 DEF RequestTypeOK
<1>5. ASSUME NEW r \in Resource, MatchVisit(r)
      PROVE  RequestTypeOK'
  BY <1>1, <1>5 DEF MatchVisit
<1>6. CASE MatchDone
  <2>1. Name(match) \in Answers
    BY DEF Inv, StateTypeOK, Answers, Name
  <2> QED
    BY <1>6, <2>1 DEF MatchDone, Answer, RequestTypeOK
<1>7. ASSUME NEW r \in Resource, GetGNMIK8s(r) \/ Get(r)
      PROVE  RequestTypeOK'
  <2>1. /\ request' = [op |-> "observe", path |-> XPath[r], res |-> r]
        /\ UNCHANGED <<pathElems, todo>>
        /\ answer' \in {answer, Status(FALSE, FALSE, FALSE, {})}
    BY <1>7 DEF GetGNMIK8s, Get, Observe, Request, Answer
  <2>2. /\ request' \in Requests
        /\ Status(FALSE, FALSE, FALSE, {}) \in Answers
    BY <2>1 DEF Requests, Answers, Status
  <2> QED
    BY <2>1, <2>2 DEF RequestTypeOK
<1>8. CASE ReadCopy \/ Managed
  BY <1>1, <1>8 DEF ReadCopy, Managed
<1>9. CASE Unmanaged \/ ManagedNoData
  <2>1. /\ UNCHANGED <<request, pathElems, todo>>
        /\ answer' \in {Status(TRUE, FALSE, value # {}, value),
                        Status(TRUE, TRUE, FALSE, {})}
    BY <1>9 DEF Unmanaged, ManagedNoData, Answer
  <2>2. /\ Status(TRUE, FALSE, value # {}, value) \in Answers
        /\ Status(TRUE, TRUE, FALSE, {}) \in Answers
    BY DEF Inv, StateTypeOK, Answers, Status
  <2> QED
    BY <2>1, <2>2 DEF RequestTypeOK
<1>10. ASSUME NEW r \in Resource, ParseVisit(r)
       PROVE  RequestTypeOK'
  <2>1. request.res \in Resource /\ request.path = XPath[request.res]
    BY <1>10 DEF ParseVisit, Inv, StatusInv
  <2>2. ElemBelow(XPath[r], request.path) \in Elements
    BY <2>1 DEF Elements
  <2> QED
    BY <1>10, <2>2 DEF ParseVisit, RequestTypeOK
<1>11. CASE ParseDone
  <2> DEFINE data ==
               {l \in value : ElemBelow(l, request.path) \notin pathElems}
  <2>1. data \in SUBSET Leaf
    BY DEF Inv, StateTypeOK
  <2>2. answer' = Status(TRUE, TRUE, TRUE, data)
    BY <1>11 DEF ParseDone, Answer
  <2> HIDE DEF data
  <2>3. answer' \in Answers
    BY <2>1, <2>2 DEF Answers, Status
  <2> QED
    BY <1>11, <2>3 DEF ParseDone, RequestTypeOK
<1>12. CASE ParsePanic
  BY <1>1, <1>12 DEF ParsePanic
<1>13. CASE (\E ps \in Paths : GetGNMI(ps)) \/ GetConfig
  <2>1. <<Root>> \in Paths
    BY DEF Paths
  <2>2. PICK ps \in Paths \union {<<>>} :
          /\ request' = [op |-> "read", paths |-> ps]
          /\ pathElems' = pathElems
          /\ todo' \in {ps, todo}
          /\ answer' \in {answer, Data({})}
    BY <1>13, <2>1 DEF GetGNMI, GetConfig, StartRead, Request, Answer
  <2>3. ps \in Seq(Asked \union {Root})
    <3>1. CASE ps = <<>>
      BY <3>1, EmptySeq
    <3>2. CASE ps = <<Root>>
      BY <3>2
    <3>3. ASSUME NEW p \in Asked, NEW q \in Asked, ps = <<p, q>>
          PROVE  ps \in Seq(Asked \union {Root})
      BY <3>3
    <3> QED
      BY <3>1, <3>2, <3>3 DEF Paths
  <2>4. request' \in Requests /\ Data({}) \in Answers
    BY <2>2 DEF Requests, Answers, Data
  <2> QED
    BY <2>2, <2>3, <2>4 DEF RequestTypeOK
<1>14. CASE ReadPath
  <2>1. Tail(todo) \in Seq(Asked \union {Root})
    BY <1>14 DEF ReadPath, RequestTypeOK
  <2> QED
    BY <1>14, <2>1 DEF ReadPath, RequestTypeOK
<1>15. CASE ReadDone
  <2>1. Data(value) \in Answers
    BY DEF Inv, StateTypeOK, Answers, Data
  <2> QED
    BY <1>15, <2>1 DEF ReadDone, Answer, RequestTypeOK
<1>16. CASE Reply
  <2>1. <<>> \in Seq(Asked \union {Root})
    BY EmptySeq
  <2> QED
    BY <1>16, <2>1 DEF Reply, RequestTypeOK, Requests, Answers
<1> QED
  BY <1>2, <1>3, <1>4, <1>5, <1>6, <1>7, <1>8, <1>9, <1>10, <1>11, <1>12,
     <1>13, <1>14, <1>15, <1>16 DEF Next

\* Every variable of the readers keeps its type, what is asked, still to do
\* and answered among them, and entries exist only in a ready cache, for any
\* resources, paths and leaves.
THEOREM GetTypeCorrect == Spec => []TypeOK
<1>1. Init => RequestTypeOK
  <2>1. <<>> \in Seq(Asked \union {Root})
    BY EmptySeq
  <2> QED
    BY <2>1 DEF Init, RequestTypeOK, Requests, Answers
<1>2. Inv /\ RequestTypeOK => TypeOK
  BY DEF Inv, TypeOK
<1> QED
  BY <1>1, <1>2, InitInv, NextKeepsInv, RequestsTyped, PTL DEF Spec

\* The search never says that a path belongs to a resource that was not there,
\* nor misses one above it that was there all the time for a shorter one, in
\* whatever order it visits the map and whatever changes meanwhile, for any
\* paths (gnmiServerGet.go:106-119).
THEOREM AlwaysBestMatch == Spec => []BestMatch
<1>1. Inv => BestMatch
  BY DEF Inv, AnswersInv
<1> QED
  BY <1>1, InitInv, NextKeepsInv, PTL DEF Spec

\* Of what a provider is told, all was true at some time of its request
\* (gnmiServerGet.go:185-305, serverconfig.go:273-389).
THEOREM StatusAlwaysWasTrue == Spec => []StatusWasTrue
<1>1. Inv => StatusWasTrue
  BY DEF Inv, AnswersInv
<1> QED
  BY <1>1, InitInv, NextKeepsInv, PTL DEF Spec

\* The data of a resource never holds data of another one inside it that was
\* there all the time (serverconfig.go:777-810).
THEOREM InnerDataAlwaysCutOut == Spec => []InnerDataCutOut
<1>1. Inv => InnerDataCutOut
  BY DEF Inv, AnswersInv
<1> QED
  BY <1>1, InitInv, NextKeepsInv, PTL DEF Spec

\* The data of a resource lacks nothing of its own but what lies below the
\* elements that lead to others inside it (serverconfig.go:777-810).
THEOREM OwnDataAlwaysKept == Spec => []OwnDataKept
<1>1. Inv => OwnDataKept
  BY DEF Inv, AnswersInv
<1> QED
  BY <1>1, InitInv, NextKeepsInv, PTL DEF Spec

\* A read of several paths reads them all (gnmiServerGet.go:333-358).
THEOREM AllPathsAlwaysRead == Spec => []AllPathsRead
<1>1. Inv => AllPathsRead
  BY DEF Inv, AnswersInv
<1> QED
  BY <1>1, InitInv, NextKeepsInv, PTL DEF Spec

=============================================================================

-------------------------- MODULE MpackTreeProofs --------------------------
(* Proofs about MpackTree: no block is lost and none is freed that is not  *)
(* there, and no more nodes are allocated than there are bytes, for every  *)
(* message, every size and whichever call fails.                           *)
EXTENDS MpackTree, FiniteSetTheorems, WellFoundedInduction, TLAPS

Fields == {"error", "state", "data", "got", "size", "buffer", "capacity", "possible",
           "reserved", "next", "left", "stack", "room", "owned", "pages", "root",
           "nodes", "heap", "stale"}

Pages(t) == {Page(t.pages[i]) : i \in DOMAIN t.pages}

(* The blocks that a tree can still free are those that are allocated *)
Owns(t) == /\ DOMAIN t = Fields
           /\ \E S : t.pages \in Seq(S)
           /\ t.heap = Pages(t) \cup (IF t.owned THEN {Stack} ELSE {})
                                \cup (IF t.buffer THEN {Buffer} ELSE {})

(* The inductive invariant: the stack of a parse that has not begun is the *)
(* one in the parser, which is not freed                                   *)
IInv == /\ StorageIsOwn
        /\ call # "destroyed" =>
              /\ Owns(tree)
              /\ tree.state \in {"not_started", "in_progress", "parsed"}
              /\ tree.state = "not_started" => ~tree.owned
              /\ call \in {"try", "parse"} => tree.state = "in_progress"

-----------------------------------------------------------------------------
(* Trees that differ in what does not concern storage *)

SameStorage(s, t) ==
    /\ DOMAIN s = DOMAIN t
    /\ s.heap = t.heap /\ s.pages = t.pages /\ s.owned = t.owned /\ s.buffer = t.buffer

LEMMA SameOwns == ASSUME NEW s, NEW t, Owns(t), SameStorage(s, t)  PROVE Owns(s)
BY DEF Owns, SameStorage, Pages

(* What an outcome of a step keeps: ownership, and the state of the parser *)
Keeps(o, t) == Owns(o.t) /\ o.t.state = t.state

LEMMA FlagErrorSame ==
    ASSUME NEW t, NEW e, DOMAIN t = Fields
    PROVE  SameStorage(FlagError(t, e), t) /\ FlagError(t, e).state = t.state
BY DEF FlagError, SameStorage, Fields

LEMMA FailedKeeps ==
    ASSUME NEW t, NEW e, Owns(t)
    PROVE  \A o \in Failed(t, e) : Keeps(o, t) /\ o.t.owned = t.owned /\ ~o.ok
<1>1. DOMAIN t = Fields  BY DEF Owns
<1>2. \A o \in Failed(t, e) : o.t = FlagError(t, e) /\ ~o.ok  BY DEF Failed, Stopped
<1>. QED  BY <1>1, <1>2, FlagErrorSame, SameOwns DEF Keeps, SameStorage

-----------------------------------------------------------------------------
(* Filling the buffer *)

LEMMA GrownKeeps ==
    ASSUME NEW t, NEW need, Owns(t)
    PROVE  \A o \in Grown(t, need) : /\ Keeps(o, t) /\ o.t.owned = t.owned
                                     /\ DOMAIN o = {"t", "ok", "moved"}
<1>. DEFINE grown == [t EXCEPT !.capacity = NewCapacity(t.capacity, need),
                               !.buffer = TRUE, !.heap = @ \cup {Buffer}]
<1>1. /\ DOMAIN grown = Fields /\ grown.pages = t.pages /\ grown.owned = t.owned
      /\ grown.buffer = TRUE /\ grown.heap = t.heap \cup {Buffer} /\ grown.state = t.state
  BY DEF Owns, Fields
<1>2. \A o \in Grown(t, need) : o.t = t \/ o.t = grown \/ o \in Failed(t, "memory")
  BY DEF Grown, Went
<1>. HIDE DEF grown
<1>3. Owns(grown)  BY <1>1 DEF Owns, Pages
<1>4. \A o \in Grown(t, need) : DOMAIN o = {"t", "ok", "moved"}
  BY DEF Grown, Went, Failed, Stopped
<1>. QED  BY <1>1, <1>2, <1>3, <1>4, FailedKeeps DEF Keeps

LEMMA DeliveredSame ==
    ASSUME NEW t, NEW n, DOMAIN t = Fields
    PROVE  SameStorage(Delivered(t, n), t) /\ Delivered(t, n).state = t.state
BY DEF Delivered, SameStorage, Fields

LEMMA ReadKeeps ==
    ASSUME NEW o, Owns(o.t), DOMAIN o = {"t", "ok", "moved"}
    PROVE  \A r \in Read(o) : Keeps(r, o.t) /\ r.t.owned = o.t.owned
<1>1. ASSUME NEW n  PROVE /\ Owns(Delivered(o.t, n)) /\ Delivered(o.t, n).state = o.t.state
                          /\ Delivered(o.t, n).owned = o.t.owned
  <2>1. DOMAIN o.t = Fields  BY DEF Owns
  <2>. QED  BY <2>1, DeliveredSame, SameOwns DEF SameStorage
<1>2. ASSUME NEW r \in Read(o)
      PROVE  \E n : \/ r.t = Delivered(o.t, n)
                    \/ r \in Failed(Delivered(o.t, n), "io")
  BY DEF Read, Stopped
<1>. QED  BY <1>1, <1>2, FailedKeeps DEF Keeps

LEMMA FillKeeps ==
    ASSUME NEW t, Owns(t)
    PROVE  \A o \in Fill(t) : Keeps(o, t) /\ o.t.owned = t.owned
<1>. DEFINE need == Wrapped(Len(t.data) + t.reserved)
<1>1. ASSUME NEW g \in Grown(t, need), NEW o \in After(g, Read(g))
      PROVE  Keeps(o, t) /\ o.t.owned = t.owned
  BY <1>1, GrownKeeps, ReadKeeps DEF After, Keeps
<1>2. \A o \in Fill(t) : \/ \E e : o \in Failed(t, e)
                         \/ \E g \in Grown(t, need) : o \in After(g, Read(g))
  BY DEF Fill
<1>. QED  BY <1>1, <1>2, FailedKeeps

(* Whatever comes of a reservation, the blocks stay accounted for *)
LEMMA ReserveKeeps ==
    ASSUME NEW t, NEW bytes, Owns(t)
    PROVE  \A o \in Reserve(t, bytes) : Keeps(o, t) /\ o.t.owned = t.owned
<1>. DEFINE more == [t EXCEPT !.reserved = @ + bytes]
<1>1. SameStorage(more, t) /\ more.state = t.state  BY DEF SameStorage, Owns, Fields
<1>2. \A o \in Reserve(t, bytes) : \/ \E e : o \in Failed(t, e)
                                   \/ o.t = more
                                   \/ o \in Fill(more)
  BY DEF Reserve, Went
<1>. HIDE DEF more
<1>3. Owns(more)  BY <1>1, SameOwns
<1>. QED  BY <1>1, <1>2, <1>3, FillKeeps, FailedKeeps DEF Keeps, SameStorage

-----------------------------------------------------------------------------
(* Nodes *)

LEMMA PutSame ==
    ASSUME NEW t, NEW a, NEW node, Owns(t)
    PROVE  Owns(Put(t, a, node)) /\ Put(t, a, node).state = t.state
<1>1. SameStorage(Put(t, a, node), t) /\ Put(t, a, node).state = t.state
  BY DEF Put, SameStorage, Owns, Fields
<1>. QED  BY <1>1, SameOwns

LEMMA PushStackKeeps ==
    ASSUME NEW t, NEW child, NEW total, Owns(t)
    PROVE  \A o \in PushStack(t, child, total) : Keeps(o, t)
<1>. DEFINE pushed == [t EXCEPT !.stack = Append(@, [child |-> child, left |-> total])]
            doubled == [pushed EXCEPT !.room = 2 * @, !.owned = TRUE, !.heap = @ \cup {Stack}]
<1>1. SameStorage(pushed, t) /\ pushed.state = t.state  BY DEF SameStorage, Owns, Fields
<1>2. /\ DOMAIN doubled = Fields /\ doubled.pages = t.pages /\ doubled.owned = TRUE
      /\ doubled.buffer = t.buffer /\ doubled.heap = t.heap \cup {Stack}
      /\ doubled.state = t.state
  BY DEF Owns, Fields
<1>3. \A o \in PushStack(t, child, total) :
         o.t = t \/ o.t = pushed \/ o.t = doubled \/ o \in Failed(t, "memory")
  BY DEF PushStack, Went
<1>. HIDE DEF doubled, pushed
<1>4. Owns(doubled)  BY <1>2 DEF Owns, Pages
<1>. QED  BY <1>1, <1>2, <1>3, <1>4, FailedKeeps, SameOwns DEF Keeps

(* The page that is put in front of the list is the one that was allocated *)
LEMMA WithPageKeeps ==
    ASSUME NEW t, NEW count, Owns(t)
    PROVE  /\ Owns(WithPage(t, count)) /\ WithPage(t, count).state = t.state
           /\ WithPage(t, count).owned = t.owned
<1>. DEFINE p == Free(t)
            w == WithPage(t, count)
            pages == <<p>> \o t.pages
<1>1. /\ DOMAIN w = Fields /\ w.pages = pages /\ w.owned = t.owned
      /\ w.buffer = t.buffer /\ w.heap = t.heap \cup {Page(p)} /\ w.state = t.state
  BY DEF Owns, Fields, WithPage
<1>2. PICK S : t.pages \in Seq(S)  BY DEF Owns
<1>. HIDE DEF p, w
<1>3. /\ pages \in Seq(S \cup {p}) /\ Len(pages) = Len(t.pages) + 1 /\ pages[1] = p
      /\ \A i \in 1 .. Len(t.pages) : pages[i + 1] = t.pages[i]
      /\ DOMAIN pages = 1 .. Len(pages) /\ DOMAIN t.pages = 1 .. Len(t.pages)
  BY <1>2
<1>4. {Page(pages[i]) : i \in DOMAIN pages} = Pages(t) \cup {Page(p)}
  <2>1. ASSUME NEW i \in DOMAIN pages  PROVE Page(pages[i]) \in Pages(t) \cup {Page(p)}
    <3>1. \A l \in Nat : \A j \in 1 .. (l + 1) : j = 1 \/ j - 1 \in 1 .. l  OBVIOUS
    <3>2. i = 1 \/ i - 1 \in 1 .. Len(t.pages)  BY <1>2, <1>3, <3>1
    <3>3. i \in Int  BY <1>3
    <3>4. i - 1 \in 1 .. Len(t.pages) => pages[i] = t.pages[i - 1]
      BY <1>3, <3>3
    <3>. HIDE DEF pages
    <3>. QED  BY <1>3, <3>2, <3>4 DEF Pages
  <2>2. ASSUME NEW i \in DOMAIN t.pages
        PROVE  Page(t.pages[i]) \in {Page(pages[j]) : j \in DOMAIN pages}
    <3>1. \A l \in Nat : \A j \in 1 .. l : j + 1 \in 1 .. (l + 1)  OBVIOUS
    <3>2. i + 1 \in DOMAIN pages /\ pages[i + 1] = t.pages[i]  BY <1>2, <1>3, <3>1
    <3>. HIDE DEF pages
    <3>. QED  BY <3>2
  <2>3. Page(p) \in {Page(pages[j]) : j \in DOMAIN pages}
    <3>1. 1 \in DOMAIN pages  BY <1>2, <1>3
    <3>. HIDE DEF pages
    <3>. QED  BY <1>3, <3>1
  <2>. HIDE DEF pages
  <2>. QED  BY <2>1, <2>2, <2>3 DEF Pages
<1>. HIDE DEF pages
<1>5. Pages(w) = Pages(t) \cup {Page(p)}  BY <1>1, <1>4 DEF Pages
<1>6. Owns(w)  BY <1>1, <1>3, <1>5 DEF Owns
<1>. QED  BY <1>1, <1>6 DEF w

LEMMA PlacedKeeps ==
    ASSUME NEW t, NEW a, NEW node, NEW child, NEW total, Owns(t)
    PROVE  \A o \in Placed(t, a, node, child, total) : Keeps(o, t)
<1>. DEFINE n == [node EXCEPT !.child = child]
<1>1. Owns(Put(t, a, n)) /\ Put(t, a, n).state = t.state  BY PutSame
<1>2. \A o \in PushStack(Put(t, a, n), child, total) : Keeps(o, Put(t, a, n))
  BY <1>1, PushStackKeeps
<1>. QED  BY <1>1, <1>2 DEF Placed, Keeps

LEMMA PlaceKeeps ==
    ASSUME NEW t, NEW a, NEW node, NEW total, Owns(t)
    PROVE  \A o \in Place(t, a, node, total) : Keeps(o, t)
<1>1. Owns(Taken(t, total)) /\ Taken(t, total).state = t.state
  <2>1. SameStorage(Taken(t, total), t) /\ Taken(t, total).state = t.state
    BY DEF Taken, SameStorage, Owns, Fields
  <2>. QED  BY <2>1, SameOwns
<1>2. Owns(WithPage(t, total)) /\ WithPage(t, total).state = t.state
  BY WithPageKeeps
<1>3. Owns(NewPage(t, total)) /\ NewPage(t, total).state = t.state
  <2>. DEFINE w == WithPage(t, PageNodes)
  <2>1. Owns(w) /\ w.state = t.state  BY WithPageKeeps
  <2>2. NewPage(t, total) = [w EXCEPT !.next = <<Free(t), total>>,
                                      !.left = PageNodes - total]
    BY DEF NewPage
  <2>. HIDE DEF w
  <2>3. SameStorage(NewPage(t, total), w) /\ NewPage(t, total).state = w.state
    BY <2>1, <2>2 DEF SameStorage, Owns, Fields
  <2>. QED  BY <2>1, <2>3, SameOwns
<1>4. ASSUME NEW o \in Place(t, a, node, total)
      PROVE  \/ \E e : o \in Failed(t, e)
             \/ o \in Placed(Taken(t, total), a, node, t.next, total)
             \/ o \in Placed(WithPage(t, total), a, node, <<Free(t), 0>>, total)
             \/ o \in Placed(NewPage(t, total), a, node, <<Free(t), 0>>, total)
  BY <1>4 DEF Place
<1>5. ASSUME NEW s, Owns(s), s.state = t.state, NEW child,
             NEW o \in Placed(s, a, node, child, total)
      PROVE  Keeps(o, t)
  BY <1>5, PlacedKeeps DEF Keeps
<1>. QED  BY <1>1, <1>2, <1>3, <1>4, <1>5, FailedKeeps

LEMMA ChildrenKeeps ==
    ASSUME NEW t, NEW a, NEW node, NEW total, Owns(t)
    PROVE  \A o \in Children(t, a, node, total) : Keeps(o, t)
<1>1. ASSUME NEW r \in Reserve(t, total), NEW o \in After(r, Place(r.t, a, node, total))
      PROVE  Keeps(o, t)
  BY <1>1, ReserveKeeps, PlaceKeeps DEF After, Keeps
<1>2. \A o \in Children(t, a, node, total) :
         \/ o \in Failed(t, "too_big")
         \/ \E r \in Reserve(t, total) : o \in After(r, Place(r.t, a, node, total))
  BY DEF Children
<1>. QED  BY <1>1, <1>2, FailedKeeps

LEMMA BytesKeeps ==
    ASSUME NEW t, NEW a, NEW node, Owns(t)
    PROVE  \A o \in Bytes(t, a, node) : Keeps(o, t)
<1>. DEFINE s == Put(t, a, [node EXCEPT !.n = t.size + t.reserved + 1])
<1>1. Owns(s) /\ s.state = t.state  BY PutSame
<1>2. \A o \in Reserve(s, node.len) : Keeps(o, s)
  <2>. HIDE DEF s
  <2>. QED  BY <1>1, ReserveKeeps
<1>. QED  BY <1>1, <1>2 DEF Bytes, Keeps

LEMMA ContentsKeeps ==
    ASSUME NEW t, NEW a, NEW type, NEW n, Owns(t)
    PROVE  \A o \in Contents(t, a, type, n) : Keeps(o, t)
<1>. DEFINE s == [t EXCEPT !.reserved = @ + 1]
<1>1. SameStorage(s, t) /\ s.state = t.state  BY DEF SameStorage, Owns, Fields
<1>2. Owns(s)  BY <1>1, SameOwns
<1>3. \A node : \A o \in ExtBytes(t, a, node) : Keeps(o, t)
  <2>1. \A node : ExtBytes(t, a, node) = Bytes(s, a, node)  BY DEF ExtBytes
  <2>. HIDE DEF s
  <2>. QED  BY <1>1, <1>2, <2>1, BytesKeeps DEF Keeps
<1>4. \A node : \A o \in {Went(Put(t, a, node))} : Keeps(o, t)
  <2>1. \A node : Went(Put(t, a, node)).t = Put(t, a, node)  BY DEF Went
  <2>. QED  BY <2>1, PutSame DEF Keeps
<1>5. \A o \in Contents(t, a, type, n) :
         \E node : \/ \E total : o \in Children(t, a, node, total)
                   \/ o \in Bytes(t, a, node)
                   \/ o \in ExtBytes(t, a, node)
                   \/ o \in {Went(Put(t, a, node))}
  <2>1. CASE type = "array"
    BY <2>1 DEF Contents
  <2>2. CASE type = "map"
    BY <2>2 DEF Contents
  <2>3. CASE type \in {"str", "bin"}
    BY <2>3 DEF Contents
  <2>4. CASE type = "ext"
    BY <2>4 DEF Contents
  <2>5. CASE type \notin {"array", "map", "str", "bin", "ext"}
    BY <2>5 DEF Contents
  <2>. QED  BY <2>1, <2>2, <2>3, <2>4, <2>5
<1>. QED  BY <1>3, <1>4, <1>5, ChildrenKeeps, BytesKeeps

LEMMA ReadNumberKeeps ==
    ASSUME NEW o, NEW a, NEW first, Owns(o.t)
    PROVE  \A r \in ReadNumber(o, a, first) : Keeps(r, o.t)
<1>. DEFINE s == [o.t EXCEPT !.stale = @ \/ o.moved]
<1>1. SameStorage(s, o.t) /\ s.state = o.t.state  BY DEF SameStorage, Owns, Fields
<1>2. \A r \in ReadNumber(o, a, first) : \E n : r \in Contents(s, a, TypeOf(first), n)
  BY DEF ReadNumber
<1>. HIDE DEF s
<1>3. Owns(s)  BY <1>1, SameOwns
<1>. QED  BY <1>1, <1>2, <1>3, ContentsKeeps DEF Keeps

LEMMA ParseContentsKeeps ==
    ASSUME NEW t, NEW a, NEW first, Owns(t)
    PROVE  \A o \in ParseContents(t, a, first) : Keeps(o, t)
<1>1. Went(t).t = t  BY DEF Went
<1>2. \A o \in ReadNumber(Went(t), a, first) : Keeps(o, t)
  BY <1>1, ReadNumberKeeps
<1>3. ASSUME NEW r \in Reserve(t, Width[first.t]), NEW o \in After(r, ReadNumber(r, a, first))
      PROVE  Keeps(o, t)
  BY <1>3, ReserveKeeps, ReadNumberKeeps DEF After, Keeps
<1>4. \A o \in ParseContents(t, a, first) :
         \/ o \in Failed(t, "invalid")
         \/ o \in ReadNumber(Went(t), a, first)
         \/ \E r \in Reserve(t, Width[first.t]) : o \in After(r, ReadNumber(r, a, first))
  BY DEF ParseContents
<1>. QED  BY <1>2, <1>3, <1>4, FailedKeeps

(* One turn of the parser's loop *)
LEMMA ParseNextKeeps ==
    ASSUME NEW t, Owns(t)
    PROVE  \A o \in ParseNext(t) : Keeps(o, t)
<1>. DEFINE a == t.stack[Len(t.stack)].child
            s == [t EXCEPT !.reserved = 0]
            first == AsTag(t.data[t.size + 1])
<1>1. SameStorage(s, t) /\ s.state = t.state  BY DEF SameStorage, Owns, Fields
<1>2. ASSUME NEW o \in ParseNode(t, a)
      PROVE  \E c \in ParseContents(s, a, first) : o.t = c.t \/ o = Counted(c.t, a)
  BY DEF ParseNode
<1>. HIDE DEF s, a, first
<1>3. Owns(s)  BY <1>1, SameOwns
<1>4. ASSUME NEW c, Owns(c)
      PROVE  Owns(Counted(c, a).t) /\ Counted(c, a).t.state = c.state
  <2>1. SameStorage(Counted(c, a).t, c) /\ Counted(c, a).t.state = c.state
    BY <1>4 DEF Counted, Went, SameStorage, Owns, Fields
  <2>. QED  BY <1>4, <2>1, SameOwns
<1>5. ASSUME NEW o \in ParseNode(t, a)  PROVE Keeps(o, t)
  <2>1. PICK c \in ParseContents(s, a, first) : o.t = c.t \/ o = Counted(c.t, a)  BY <1>2
  <2>2. Owns(c.t) /\ c.t.state = s.state  BY <1>3, ParseContentsKeeps DEF Keeps
  <2>3. Owns(Counted(c.t, a).t) /\ Counted(c.t, a).t.state = c.t.state  BY <1>4, <2>2
  <2>. QED  BY <1>1, <2>1, <2>2, <2>3 DEF Keeps
<1>6. ASSUME NEW c, Owns(c), NEW level
      PROVE  Owns(ChildParsed(c, level).t) /\ ChildParsed(c, level).t.state = c.state
  <2>1. SameStorage(ChildParsed(c, level).t, c) /\ ChildParsed(c, level).t.state = c.state
    BY <1>6 DEF ChildParsed, Went, SameStorage, Owns, Fields
  <2>. QED  BY <1>6, <2>1, SameOwns
<1>7. \A o \in ParseNext(t) :
         \E c \in ParseNode(t, a) : o = c \/ o = ChildParsed(c.t, Len(t.stack))
  BY DEF ParseNext, a
<1>. QED  BY <1>5, <1>6, <1>7 DEF Keeps

-----------------------------------------------------------------------------
(* Beginning and ending a parse *)

(* All that a parse has allocated is freed, and nothing but the buffer kept *)
LEMMA CleanupKeeps ==
    ASSUME NEW t, Owns(t)
    PROVE  Owns(Cleanup(t)) /\ ~Cleanup(t).owned /\ Cleanup(t).state = t.state
           /\ Cleanup(t).heap = (IF t.buffer THEN {Buffer} ELSE {})
           /\ Cleanup(t).pages = << >> /\ Cleanup(t).buffer = t.buffer
<1>. DEFINE c == Cleanup(t)
<1>1. /\ DOMAIN c = Fields /\ c.owned = FALSE /\ c.pages = << >> /\ c.buffer = t.buffer
      /\ c.state = t.state
      /\ c.heap = t.heap \ (Pages(t) \cup (IF t.owned THEN {Stack} ELSE {}))
  BY DEF Cleanup, Owns, Fields, Pages
<1>. HIDE DEF c
<1>2. Buffer \notin Pages(t) /\ Buffer # Stack
  <2>1. \A p : Page(p)[1] = "page"  BY DEF Page
  <2>2. Buffer[1] = "buffer" /\ Stack[1] = "stack"  BY DEF Buffer, Stack
  <2>. QED  BY <2>1, <2>2 DEF Pages
<1>3. c.heap = (IF t.buffer THEN {Buffer} ELSE {})
  BY <1>1, <1>2 DEF Owns
<1>4. Pages(c) = {}
  <2>1. DOMAIN << >> = {}  OBVIOUS
  <2>. QED  BY <1>1, <2>1 DEF Pages
<1>5. c.pages \in Seq({})  BY <1>1
<1>6. Owns(c)  BY <1>1, <1>3, <1>4, <1>5 DEF Owns
<1>. QED  BY <1>1, <1>3, <1>6 DEF c

LEMMA RootedKeeps ==
    ASSUME NEW t, NEW at, NEW count, Owns(t), ~t.owned
    PROVE  Owns(Rooted(t, at, count).t) /\ Rooted(t, at, count).t.state = t.state
<1>. DEFINE r == Rooted(t, at, count).t
<1>1. /\ DOMAIN r = Fields /\ r.owned = FALSE /\ r.pages = t.pages /\ r.buffer = t.buffer
      /\ r.heap = t.heap /\ r.state = t.state
  BY DEF Rooted, Went, Owns, Fields
<1>. HIDE DEF r
<1>2. Owns(r)  BY <1>1 DEF Owns, Pages
<1>. QED  BY <1>1, <1>2 DEF r

LEMMA FirstPageKeeps ==
    ASSUME NEW t, Owns(t), ~t.owned
    PROVE  \A o \in FirstPage(t) : Keeps(o, t)
<1>. DEFINE s == [t EXCEPT !.error = "memory"]
            w == WithPage(t, PageNodes)
<1>1. SameStorage(s, t) /\ s.state = t.state  BY DEF SameStorage, Owns, Fields
<1>2. Owns(w) /\ w.state = t.state /\ ~w.owned  BY WithPageKeeps
<1>3. \A o \in FirstPage(t) :
         o.t = s \/ o = Rooted(t, <<0, 0>>, PoolCount) \/ o = Rooted(w, <<1, 0>>, PageNodes)
  BY DEF FirstPage, Stopped
<1>. HIDE DEF s, w
<1>4. Owns(s)  BY <1>1, SameOwns
<1>. QED  BY <1>1, <1>2, <1>3, <1>4, RootedKeeps DEF Keeps

(* A parse that cannot begin leaves nothing of the one before *)
LEMMA StartKeeps ==
    ASSUME NEW t, Owns(t), t.state \in {"not_started", "parsed"},
           t.state = "not_started" => ~t.owned
    PROVE  \A o \in Start(t) : /\ Owns(o.t)
                               /\ o.t.state \in {"not_started", "in_progress"}
                               /\ o.t.state = "not_started" => ~o.t.owned
                               /\ o.ok => o.t.state = "in_progress"
<1>. DEFINE c == IF t.state = "parsed" THEN Cleanup(t) ELSE t
            r == Ready(Consumed(c))
<1>1. Owns(c) /\ ~c.owned  BY CleanupKeeps
<1>. HIDE DEF c
<1>2. SameStorage(r, c) /\ r.state = "in_progress"
  BY <1>1 DEF Ready, Consumed, SameStorage, Owns, Fields
<1>3. \A o \in Start(t) : \E v \in Reserve(r, 1) :
         \/ o \in FirstPage([v.t EXCEPT !.possible = @ - 1])
         \/ o = Stopped([v.t EXCEPT !.state = "not_started"])
  BY DEF Start, c
<1>. HIDE DEF r
<1>4. Owns(r) /\ ~r.owned  BY <1>1, <1>2, SameOwns DEF SameStorage
<1>5. ASSUME NEW v \in Reserve(r, 1)
      PROVE  Owns(v.t) /\ ~v.t.owned /\ v.t.state = "in_progress"
  BY <1>2, <1>4, ReserveKeeps DEF Keeps
<1>6. ASSUME NEW s, Owns(s), ~s.owned, s.state = "in_progress",
             NEW o \in FirstPage([s EXCEPT !.possible = @ - 1])
      PROVE  Owns(o.t) /\ o.t.state = "in_progress"
  <2>. DEFINE q == [s EXCEPT !.possible = @ - 1]
  <2>1. SameStorage(q, s) /\ q.state = s.state
    BY <1>6 DEF SameStorage, Owns, Fields
  <2>. HIDE DEF q
  <2>2. Owns(q) /\ ~q.owned  BY <1>6, <2>1, SameOwns DEF SameStorage
  <2>3. o \in FirstPage(q)  BY <1>6 DEF q
  <2>. QED  BY <1>6, <2>1, <2>2, <2>3, FirstPageKeeps DEF Keeps
<1>7. ASSUME NEW s, Owns(s), ~s.owned
      PROVE  LET q == Stopped([s EXCEPT !.state = "not_started"]).t
             IN  Owns(q) /\ q.state = "not_started" /\ ~q.owned
  <2>. DEFINE q == [s EXCEPT !.state = "not_started"]
  <2>1. SameStorage(q, s) /\ q.state = "not_started"
    BY <1>7 DEF SameStorage, Owns, Fields
  <2>. HIDE DEF q
  <2>2. Owns(q) /\ ~q.owned  BY <1>7, <2>1, SameOwns DEF SameStorage
  <2>. QED  BY <2>1, <2>2 DEF Stopped, q
<1>8. \A s : ~Stopped(s).ok  BY DEF Stopped
<1>9. ASSUME NEW o \in Start(t)
      PROVE  /\ Owns(o.t) /\ o.t.state \in {"not_started", "in_progress"}
             /\ o.t.state = "not_started" => ~o.t.owned
             /\ o.ok => o.t.state = "in_progress"
  <2>1. PICK v \in Reserve(r, 1) :
           \/ o \in FirstPage([v.t EXCEPT !.possible = @ - 1])
           \/ o = Stopped([v.t EXCEPT !.state = "not_started"])
    BY <1>3
  <2>2. Owns(v.t) /\ ~v.t.owned /\ v.t.state = "in_progress"  BY <1>5
  <2>3. CASE o \in FirstPage([v.t EXCEPT !.possible = @ - 1])
    BY <1>6, <2>2, <2>3
  <2>4. CASE o = Stopped([v.t EXCEPT !.state = "not_started"])
    BY <1>7, <1>8, <2>2, <2>4
  <2>. QED  BY <2>1, <2>3, <2>4
<1>. QED  BY <1>9

-----------------------------------------------------------------------------
(* The program *)

LEMMA InitIInv == Init => IInv
<1>. SUFFICES ASSUME Init  PROVE IInv  OBVIOUS
<1>1. /\ DOMAIN tree = Fields /\ tree.pages = << >> /\ tree.owned = FALSE
      /\ tree.buffer = FALSE /\ tree.heap = {} /\ tree.state = "not_started"
      /\ call = "none"
  BY DEF Init, New, Fields
<1>2. DOMAIN << >> = {} /\ << >> \in Seq({})  OBVIOUS
<1>3. Pages(tree) = {}  BY <1>1, <1>2 DEF Pages
<1>. QED  BY <1>1, <1>2, <1>3 DEF IInv, StorageIsOwn, Owns, Pages

(* While the tree is not destroyed, it is enough that it owns its blocks *)
LEMMA OwnedKeepsIInv ==
    ASSUME call' # "destroyed", Owns(tree'),
           tree'.state \in {"not_started", "in_progress", "parsed"},
           tree'.state = "not_started" => ~tree'.owned,
           call' \in {"try", "parse"} => tree'.state = "in_progress"
    PROVE  IInv'
BY DEF IInv, StorageIsOwn, Owns, Pages

LEMMA EndedKeeps ==
    ASSUME NEW t, NEW kind, Owns(t)
    PROVE  Owns(Ended(t, kind)) /\ SameStorage(Ended(t, kind), t)
           /\ Ended(t, kind).state = t.state
<1>1. DOMAIN t = Fields  BY DEF Owns
<1>2. Ended(t, kind) = t \/ \E e : Ended(t, kind) = FlagError(t, e)
  BY DEF Ended, Given
<1>3. SameStorage(t, t)  BY DEF SameStorage
<1>. QED  BY <1>1, <1>2, <1>3, FlagErrorSame, SameOwns

LEMMA NextIInv == IInv /\ [Next]_vars => IInv'
<1>. SUFFICES ASSUME IInv, [Next]_vars  PROVE IInv'  OBVIOUS
<1>1. CASE UNCHANGED vars
  BY <1>1 DEF vars, IInv, StorageIsOwn, Owns, Pages
<1>2. ASSUME NEW kind \in {"try", "parse"}, Enter(kind)  PROVE IInv'
  <2>1. call = "none"  BY <1>2 DEF Enter, Usable
  <2>2. /\ Owns(tree) /\ tree.state \in {"not_started", "in_progress", "parsed"}
        /\ tree.state = "not_started" => ~tree.owned
    BY <2>1 DEF IInv
  <2>3. CASE tree.state = "in_progress"
    <3>1. call' = kind /\ tree' = tree  BY <1>2, <2>3 DEF Enter
    <3>. QED  BY <2>2, <2>3, <3>1, OwnedKeepsIInv
  <2>4. CASE tree.state # "in_progress"
    <3>1. PICK o \in Start(tree) : \/ call' = kind /\ tree' = o.t /\ o.ok
                                   \/ call' = "none" /\ tree' = Ended(o.t, kind)
      BY <1>2, <2>4 DEF Enter
    <3>2. /\ Owns(o.t) /\ o.t.state \in {"not_started", "in_progress"}
          /\ o.t.state = "not_started" => ~o.t.owned
          /\ o.ok => o.t.state = "in_progress"
      BY <2>2, <2>4, StartKeeps
    <3>3. /\ Owns(Ended(o.t, kind)) /\ Ended(o.t, kind).state = o.t.state
          /\ Ended(o.t, kind).owned = o.t.owned
      BY <3>2, EndedKeeps DEF SameStorage
    <3>. QED  BY <3>1, <3>2, <3>3, OwnedKeepsIInv
  <2>. QED  BY <2>3, <2>4
<1>3. CASE Continue
  <2>1. call \in {"try", "parse"}  BY <1>3 DEF Continue
  <2>2. Owns(tree) /\ tree.state = "in_progress"  BY <2>1 DEF IInv
  <2>3. PICK o \in ParseNext(tree) :
           \/ call' = "none" /\ tree' = Ended(o.t, call)
           \/ call' = "none" /\ tree' = [o.t EXCEPT !.state = "parsed"]
           \/ call' = call /\ tree' = o.t
    BY <1>3 DEF Continue
  <2>4. Owns(o.t) /\ o.t.state = tree.state  BY <2>2, ParseNextKeeps DEF Keeps
  <2>5. Owns(Ended(o.t, call)) /\ Ended(o.t, call).state = tree.state
    BY <2>4, EndedKeeps
  <2>. DEFINE p == [o.t EXCEPT !.state = "parsed"]
  <2>6. Owns(p) /\ p.state = "parsed"
    <3>1. SameStorage(p, o.t) /\ p.state = "parsed"
      BY <2>4 DEF SameStorage, Owns, Fields
    <3>. HIDE DEF p
    <3>. QED  BY <2>4, <3>1, SameOwns
  <2>7. \/ call' = "none" /\ tree' = Ended(o.t, call)
        \/ call' = "none" /\ tree' = p
        \/ call' = call /\ tree' = o.t
    BY <2>3
  <2>. HIDE DEF p
  <2>. QED  BY <2>1, <2>2, <2>4, <2>5, <2>6, <2>7, OwnedKeepsIInv
<1>4. CASE RootTooEarly
  <2>1. /\ call = "none" /\ call' = call /\ tree' = FlagError(tree, "bug")
    BY <1>4 DEF RootTooEarly, Usable
  <2>2. /\ Owns(tree) /\ tree.state \in {"not_started", "in_progress", "parsed"}
        /\ tree.state = "not_started" => ~tree.owned
    BY <2>1 DEF IInv
  <2>3. SameStorage(tree', tree) /\ tree'.state = tree.state
    BY <2>1, <2>2, FlagErrorSame DEF Owns
  <2>4. Owns(tree')  BY <2>2, <2>3, SameOwns
  <2>. QED  BY <2>1, <2>2, <2>3, <2>4, OwnedKeepsIInv DEF SameStorage
<1>5. CASE Destroy
  <2>1. /\ call = "none" /\ call' = "destroyed"
        /\ tree' = [Cleanup(tree) EXCEPT !.heap = IF tree.buffer THEN @ \ {Buffer} ELSE @]
    BY <1>5 DEF Destroy
  <2>2. Owns(tree)  BY <2>1 DEF IInv
  <2>. DEFINE c == Cleanup(tree)
  <2>3. /\ Owns(c) /\ ~c.owned /\ c.pages = << >>
        /\ c.heap = (IF tree.buffer THEN {Buffer} ELSE {})
    BY <2>2, CleanupKeeps
  <2>4. tree' = [c EXCEPT !.heap = IF tree.buffer THEN @ \ {Buffer} ELSE @]  BY <2>1
  <2>. HIDE DEF c
  <2>5. tree'.heap = {} /\ ~tree'.owned /\ tree'.pages = << >>
    BY <2>3, <2>4 DEF Owns, Fields
  <2>6. DOMAIN << >> = {}  OBVIOUS
  <2>. QED  BY <2>1, <2>5, <2>6 DEF IInv, StorageIsOwn
<1>. QED  BY <1>1, <1>2, <1>3, <1>4, <1>5 DEF Next, TryParse, Parse

(* The parser owns exactly the blocks it can still free, whatever the      *)
(* message, the sizes and the failures, and destroying the tree leaves     *)
(* nothing allocated (node.c:75-129, :205-340, :774-882, :1154-1167).      *)
THEOREM BlocksAccounted == Spec => []StorageIsOwn
<1>1. IInv => StorageIsOwn  BY DEF IInv
<1>. QED  BY <1>1, InitIInv, NextIInv, PTL DEF Spec

-----------------------------------------------------------------------------
(* Numbers *)

StreamByte == {b \in [t : DOMAIN Width \cup {"byte"}, n : Int] : b.t = "fixint" \/ b.n >= 0}

LEMMA Widths == \A tag \in DOMAIN Width : Width[tag] \in {0, 1, 2, 4, 8}
BY DEF Width

LEMMA BaseFacts == Base \in Nat /\ Base > 0
BY BaseAssumption

(* A number that is read is one, whatever bytes it is read from *)
LEMMA NumberType ==
    ASSUME NEW m \in Seq(StreamByte), Len(m) \in {1, 2, 4, 8}
    PROVE  Number(m) \in Nat
<1>1. \A i \in 1 .. Len(m) : Digit(m[i]) \in Nat
  <2>1. \A b \in StreamByte : b.n \in Int  BY DEF StreamByte
  <2>2. \A k \in Int : k % Base \in Nat  BY BaseFacts
  <2>3. \A b \in StreamByte : Digit(b) \in Nat
    <3>. SUFFICES ASSUME NEW b \in StreamByte  PROVE b.n % Base \in Nat  BY DEF Digit
    <3>1. b.n \in Int  BY <2>1
    <3>. QED  BY <2>2, <3>1, Zenon
  <2>4. \A i \in 1 .. Len(m) : m[i] \in StreamByte  OBVIOUS
  <2>. QED  BY <2>3, <2>4
<1>2. ASSUME NEW i, Digit(m[i]) \in Nat, Digit(m[i + 1]) \in Nat  PROVE Load16(m, i) \in Nat
  <2>1. \A x, y \in Nat : x * Base + y \in Nat  BY BaseFacts
  <2>. QED  BY <1>2, <2>1, Zenon DEF Load16
<1>3. ASSUME NEW i, Load16(m, i) \in Nat, Load16(m, i + 2) \in Nat  PROVE Load32(m, i) \in Nat
  <2>1. Power(2) \in Nat  BY BaseFacts DEF Power, Squared
  <2>2. \A k, x, y \in Nat : x * k + y \in Nat  OBVIOUS
  <2>. QED  BY <1>3, <2>1, <2>2, Zenon DEF Load32
<1>4. ASSUME NEW i, Load32(m, i) \in Nat, Load32(m, i + 4) \in Nat  PROVE Load64(m, i) \in Nat
  <2>1. Power(4) \in Nat
    <3>1. \A x, y \in Nat : x * y \in Nat  OBVIOUS
    <3>2. Power(4) = (Base * Base) * (Base * Base)  BY DEF Power, Squared
    <3>. QED  BY <3>1, <3>2, BaseFacts, Zenon
  <2>2. \A k, x, y \in Nat : x * k + y \in Nat  OBVIOUS
  <2>. QED  BY <1>4, <2>1, <2>2, Zenon DEF Load64
<1>5. CASE Len(m) = 1  BY <1>1, <1>5 DEF Number
<1>6. CASE Len(m) = 2
  <2>1. Load16(m, 1) \in Nat  BY <1>1, <1>2, <1>6
  <2>. QED  BY <1>6, <2>1 DEF Number
<1>7. CASE Len(m) = 4
  <2>1. Load16(m, 1) \in Nat /\ Load16(m, 1 + 2) \in Nat  BY <1>1, <1>2, <1>7
  <2>2. Load32(m, 1) \in Nat  BY <1>3, <2>1
  <2>. QED  BY <1>7, <2>2 DEF Number
<1>8. CASE Len(m) = 8
  <2>1. /\ Load16(m, 1) \in Nat /\ Load16(m, 1 + 2) \in Nat
        /\ Load16(m, 1 + 4) \in Nat /\ Load16(m, 1 + 4 + 2) \in Nat
    <3>1. \A i \in 1 .. 7 : Load16(m, i) \in Nat
      <4>. SUFFICES ASSUME NEW i \in 1 .. 7  PROVE Load16(m, i) \in Nat  OBVIOUS
      <4>1. i \in 1 .. Len(m) /\ i + 1 \in 1 .. Len(m)  BY <1>8
      <4>. QED  BY <1>1, <1>2, <4>1
    <3>. QED  BY <3>1
  <2>2. Load32(m, 1) \in Nat /\ Load32(m, 1 + 4) \in Nat  BY <1>3, <2>1
  <2>3. Load64(m, 1) \in Nat  BY <1>4, <2>2
  <2>. QED  BY <1>8, <2>3 DEF Number
<1>. QED  BY <1>5, <1>6, <1>7, <1>8

Containers == {"array", "map", "str", "bin", "ext"}

(* What a tag says of how much follows it is a number *)
LEMMA CountType ==
    ASSUME NEW first \in StreamByte, first.t # "byte", TypeOf(first) \in Containers,
           NEW digits \in Seq(StreamByte), Len(digits) = Width[first.t]
    PROVE  TagNumber(first, digits) \in Nat
<1>1. first.t \in {"fixstr", "str8", "str16", "str32", "bin8", "bin16", "bin32",
                   "fixarray", "array16", "array32", "fixmap", "map16", "map32"} \cup ExtTags
  <2>1. first.t \in DOMAIN Width  BY DEF StreamByte
  <2>2. CASE first.t \in {"nil", "float", "double", "reserved", "false", "true", "fixint"}
                         \cup Unsigned \cup TwosComplement
    BY <2>2 DEF TypeOf, Containers, Unsigned, TwosComplement, ExtTags
  <2>3. CASE first.t \notin {"nil", "float", "double", "reserved", "false", "true", "fixint"}
                            \cup Unsigned \cup TwosComplement
    BY <2>1, <2>3 DEF Width, Unsigned, TwosComplement, ExtTags
  <2>. QED  BY <2>2, <2>3
<1>2. first.t \in DOMAIN Width /\ first.n \in Int /\ first.n >= 0
  BY <1>1 DEF StreamByte, ExtTags
<1>3. CASE first.t \in DOMAIN FixedSize
  <2>1. \A tag \in DOMAIN FixedSize : FixedSize[tag] \in Nat  BY DEF FixedSize
  <2>. QED  BY <1>3, <2>1 DEF TagNumber
<1>4. CASE first.t \notin DOMAIN FixedSize /\ Width[first.t] = 0
  BY <1>1, <1>2, <1>4 DEF TagNumber, ExtTags
<1>5. CASE first.t \notin DOMAIN FixedSize /\ Width[first.t] # 0
  <2>1. Number(digits) \in Nat  BY <1>2, <1>5, Widths, NumberType
  <2>2. TagNumber(first, digits) = Number(digits)
    BY <1>1, <1>5 DEF TagNumber, ExtTags, TwosComplement
  <2>. QED  BY <2>1, <2>2
<1>. QED  BY <1>3, <1>4, <1>5
-----------------------------------------------------------------------------
(* Nodes and bytes: what a level of the stack is, and the room for nodes *)
Address == Int \X Nat
Level == [child : Address, left : Nat]
Room(at, n) == {Advance(at, k) : k \in 0 .. (n - 1)}

(* A finite set of numbers that is not empty has a greatest element *)
LEMMA Greatest ==
    ASSUME NEW n \in Nat, NEW S \in SUBSET (1 .. n), S # {}
    PROVE  \E i \in S : \A j \in S : j <= i
<1>. DEFINE T == {n - i : i \in S}
            R == OpToRel(<, Nat)
<1>1. T \subseteq Nat
  <2>1. \A i \in S : n - i \in Nat  OBVIOUS
  <2>. QED  BY <2>1
<1>2. T # {}
  <2>1. PICK i : i \in S  OBVIOUS
  <2>2. n - i \in T  BY <2>1
  <2>. QED  BY <2>2
<1>3. IsWellFoundedOn(R, Nat)  BY NatLessThanWellFounded
<1>4. \A x, y \in Nat : <<x, y>> \in R <=> x < y  BY DEF OpToRel
<1>. HIDE DEF R, T
<1>5. PICK x \in T : \A y \in T : ~(<<y, x>> \in R)  BY <1>1, <1>2, <1>3, WFMin
<1>6. PICK i \in S : x = n - i  BY DEF T
<1>7. ASSUME NEW j \in S  PROVE j <= i
  <2>1. n - j \in T  BY DEF T
  <2>2. ~(n - j < n - i)  BY <1>1, <1>4, <1>5, <1>6, <2>1
  <2>. QED  BY <2>2
<1>. QED  BY <1>7

(* Among more numbers than there are pages, one is of no page *)
LEMMA FreePage ==
    ASSUME NEW t, t.pages \in Seq(Nat)
    PROVE  /\ Free(t) \in 1 .. (Len(t.pages) + 1)
           /\ \A i \in DOMAIN t.pages : t.pages[i] # Free(t)
<1>. DEFINE l == Len(t.pages)
            S == 1 .. (l + 1)
<1>1. \E p \in S : \A i \in DOMAIN t.pages : t.pages[i] # p
  <2>. SUFFICES ASSUME \A p \in S : \E i \in DOMAIN t.pages : t.pages[i] = p  PROVE FALSE
    OBVIOUS
  <2>. DEFINE f == [i \in 1 .. l |-> IF t.pages[i] \in S THEN t.pages[i] ELSE 1]
  <2>1. l \in Nat /\ DOMAIN t.pages = 1 .. l  OBVIOUS
  <2>2. f \in [1 .. l -> S]  BY <2>1
  <2>3. \A p \in S : \E i \in 1 .. l : f[i] = p  BY <2>1
  <2>4. f \in Surjection(1 .. l, S)  BY <2>2, <2>3 DEF Surjection
  <2>5. ExistsSurjection(1 .. l, S)  BY <2>4 DEF ExistsSurjection
  <2>. HIDE DEF f
  <2>6. Cardinality(S) <= l  BY <2>1, <2>5, FS_SurjCardinalityBound
  <2>7. Cardinality(S) = l + 1  BY <2>1, FS_Interval
  <2>. QED  BY <2>1, <2>6, <2>7
<1>. QED  BY <1>1 DEF Free

(* A row of a table of places *)
LEMMA OneRow ==
    ASSUME NEW p, NEW T, IsFiniteSet(T)
    PROVE  IsFiniteSet({p} \X T) /\ Cardinality({p} \X T) = Cardinality(T)
<1>. DEFINE one == {p}
<1>1. IsFiniteSet(one) /\ Cardinality(one) = 1  BY FS_Singleton
<1>. HIDE DEF one
<1>2. IsFiniteSet(one \X T) /\ Cardinality(one \X T) = Cardinality(one) * Cardinality(T)
  BY <1>1, FS_Product
<1>3. \A n \in Nat : 1 * n = n  OBVIOUS
<1>4. Cardinality(T) \in Nat  BY FS_CardinalityType
<1>5. Cardinality(one \X T) = Cardinality(T)  BY <1>1, <1>2, <1>3, <1>4
<1>. QED  BY <1>2, <1>5 DEF one

(* How many children are to come *)
LEMMA InComing ==
    ASSUME NEW stack, NEW i, NEW k
    PROVE  <<i, k>> \in Coming(stack) <=> i \in DOMAIN stack /\ k \in 1 .. stack[i].left
BY DEF Coming

(* A child to come is a level and a number *)
LEMMA ComingPairs ==
    ASSUME NEW stack, NEW e \in Coming(stack)
    PROVE  \E i, k : e = <<i, k>> /\ i \in DOMAIN stack /\ k \in 1 .. stack[i].left
BY DEF Coming

(* One level more *)
LEMMA ComingPushed ==
    ASSUME NEW stack \in Seq(Level), NEW level \in Level, IsFiniteSet(Coming(stack))
    PROVE  /\ IsFiniteSet(Coming(Append(stack, level)))
           /\ Cardinality(Coming(Append(stack, level))) = Cardinality(Coming(stack)) + level.left
<1>. DEFINE l == Len(stack) + 1
            pushed == Append(stack, level)
            more == {l} \X (1 .. level.left)
<1>1. /\ DOMAIN pushed = 1 .. l /\ DOMAIN stack = 1 .. (l - 1) /\ l \in Nat
      /\ pushed[l] = level /\ level.left \in Nat
      /\ \A i \in 1 .. (l - 1) : pushed[i] = stack[i]
  BY DEF Level
<1>2. Coming(pushed) = Coming(stack) \cup more
  <2>. HIDE DEF pushed
  <2>1. \A i : i \in 1 .. l <=> i = l \/ i \in 1 .. (l - 1)  BY <1>1
  <2>. HIDE DEF l
  <2>2. ASSUME NEW e \in Coming(pushed)  PROVE e \in Coming(stack) \cup more
    <3>1. PICK i, k : e = <<i, k>> /\ i \in DOMAIN pushed /\ k \in 1 .. pushed[i].left
      BY ComingPairs
    <3>. QED  BY <1>1, <2>1, <3>1, InComing
  <2>3. ASSUME NEW e \in Coming(stack)  PROVE e \in Coming(pushed)
    <3>1. PICK i, k : e = <<i, k>> /\ i \in DOMAIN stack /\ k \in 1 .. stack[i].left
      BY ComingPairs
    <3>. QED  BY <1>1, <2>1, <3>1, InComing
  <2>4. ASSUME NEW e \in more  PROVE e \in Coming(pushed)
    <3>1. PICK k \in 1 .. level.left : e = <<l, k>>  OBVIOUS
    <3>. QED  BY <1>1, <2>1, <3>1, InComing
  <2>. QED  BY <2>2, <2>3, <2>4
<1>3. Coming(stack) \cap more = {}
  <2>1. l \notin DOMAIN stack  BY <1>1
  <2>. HIDE DEF l
  <2>. QED  BY <2>1, ComingPairs
<1>4. IsFiniteSet(more) /\ Cardinality(more) = level.left
  <2>1. \A n \in Nat : IsFiniteSet(1 .. n) /\ Cardinality(1 .. n) = n  BY FS_Interval
  <2>2. IsFiniteSet(1 .. level.left) /\ Cardinality(1 .. level.left) = level.left
    BY <1>1, <2>1
  <2>. HIDE DEF l
  <2>. QED  BY <2>2, OneRow
<1>. HIDE DEF more, pushed
<1>5. Cardinality(Coming(stack)) \in Nat  BY FS_CardinalityType
<1>6. /\ IsFiniteSet(Coming(stack) \cup more)
      /\ Cardinality(Coming(stack) \cup more) = Cardinality(Coming(stack))
              + Cardinality(more) - Cardinality(Coming(stack) \cap more)
  BY <1>4, FS_Union, Zenon
<1>7. Cardinality(Coming(stack) \cap more) = 0  BY <1>3, FS_EmptySet
<1>8. /\ IsFiniteSet(Coming(pushed))
      /\ Cardinality(Coming(pushed)) = Cardinality(Coming(stack)) + level.left
  BY <1>1, <1>2, <1>4, <1>5, <1>6, <1>7
<1>. QED  BY <1>8 DEF pushed

(* One child less *)
LEMMA ComingParsed ==
    ASSUME NEW stack \in Seq(Level), NEW i \in DOMAIN stack, stack[i].left >= 1,
           NEW less, DOMAIN less = DOMAIN stack, less[i].left = stack[i].left - 1,
           \A j \in DOMAIN stack : j # i => less[j] = stack[j],
           IsFiniteSet(Coming(stack))
    PROVE  /\ IsFiniteSet(Coming(less))
           /\ Cardinality(Coming(less)) = Cardinality(Coming(stack)) - 1
<1>. DEFINE left == stack[i].left
<1>1. left \in Nat
  <2>1. stack[i] \in Level  OBVIOUS
  <2>. QED  BY <2>1 DEF Level
<1>2. \A k : k \in 1 .. (left - 1) <=> k \in 1 .. left /\ k # left  BY <1>1
<1>3. Coming(less) = Coming(stack) \ {<<i, left>>}
  <2>1. ASSUME NEW e \in Coming(less)  PROVE e \in Coming(stack) \ {<<i, left>>}
    <3>1. PICK j, k : e = <<j, k>> /\ j \in DOMAIN less /\ k \in 1 .. less[j].left
      BY ComingPairs
    <3>2. j \in DOMAIN stack /\ k \in 1 .. stack[j].left /\ (j = i => k # left)
      BY <1>1, <1>2, <3>1
    <3>. QED  BY <3>1, <3>2, InComing
  <2>2. ASSUME NEW e \in Coming(stack) \ {<<i, left>>}  PROVE e \in Coming(less)
    <3>1. PICK j, k : e = <<j, k>> /\ j \in DOMAIN stack /\ k \in 1 .. stack[j].left
      BY ComingPairs
    <3>2. j \in DOMAIN less /\ k \in 1 .. less[j].left
      BY <1>1, <1>2, <3>1
    <3>. QED  BY <3>1, <3>2, InComing
  <2>. QED  BY <2>1, <2>2
<1>4. <<i, left>> \in Coming(stack)
  <2>1. left \in 1 .. left  BY <1>1
  <2>. QED  BY <2>1, InComing
<1>5. /\ IsFiniteSet(Coming(stack) \ {<<i, left>>})
      /\ Cardinality(Coming(stack) \ {<<i, left>>}) =
            IF <<i, left>> \in Coming(stack) THEN Cardinality(Coming(stack)) - 1
            ELSE Cardinality(Coming(stack))
  BY FS_RemoveElement, Zenon
<1>. QED  BY <1>3, <1>4, <1>5

(* Levels that are empty are nothing to come *)
LEMMA ComingPopped ==
    ASSUME NEW stack \in Seq(Level), stack # << >>
    PROVE  /\ Popped(stack) \in Seq(Level) /\ Popped(stack) # << >>
           /\ DOMAIN Popped(stack) \subseteq DOMAIN stack
           /\ \A i \in DOMAIN Popped(stack) : Popped(stack)[i] = stack[i]
           /\ Coming(Popped(stack)) = Coming(stack)
           /\ ~(Len(Popped(stack)) = 1 /\ Popped(stack)[1].left = 0)
                 => Popped(stack)[Len(Popped(stack))].left >= 1
<1>. DEFINE open == {i \in DOMAIN stack : stack[i].left > 0}
            top == CHOOSE i \in open : \A j \in open : j <= i
            kept == IF open = {} THEN 1 ELSE top
            popped == SubSeq(stack, 1, kept)
<1>1. DOMAIN stack = 1 .. Len(stack) /\ Len(stack) \in Nat /\ Len(stack) >= 1
  OBVIOUS
<1>2. open # {} => top \in open /\ \A j \in open : j <= top
  <2>. SUFFICES ASSUME open # {}  PROVE \E i \in open : \A j \in open : j <= i
    OBVIOUS
  <2>1. open \in SUBSET (1 .. Len(stack))  BY <1>1
  <2>. HIDE DEF open
  <2>. QED  BY <1>1, <2>1, Greatest
<1>3. \A i \in DOMAIN stack : stack[i].left \in Nat
  <2>1. \A i \in DOMAIN stack : stack[i] \in Level  OBVIOUS
  <2>. QED  BY <2>1 DEF Level
<1>4. Popped(stack) = popped
  <2>1. Popped(stack) = IF open = {} THEN SubSeq(stack, 1, 1) ELSE SubSeq(stack, 1, top)
    BY Zenon DEF Popped
  <2>. HIDE DEF top, open
  <2>. QED  BY <2>1
<1>. HIDE DEF top
<1>5. kept \in 1 .. Len(stack)  BY <1>1, <1>2
<1>6. \A j \in open : j <= kept  BY <1>2
<1>7. open # {} => stack[kept].left > 0  BY <1>2
<1>8. open = {} => kept = 1  OBVIOUS
<1>9. \A i \in DOMAIN stack : stack[i].left > 0 => i \in open  OBVIOUS
<1>. HIDE DEF kept, open
<1>10. /\ popped \in Seq(Level) /\ Len(popped) = kept /\ DOMAIN popped = 1 .. kept
       /\ \A i \in 1 .. kept : popped[i] = stack[i]
  BY <1>1, <1>5
<1>. HIDE DEF popped
<1>11. DOMAIN popped \subseteq DOMAIN stack /\ popped # << >>  BY <1>1, <1>5, <1>10
<1>12. Coming(popped) = Coming(stack)
  <2>1. ASSUME NEW e \in Coming(popped)  PROVE e \in Coming(stack)
    <3>1. PICK i, k : e = <<i, k>> /\ i \in DOMAIN popped /\ k \in 1 .. popped[i].left
      BY ComingPairs
    <3>. QED  BY <1>10, <1>11, <3>1, InComing
  <2>2. ASSUME NEW e \in Coming(stack)  PROVE e \in Coming(popped)
    <3>1. PICK i, k : e = <<i, k>> /\ i \in DOMAIN stack /\ k \in 1 .. stack[i].left
      BY ComingPairs
    <3>2. stack[i].left > 0  BY <1>3, <3>1
    <3>3. i <= kept  BY <1>6, <1>9, <3>1, <3>2
    <3>4. i \in 1 .. kept  BY <1>1, <1>5, <3>1, <3>3
    <3>. QED  BY <1>10, <3>1, <3>4, InComing
  <2>. QED  BY <2>1, <2>2
<1>13. ~(Len(popped) = 1 /\ popped[1].left = 0) => popped[Len(popped)].left >= 1
  <2>1. popped[kept] = stack[kept] /\ stack[kept].left \in Nat  BY <1>1, <1>3, <1>5, <1>10
  <2>2. CASE open # {}  BY <1>7, <1>10, <2>1, <2>2
  <2>3. CASE open = {}  BY <1>8, <1>10, <2>1, <2>3
  <2>. QED  BY <2>2, <2>3
<1>. QED  BY <1>4, <1>10, <1>11, <1>12, <1>13

(* Room *)
LEMMA RoomPart ==
    ASSUME NEW at \in Address, NEW n \in Nat, NEW k \in 0 .. n
    PROVE  /\ Room(at, k) \subseteq Room(at, n)
           /\ Advance(at, k) \in Address
           /\ Room(Advance(at, k), n - k) \subseteq Room(at, n)
           /\ n > 0 => at \in Room(at, n)
<1>1. PICK p \in Int, s \in Nat : at = <<p, s>>  BY DEF Address
<1>2. \A i \in Nat : Advance(at, i) = <<p, s + i>>  BY <1>1 DEF Advance
<1>3. Room(at, k) \subseteq Room(at, n)
  <2>1. 0 .. (k - 1) \subseteq 0 .. (n - 1)  OBVIOUS
  <2>. QED  BY <2>1 DEF Room
<1>4. Advance(at, k) \in Address  BY <1>1, <1>2 DEF Address
<1>5. ASSUME NEW i \in 0 .. (n - k - 1)
      PROVE  Advance(Advance(at, k), i) \in Room(at, n)
  <2>1. Advance(Advance(at, k), i) = <<p, s + k + i>>  BY <1>2 DEF Advance
  <2>2. k + i \in 0 .. (n - 1) /\ k + i \in Nat /\ s + (k + i) = s + k + i  OBVIOUS
  <2>3. Advance(at, k + i) = <<p, s + k + i>>  BY <1>2, <2>2
  <2>. QED  BY <2>1, <2>2, <2>3 DEF Room
<1>6. n > 0 => at \in Room(at, n)
  <2>. SUFFICES ASSUME n > 0  PROVE at \in Room(at, n)  OBVIOUS
  <2>1. Advance(at, 0) = <<p, s>> /\ 0 \in 0 .. (n - 1)  BY <1>2
  <2>. QED  BY <1>1, <2>1 DEF Room
<1>. QED  BY <1>3, <1>4, <1>5, <1>6 DEF Room

(* A page has room for its nodes *)
LEMMA SlotsRoom ==
    ASSUME NEW p \in Int, NEW count \in Nat
    PROVE  /\ Slots(p, count) = Room(<<p, 0>>, count)
           /\ IsFiniteSet(Slots(p, count)) /\ Cardinality(Slots(p, count)) = count
<1>1. \A i \in Nat : Advance(<<p, 0>>, i) = <<p, i>>  BY DEF Advance
<1>2. 0 .. (count - 1) \subseteq Nat  OBVIOUS
<1>3. Slots(p, count) = Room(<<p, 0>>, count)
  <2>1. ASSUME NEW e \in Slots(p, count)  PROVE e \in Room(<<p, 0>>, count)
    <3>1. PICK i \in 0 .. (count - 1) : e = <<p, i>>  BY DEF Slots
    <3>. QED  BY <1>1, <3>1 DEF Room
  <2>2. ASSUME NEW e \in Room(<<p, 0>>, count)  PROVE e \in Slots(p, count)
    <3>1. PICK i \in 0 .. (count - 1) : e = Advance(<<p, 0>>, i)  BY DEF Room
    <3>. QED  BY <1>1, <3>1 DEF Slots
  <2>. QED  BY <2>1, <2>2
<1>4. IsFiniteSet(0 .. (count - 1)) /\ Cardinality(0 .. (count - 1)) = count
  <2>1. \A n \in Nat : IsFiniteSet(0 .. (n - 1)) /\ Cardinality(0 .. (n - 1)) = n
    <3>. SUFFICES ASSUME NEW n \in Nat
                  PROVE  IsFiniteSet(0 .. (n - 1)) /\ Cardinality(0 .. (n - 1)) = n
      OBVIOUS
    <3>. DEFINE m == n - 1
    <3>1. m \in Int /\ (0 > m <=> n = 0) /\ m - 0 + 1 = n  OBVIOUS
    <3>. HIDE DEF m
    <3>2. IsFiniteSet(0 .. m) /\ Cardinality(0 .. m) = IF 0 > m THEN 0 ELSE m - 0 + 1
      BY <3>1, FS_Interval
    <3>3. Cardinality(0 .. m) = n  BY <3>1, <3>2
    <3>. QED  BY <3>2, <3>3 DEF m
  <2>. QED  BY <2>1
<1>. QED  BY <1>3, <1>4, OneRow DEF Slots

-----------------------------------------------------------------------------
(* Bytes *)

StreamsAreBytes == \A s \in Streams : s \in Seq(StreamByte)

(* The streams are sequences of bytes *)
LEMMA StreamBytes == StreamsAreBytes
<1>. SUFFICES ASSUME NEW s \in Streams  PROVE s \in Seq(StreamByte)
  BY DEF StreamsAreBytes
<1>1. /\ s \in Seq([t : DOMAIN Width \cup {"byte"}, n : Int])
      /\ \A i \in DOMAIN s : s[i].t = "fixint" \/ s[i].n >= 0
  BY StreamsAssumption
<1>2. \A i \in 1 .. Len(s) : s[i] \in StreamByte
  <2>. SUFFICES ASSUME NEW i \in 1 .. Len(s)  PROVE s[i] \in StreamByte  OBVIOUS
  <2>. DEFINE Raws == [t : DOMAIN Width \cup {"byte"}, n : Int]
  <2>0. s \in Seq(Raws)  BY <1>1
  <2>. HIDE DEF Raws
  <2>1. i \in DOMAIN s /\ s[i] \in Raws  BY <2>0
  <2>2. s[i].t = "fixint" \/ s[i].n >= 0  BY <1>1, <2>1
  <2>. QED  BY <2>1, <2>2 DEF StreamByte, Raws
<1>. QED  BY <1>1, <1>2

(* What bytes and nodes a tree has *)
Typed(t) == /\ DOMAIN t = Fields
            /\ t.data \in Seq(StreamByte) /\ t.got \in Nat
            /\ t.size \in Nat /\ t.possible \in Nat /\ t.reserved \in Nat
            /\ t.next \in Address /\ t.left \in Nat
            /\ t.stack \in Seq(Level) /\ t.pages \in Seq(Nat)
            /\ IsFiniteSet(DOMAIN t.nodes)
            /\ setup = "pool" => t.pages = << >> /\ DOMAIN t.nodes = Slots(0, PoolCount)

(* A tree whose data may have grown by what has become possible, and that  *)
(* has nodes in the same places                                            *)
Like(s, t) ==
    /\ DOMAIN s = Fields
    /\ s.data \in Seq(StreamByte) /\ s.got \in Nat
    /\ s.possible \in Nat /\ s.reserved \in Nat
    /\ Len(s.data) + t.possible = Len(t.data) + s.possible
    /\ s.error = t.error /\ s.state = t.state /\ s.size = t.size
    /\ s.next = t.next /\ s.left = t.left /\ s.stack = t.stack
    /\ s.pages = t.pages /\ DOMAIN s.nodes = DOMAIN t.nodes

(* What is left alone by bytes that are reserved, and may be read for it *)
Grew(s, t) == Like(s, t) /\ s.nodes = t.nodes

Halted(o) == ~o.ok /\ o.t.error # "ok"

(* A tree that grew is typed as before *)
LEMMA GrewTyped ==
    ASSUME NEW s, NEW t, Typed(t), Grew(s, t)
    PROVE  Typed(s)
BY DEF Typed, Grew, Like

(* A flagged error stops the parse *)
LEMMA FailedHalts ==
    ASSUME NEW t, NEW e, DOMAIN t = Fields, e # "ok"
    PROVE  \A o \in Failed(t, e) : Halted(o)
<1>1. FlagError(t, e).error # "ok"  BY DEF FlagError, Fields
<1>. QED  BY <1>1 DEF Failed, Stopped, Halted

(* What was read follows what was held *)
LEMMA Joined ==
    ASSUME NEW S, NEW u \in Seq(S), NEW v \in Seq(S)
    PROVE  u \o v \in Seq(S) /\ Len(u \o v) = Len(u) + Len(v)
OBVIOUS

(* The fill callback only adds bytes of the stream *)
LEMMA DeliveredGrew ==
    ASSUME NEW t, Typed(t), stream \in Streams, NEW n \in 0 .. (Len(stream) - t.got)
    PROVE  /\ Grew(Delivered(t, n), t)
           /\ Delivered(t, n).reserved = t.reserved
           /\ Delivered(t, n).possible = t.possible + n
<1>. DEFINE d == Delivered(t, n)
            more == SubSeq(stream, t.got + 1, t.got + n)
<1>1. stream \in Seq(StreamByte)  BY StreamBytes DEF StreamsAreBytes
<1>2. t.got \in Nat /\ t.possible \in Nat /\ t.data \in Seq(StreamByte)  BY DEF Typed
<1>3. n \in Nat /\ t.got + n <= Len(stream)  BY <1>1, <1>2
<1>4. more \in Seq(StreamByte) /\ Len(more) = n  BY <1>1, <1>2, <1>3
<1>5. /\ DOMAIN d = Fields /\ d.data = t.data \o more /\ d.got = t.got + n
      /\ d.possible = t.possible + n /\ d.reserved = t.reserved
      /\ d.error = t.error /\ d.state = t.state /\ d.size = t.size
      /\ d.next = t.next /\ d.left = t.left /\ d.stack = t.stack
      /\ d.pages = t.pages /\ d.nodes = t.nodes
  BY DEF Delivered, Typed, Fields
<1>. HIDE DEF d, more
<1>6. d.data \in Seq(StreamByte) /\ Len(d.data) = Len(t.data) + n
  <2>1. t.data \o more \in Seq(StreamByte) /\ Len(t.data \o more) = Len(t.data) + Len(more)
    BY <1>2, <1>4, Joined, Zenon
  <2>. QED  BY <1>4, <1>5, <2>1
<1>7. Len(t.data) \in Nat  BY <1>2
<1>8. Len(d.data) + t.possible = Len(t.data) + d.possible
  <2>. DEFINE a == Len(t.data)
              b == Len(d.data)
  <2>1. a \in Nat /\ b = a + n  BY <1>6, <1>7
  <2>. HIDE DEF a, b
  <2>2. b + t.possible = a + d.possible  BY <1>2, <1>3, <1>5, <2>1
  <2>. QED  BY <2>2 DEF a, b
<1>9. d.got \in Nat /\ d.possible \in Nat /\ d.reserved \in Nat
  <2>1. \A a, b \in Nat : a + b \in Nat  OBVIOUS
  <2>2. t.reserved \in Nat  BY DEF Typed
  <2>. QED  BY <1>2, <1>3, <1>5, <2>1, <2>2, Zenon
<1>10. Grew(d, t)  BY <1>5, <1>6, <1>8, <1>9 DEF Grew, Like
<1>. QED  BY <1>5, <1>10 DEF d

(* A reservation that succeeds is met, and whatever comes of it the data   *)
(* grows by what has become possible                                       *)
Reserved(o, t, bytes) ==
    \/ Halted(o)
    \/ /\ Grew(o.t, t)
       /\ o.ok => o.t.reserved = t.reserved + bytes /\ o.t.reserved <= o.t.possible

(* Bytes read are held, none is parsed *)
LEMMA ReadReserves ==
    ASSUME NEW o, Typed(o.t), stream \in Streams, o.ok,
           DOMAIN o = {"t", "ok", "moved"}
    PROVE  \A r \in Read(o) : Reserved(r, o.t, 0)
<1>. SUFFICES ASSUME NEW r \in Read(o)  PROVE Reserved(r, o.t, 0)  OBVIOUS
<1>1. PICK n \in 0 .. (Len(stream) - o.t.got) :
         \/ r = [o EXCEPT !.t = Delivered(o.t, n)] /\ o.t.possible + n >= o.t.reserved
         \/ r = Stopped(Delivered(o.t, n))
         \/ r \in Failed(Delivered(o.t, n), "io")
  BY DEF Read
<1>. DEFINE d == Delivered(o.t, n)
<1>2. Grew(d, o.t) /\ d.reserved = o.t.reserved /\ d.possible = o.t.possible + n
  BY DeliveredGrew
<1>3. \/ r = [o EXCEPT !.t = d] /\ o.t.possible + n >= o.t.reserved
      \/ r = Stopped(d)
      \/ r \in Failed(d, "io")
  BY <1>1
<1>. HIDE DEF d
<1>4. CASE r = [o EXCEPT !.t = d] /\ o.t.possible + n >= o.t.reserved
  <2>1. r.t = d  BY <1>4
  <2>2. o.t.reserved \in Nat /\ o.t.possible \in Nat  BY DEF Typed
  <2>. QED  BY <1>2, <1>4, <2>1, <2>2 DEF Reserved
<1>5. CASE r = Stopped(d)
  BY <1>2, <1>5 DEF Reserved, Stopped
<1>6. CASE r \in Failed(d, "io")
  BY <1>2, <1>6, FailedHalts DEF Reserved, Grew, Like
<1>. QED  BY <1>3, <1>4, <1>5, <1>6

(* Enlarging the buffer keeps what it holds *)
LEMMA GrownGrew ==
    ASSUME NEW t, NEW need, Typed(t)
    PROVE  \A o \in Grown(t, need) : /\ Halted(o) \/ (o.ok /\ Grew(o.t, t) /\ o.t.reserved = t.reserved)
                                     /\ DOMAIN o = {"t", "ok", "moved"}
<1>. DEFINE grown == [t EXCEPT !.capacity = NewCapacity(t.capacity, need),
                               !.buffer = TRUE, !.heap = @ \cup {Buffer}]
<1>1. Grew(t, t)  BY DEF Grew, Like, Typed
<1>2. Grew(grown, t) /\ grown.reserved = t.reserved  BY DEF Grew, Like, Typed, Fields
<1>3. \A o \in Grown(t, need) : \/ o.ok /\ (o.t = t \/ o.t = grown)
                                \/ o \in Failed(t, "memory")
  BY DEF Grown, Went
<1>4. \A o \in Grown(t, need) : DOMAIN o = {"t", "ok", "moved"}
  BY DEF Grown, Went, Failed, Stopped
<1>. HIDE DEF grown
<1>5. \A o \in Failed(t, "memory") : Halted(o)  BY FailedHalts DEF Typed
<1>. QED  BY <1>1, <1>2, <1>3, <1>4, <1>5

(* Growing twice is growing *)
LEMMA GrewAgain ==
    ASSUME NEW r, NEW s, NEW t, Typed(t), Grew(s, t), Grew(r, s)
    PROVE  Grew(r, t)
<1>2. /\ r.data \in Seq(StreamByte) /\ s.data \in Seq(StreamByte) /\ t.data \in Seq(StreamByte)
      /\ r.possible \in Nat /\ s.possible \in Nat /\ t.possible \in Nat
  BY DEF Grew, Like, Typed
<1>3. Len(r.data) \in Nat /\ Len(s.data) \in Nat /\ Len(t.data) \in Nat
  BY <1>2
<1>4. /\ Len(s.data) + t.possible = Len(t.data) + s.possible
      /\ Len(r.data) + s.possible = Len(s.data) + r.possible
  BY DEF Grew, Like
<1>5. Len(r.data) + t.possible = Len(t.data) + r.possible
  <2>. DEFINE a == Len(t.data)
              b == Len(s.data)
              c == Len(r.data)
              x == t.possible
              y == s.possible
              z == r.possible
  <2>1. /\ a \in Nat /\ b \in Nat /\ c \in Nat /\ x \in Nat /\ y \in Nat /\ z \in Nat
        /\ b + x = a + y /\ c + y = b + z
    BY <1>2, <1>3, <1>4
  <2>. HIDE DEF a, b, c, x, y, z
  <2>2. c + x = a + z  BY <2>1
  <2>. QED  BY <2>2 DEF a, c, x, z
<1>. QED  BY <1>5 DEF Grew, Like

(* A fill that succeeds has met the reservation *)
LEMMA FillReserves ==
    ASSUME NEW t, Typed(t), stream \in Streams
    PROVE  \A o \in Fill(t) : Reserved(o, t, 0)
<1>. DEFINE need == Wrapped(Len(t.data) + t.reserved)
<1>1. ASSUME NEW g \in Grown(t, need), NEW o \in After(g, Read(g))
      PROVE  Reserved(o, t, 0)
  <2>1. CASE Halted(g)  BY <1>1, <2>1 DEF After, Halted, Reserved
  <2>2. CASE g.ok /\ Grew(g.t, t) /\ g.t.reserved = t.reserved
    <3>1. Typed(g.t)  BY <2>2, GrewTyped
    <3>2. DOMAIN g = {"t", "ok", "moved"}  BY GrownGrew
    <3>3. Reserved(o, g.t, 0)  BY <1>1, <2>2, <3>1, <3>2, ReadReserves DEF After
    <3>. QED  BY <2>2, <3>3, GrewAgain DEF Reserved
  <2>. QED  BY <2>1, <2>2, GrownGrew
<1>2. \A o \in Fill(t) : \/ o \in Failed(t, "too_big") \/ o \in Failed(t, "invalid")
                         \/ \E g \in Grown(t, need) : o \in After(g, Read(g))
  BY DEF Fill
<1>3. DOMAIN t = Fields  BY DEF Typed
<1>. QED  BY <1>1, <1>2, <1>3, FailedHalts DEF Reserved

(* A reservation that succeeds is of bytes that are held *)
LEMMA ReserveReserves ==
    ASSUME NEW t, Typed(t), stream \in Streams, NEW bytes \in Nat
    PROVE  \A o \in Reserve(t, bytes) : Reserved(o, t, bytes)
<1>. DEFINE more == [t EXCEPT !.reserved = @ + bytes]
<1>1. DOMAIN t = Fields /\ t.reserved \in Nat  BY DEF Typed
<1>2. Grew(more, t) /\ more.reserved = t.reserved + bytes
  BY <1>1 DEF Grew, Like, Typed, Fields
<1>3. \A o \in Reserve(t, bytes) :
         \/ o \in Failed(t, "invalid")
         \/ o.t = more /\ more.reserved <= t.possible
         \/ o \in Fill(more)
  BY DEF Reserve, Went
<1>4. more.possible = t.possible  BY <1>1 DEF Fields
<1>. HIDE DEF more
<1>5. Typed(more)  BY <1>2, GrewTyped
<1>6. \A o \in Fill(more) : Reserved(o, more, 0)  BY <1>5, FillReserves
<1>7. \A o \in Fill(more) : Reserved(o, t, bytes)
  BY <1>1, <1>2, <1>6, GrewAgain DEF Reserved
<1>. QED  BY <1>1, <1>2, <1>3, <1>4, <1>7, FailedHalts DEF Reserved

-----------------------------------------------------------------------------
(* Bytes against nodes *)

Eighth == PageNodes \div 8

(* The sizes of a page are numbers *)
LEMMA PageFacts == PageNodes \in Nat /\ PageNodes >= 1 /\ Eighth \in Nat /\ PoolCount \in Nat
BY StorageAssumption DEF Eighth

(* n children are to come *)
Comes(t, n) == IsFiniteSet(Coming(t.stack)) /\ Cardinality(Coming(t.stack)) = n

(* The data is what was parsed, a byte for each of P nodes to come, and what *)
(* is possible; every node to come has a place, and there are no more nodes *)
(* than bytes, C of them reserved, but for an eighth of the pages           *)
Budget(t, P, C) ==
    /\ Typed(t)
    /\ Len(t.data) = t.size + P + t.possible
    /\ \A i \in DOMAIN t.stack : Room(t.stack[i].child, t.stack[i].left) \subseteq DOMAIN t.nodes
    /\ Room(t.next, t.left) \subseteq DOMAIN t.nodes
    /\ setup # "pool" => Cardinality(DOMAIN t.nodes) - t.left
                            <= t.size + P + C + Eighth * Len(t.pages)

Balanced(t, P, C) == Budget(t, P, C) /\ Comes(t, P + C)

(* A tree that is like a typed one is typed *)
LEMMA LikeTyped ==
    ASSUME NEW s, NEW t, Typed(t), Like(s, t)
    PROVE  Typed(s)
BY DEF Typed, Like

(* Trees that are alike have the same budget of bytes *)
LEMMA LikeBudget ==
    ASSUME NEW s, NEW t, NEW P \in Nat, NEW C \in Nat, Budget(t, P, C), Like(s, t)
    PROVE  Budget(s, P, C)
<1>1. Typed(t) /\ Typed(s)  BY LikeTyped DEF Budget
<1>2. Len(s.data) = s.size + P + s.possible
  <2>. DEFINE a == Len(t.data)
              b == Len(s.data)
              x == t.possible
              y == s.possible
              z == t.size
  <2>1. x \in Nat /\ y \in Nat /\ z \in Nat /\ s.size = z
    BY <1>1 DEF Typed, Like
  <2>2. a = z + P + x /\ b + x = a + y  BY DEF Budget, Like
  <2>3. a \in Nat /\ b \in Nat
    <3>1. s.data \in Seq(StreamByte) /\ t.data \in Seq(StreamByte)  BY <1>1 DEF Typed
    <3>. QED  BY <3>1
  <2>. HIDE DEF a, b, x, y, z
  <2>4. b = z + P + y  BY <2>1, <2>2, <2>3
  <2>. QED  BY <2>1, <2>4 DEF b, y
<1>. QED  BY <1>1, <1>2 DEF Budget, Like

(* A page that is added has room for so many nodes *)
LEMMA PageAdded ==
    ASSUME NEW t, Typed(t), NEW count \in Nat
    PROVE  LET w == WithPage(t, count)
           IN  /\ DOMAIN w = Fields
               /\ w.data = t.data /\ w.got = t.got /\ w.possible = t.possible
               /\ w.reserved = t.reserved /\ w.error = t.error /\ w.state = t.state
               /\ w.size = t.size /\ w.next = t.next /\ w.left = t.left /\ w.stack = t.stack
               /\ w.pages \in Seq(Nat) /\ Len(w.pages) = Len(t.pages) + 1
               /\ Free(t) \in Nat
               /\ DOMAIN w.nodes = DOMAIN t.nodes \cup Room(<<Free(t), 0>>, count)
               /\ IsFiniteSet(DOMAIN w.nodes)
               /\ Cardinality(DOMAIN w.nodes) <= Cardinality(DOMAIN t.nodes) + count
<1>. DEFINE p == Free(t)
            w == WithPage(t, count)
            D == DOMAIN t.nodes
            R == Slots(p, count)
<1>1. t.pages \in Seq(Nat) /\ IsFiniteSet(D) /\ DOMAIN t = Fields  BY DEF Typed
<1>2. p \in Nat
  <2>1. Free(t) \in 1 .. (Len(t.pages) + 1) /\ Len(t.pages) \in Nat  BY <1>1, FreePage
  <2>. QED  BY <2>1
<1>. HIDE DEF p
<1>3. /\ DOMAIN w = Fields
      /\ w.data = t.data /\ w.got = t.got /\ w.possible = t.possible
      /\ w.reserved = t.reserved /\ w.error = t.error /\ w.state = t.state
      /\ w.size = t.size /\ w.next = t.next /\ w.left = t.left /\ w.stack = t.stack
      /\ w.pages = <<p>> \o t.pages
      /\ DOMAIN w.nodes = D \cup R
  BY <1>1 DEF WithPage, Fields, p
<1>. HIDE DEF w
<1>4. w.pages \in Seq(Nat) /\ Len(w.pages) = Len(t.pages) + 1
  <2>1. <<p>> \in Seq(Nat) /\ Len(<<p>>) = 1  BY <1>2
  <2>2. <<p>> \o t.pages \in Seq(Nat) /\ Len(<<p>> \o t.pages) = 1 + Len(t.pages)
    BY <1>1, <2>1, Joined
  <2>3. Len(t.pages) \in Nat  BY <1>1
  <2>. QED  BY <1>3, <2>2, <2>3
<1>5. R = Room(<<p, 0>>, count) /\ IsFiniteSet(R) /\ Cardinality(R) = count
  BY <1>2, SlotsRoom
<1>. HIDE DEF D, R
<1>6. IsFiniteSet(D \cup R) /\ Cardinality(D \cup R) <= Cardinality(D) + count
  <2>1. /\ IsFiniteSet(D \cup R)
        /\ Cardinality(D \cup R) = Cardinality(D) + Cardinality(R) - Cardinality(D \cap R)
    BY <1>1, <1>5, FS_Union, Zenon
  <2>2. IsFiniteSet(D \cap R)
    <3>1. D \cap R \in SUBSET D  OBVIOUS
    <3>. QED  BY <1>1, <3>1, FS_Subset
  <2>3. /\ Cardinality(D) \in Nat /\ Cardinality(D \cap R) \in Nat
    BY <1>1, <2>2, FS_CardinalityType
  <2>. QED  BY <1>5, <2>1, <2>3
<1>. QED  BY <1>2, <1>3, <1>4, <1>5, <1>6 DEF p, w, D

(* Where the children of a node go: there is room for them, and they count *)
(* as much as the bytes that were reserved for them                        *)
HasRoom(s, t, P, child, total) ==
    /\ Budget(s, P, total)
    /\ child \in Address /\ Room(child, total) \subseteq DOMAIN s.nodes
    /\ DOMAIN t.nodes \subseteq DOMAIN s.nodes
    /\ s.stack = t.stack /\ s.state = t.state /\ s.error = t.error
    /\ s.reserved = t.reserved /\ s.possible = t.possible

(* Nodes taken from the current page lie in its room *)
LEMMA TakenRoom ==
    ASSUME NEW t, NEW P \in Nat, Budget(t, P, 0), NEW total \in Nat, total <= t.left
    PROVE  HasRoom(Taken(t, total), t, P, t.next, total)
<1>. DEFINE s == Taken(t, total)
<1>1. Typed(t)  BY DEF Budget
<1>2. t.next \in Address /\ t.left \in Nat /\ DOMAIN t = Fields  BY <1>1 DEF Typed
<1>3. /\ DOMAIN s = Fields /\ s.data = t.data /\ s.got = t.got /\ s.possible = t.possible
      /\ s.reserved = t.reserved /\ s.size = t.size /\ s.stack = t.stack
      /\ s.pages = t.pages /\ s.nodes = t.nodes
      /\ s.state = t.state /\ s.error = t.error
      /\ s.next = Advance(t.next, total) /\ s.left = t.left - total
  BY <1>2 DEF Taken, Fields
<1>. HIDE DEF s
<1>4. /\ Room(t.next, total) \subseteq Room(t.next, t.left)
      /\ Advance(t.next, total) \in Address
      /\ Room(Advance(t.next, total), t.left - total) \subseteq Room(t.next, t.left)
  <2>1. total \in 0 .. t.left  BY <1>2
  <2>. QED  BY <1>2, <2>1, RoomPart
<1>5. Room(t.next, t.left) \subseteq DOMAIN t.nodes  BY DEF Budget
<1>6. s.left \in Nat  BY <1>2, <1>3
<1>7. Typed(s)  BY <1>1, <1>3, <1>4, <1>6 DEF Typed
<1>8. setup # "pool" => Cardinality(DOMAIN s.nodes) - s.left
                          <= s.size + P + total + Eighth * Len(s.pages)
  <2>. SUFFICES ASSUME setup # "pool"
                PROVE  Cardinality(DOMAIN s.nodes) - s.left
                          <= s.size + P + total + Eighth * Len(s.pages)
    OBVIOUS
  <2>. DEFINE c == Cardinality(DOMAIN t.nodes)
              e == Eighth * Len(t.pages)
              l == t.left
              z == t.size
  <2>1. c - l <= z + P + 0 + e  BY DEF Budget
  <2>2. c \in Nat /\ z \in Nat  BY <1>1, FS_CardinalityType DEF Typed
  <2>3. e \in Nat
    <3>1. Len(t.pages) \in Nat  BY <1>1 DEF Typed
    <3>2. \A x, y \in Nat : x * y \in Nat  OBVIOUS
    <3>. QED  BY <3>1, <3>2, PageFacts, Zenon
  <2>4. l \in Nat  BY <1>2
  <2>. HIDE DEF c, e, l, z
  <2>5. c - (l - total) <= z + P + total + e  BY <2>1, <2>2, <2>3, <2>4
  <2>. QED  BY <1>3, <2>5 DEF c, e, l, z
<1>9. Budget(s, P, total)
  BY <1>3, <1>4, <1>5, <1>7, <1>8 DEF Budget
<1>. QED  BY <1>2, <1>3, <1>4, <1>5, <1>9 DEF s, HasRoom

(* An eighth more for each page *)
LEMMA OneMorePage == \A l \in Nat : Eighth * l \in Nat /\ Eighth * (l + 1) = Eighth * l + Eighth
<1>1. \A x, l \in Nat : x * l \in Nat /\ x * (l + 1) = x * l + x  OBVIOUS
<1>. QED  BY <1>1, PageFacts, Zenon

(* Children that get a page of their own have room in it *)
LEMMA OwnPageRoom ==
    ASSUME NEW t, NEW P \in Nat, Budget(t, P, 0), setup # "pool", NEW total \in Nat
    PROVE  HasRoom(WithPage(t, total), t, P, <<Free(t), 0>>, total)
<1>. DEFINE s == WithPage(t, total)
            p == Free(t)
<1>1. Typed(t)  BY DEF Budget
<1>2. /\ DOMAIN s = Fields /\ s.data = t.data /\ s.got = t.got /\ s.possible = t.possible
      /\ s.reserved = t.reserved /\ s.size = t.size /\ s.next = t.next /\ s.left = t.left
      /\ s.state = t.state /\ s.error = t.error
      /\ s.stack = t.stack /\ s.pages \in Seq(Nat) /\ Len(s.pages) = Len(t.pages) + 1
      /\ p \in Nat /\ IsFiniteSet(DOMAIN s.nodes)
      /\ DOMAIN s.nodes = DOMAIN t.nodes \cup Room(<<p, 0>>, total)
      /\ Cardinality(DOMAIN s.nodes) <= Cardinality(DOMAIN t.nodes) + total
  BY <1>1, PageAdded
<1>. HIDE DEF s, p
<1>3. <<p, 0>> \in Address  BY <1>2 DEF Address
<1>4. Typed(s)  BY <1>1, <1>2 DEF Typed
<1>5. Cardinality(DOMAIN s.nodes) - s.left <= s.size + P + total + Eighth * Len(s.pages)
  <2>. DEFINE c == Cardinality(DOMAIN t.nodes)
              d == Cardinality(DOMAIN s.nodes)
              e == Eighth * Len(t.pages)
              f == Eighth * Len(s.pages)
              l == t.left
              z == t.size
  <2>1. c - l <= z + P + 0 + e  BY DEF Budget
  <2>2. c \in Nat /\ d \in Nat /\ z \in Nat /\ l \in Nat
    BY <1>1, <1>2, FS_CardinalityType DEF Typed
  <2>3. e \in Nat /\ f = e + Eighth
    <3>1. Len(t.pages) \in Nat  BY <1>1 DEF Typed
    <3>. QED  BY <1>2, <3>1, OneMorePage
  <2>4. d <= c + total /\ s.left = l /\ s.size = z  BY <1>2
  <2>. HIDE DEF c, d, e, f, l, z
  <2>5. d - l <= z + P + total + f  BY <2>1, <2>2, <2>3, <2>4, PageFacts
  <2>. QED  BY <2>4, <2>5 DEF d, f
<1>6. \A i \in DOMAIN s.stack : Room(s.stack[i].child, s.stack[i].left) \subseteq DOMAIN s.nodes
  BY <1>2 DEF Budget
<1>7. Room(s.next, s.left) \subseteq DOMAIN s.nodes  BY <1>2 DEF Budget
<1>8. Len(s.data) = s.size + P + s.possible  BY <1>2 DEF Budget
<1>9. Budget(s, P, total)  BY <1>4, <1>5, <1>6, <1>7, <1>8 DEF Budget
<1>. QED  BY <1>2, <1>3, <1>9 DEF s, p, HasRoom

(* A new current page, once little is left of the one before *)
LEMMA NewPageRoom ==
    ASSUME NEW t, NEW P \in Nat, Budget(t, P, 0), setup # "pool",
           NEW total \in Nat, total <= PageNodes, t.left <= Eighth
    PROVE  HasRoom(NewPage(t, total), t, P, <<Free(t), 0>>, total)
<1>. DEFINE w == WithPage(t, PageNodes)
            s == NewPage(t, total)
            p == Free(t)
<1>1. Typed(t)  BY DEF Budget
<1>2. /\ DOMAIN w = Fields /\ w.data = t.data /\ w.got = t.got /\ w.possible = t.possible
      /\ w.reserved = t.reserved /\ w.size = t.size
      /\ w.state = t.state /\ w.error = t.error
      /\ w.stack = t.stack /\ w.pages \in Seq(Nat) /\ Len(w.pages) = Len(t.pages) + 1
      /\ p \in Nat /\ IsFiniteSet(DOMAIN w.nodes)
      /\ DOMAIN w.nodes = DOMAIN t.nodes \cup Room(<<p, 0>>, PageNodes)
      /\ Cardinality(DOMAIN w.nodes) <= Cardinality(DOMAIN t.nodes) + PageNodes
  BY <1>1, PageFacts, PageAdded
<1>3. s = [w EXCEPT !.next = <<p, total>>, !.left = PageNodes - total]
  BY DEF NewPage
<1>. HIDE DEF w, p, s
<1>4. /\ DOMAIN s = Fields /\ s.data = w.data /\ s.got = w.got /\ s.possible = w.possible
      /\ s.reserved = w.reserved /\ s.size = w.size /\ s.stack = w.stack
      /\ s.pages = w.pages /\ s.nodes = w.nodes
      /\ s.state = w.state /\ s.error = w.error
      /\ s.next = <<p, total>> /\ s.left = PageNodes - total
  BY <1>2, <1>3 DEF Fields
<1>5. <<p, 0>> \in Address /\ <<p, total>> \in Address  BY <1>2 DEF Address
<1>6. PageNodes - total \in Nat  BY PageFacts
<1>7. /\ Room(<<p, 0>>, total) \subseteq Room(<<p, 0>>, PageNodes)
      /\ Room(<<p, total>>, PageNodes - total) \subseteq Room(<<p, 0>>, PageNodes)
  <2>1. total \in 0 .. PageNodes  BY PageFacts
  <2>2. Advance(<<p, 0>>, total) = <<p, total>>  BY DEF Advance
  <2>. QED  BY <1>5, <2>1, <2>2, PageFacts, RoomPart
<1>8. Typed(s)  BY <1>1, <1>2, <1>4, <1>5, <1>6 DEF Typed
<1>9. Cardinality(DOMAIN s.nodes) - s.left <= s.size + P + total + Eighth * Len(s.pages)
  <2>. DEFINE c == Cardinality(DOMAIN t.nodes)
              d == Cardinality(DOMAIN s.nodes)
              e == Eighth * Len(t.pages)
              f == Eighth * Len(s.pages)
              l == t.left
              z == t.size
  <2>1. c - l <= z + P + 0 + e  BY DEF Budget
  <2>2. c \in Nat /\ d \in Nat /\ z \in Nat /\ l \in Nat
    BY <1>1, <1>2, <1>4, FS_CardinalityType DEF Typed
  <2>3. e \in Nat /\ f = e + Eighth
    <3>1. Len(t.pages) \in Nat  BY <1>1 DEF Typed
    <3>. QED  BY <1>2, <1>4, <3>1, OneMorePage
  <2>4. d <= c + PageNodes /\ s.left = PageNodes - total /\ s.size = z /\ l <= Eighth
    BY <1>2, <1>4
  <2>. HIDE DEF c, d, e, f, l, z
  <2>5. d - (PageNodes - total) <= z + P + total + f
    BY <2>1, <2>2, <2>3, <2>4, PageFacts
  <2>. QED  BY <2>4, <2>5 DEF d, f
<1>10. \A i \in DOMAIN s.stack : Room(s.stack[i].child, s.stack[i].left) \subseteq DOMAIN s.nodes
  BY <1>2, <1>4 DEF Budget
<1>11. Room(s.next, s.left) \subseteq DOMAIN s.nodes  BY <1>2, <1>4, <1>7
<1>12. Len(s.data) = s.size + P + s.possible  BY <1>2, <1>4 DEF Budget
<1>13. Budget(s, P, total)  BY <1>8, <1>9, <1>10, <1>11, <1>12 DEF Budget
<1>. QED  BY <1>2, <1>4, <1>5, <1>7, <1>13 DEF s, p, HasRoom

-----------------------------------------------------------------------------
(* A node *)

(* While node a of tree t is parsed *)
Along(s, t, P, a) ==
    /\ Balanced(s, P, 0)
    /\ s.stack = t.stack /\ s.state = t.state /\ s.error = "ok"
    /\ a \in DOMAIN s.nodes

(* When it has been: C more nodes are to come, for which there are bytes *)
Parsed(s, t, P, a) ==
    /\ \E C \in Nat : Balanced(s, P, C) /\ C <= s.reserved /\ ChildBytes(s.nodes[a]) = C
    /\ s.reserved <= s.possible
    /\ Len(t.stack) \in DOMAIN s.stack /\ s.stack[Len(t.stack)] = t.stack[Len(t.stack)]
    /\ s.state = t.state /\ s.error = "ok"

Outcome(o, t, P, a) == \/ Halted(o)
                       \/ ~o.ok /\ Along(o.t, t, P, a)
                       \/ o.ok /\ Parsed(o.t, t, P, a)

(* A tree like one that goes along goes along as well *)
LEMMA LikeAlong ==
    ASSUME NEW r, NEW s, NEW t, NEW P \in Nat, NEW a, Along(s, t, P, a), Like(r, s)
    PROVE  Along(r, t, P, a)
<1>1. Budget(r, P, 0)  BY LikeBudget DEF Along, Balanced
<1>. QED  BY <1>1 DEF Along, Like, Balanced, Comes

(* A node that is put is the one at its place, and the tree is like before *)
LEMMA PutLike ==
    ASSUME NEW t, Typed(t), NEW a \in DOMAIN t.nodes, NEW node
    PROVE  /\ Like(Put(t, a, node), t) /\ Put(t, a, node).nodes[a] = node
           /\ Put(t, a, node).reserved = t.reserved
           /\ Put(t, a, node).possible = t.possible
BY DEF Put, Like, Typed, Fields

(* A reservation goes along with its parse *)
LEMMA ReserveAlong ==
    ASSUME NEW s, NEW t, NEW P \in Nat, NEW a, Along(s, t, P, a), stream \in Streams,
           NEW bytes \in Nat, NEW o \in Reserve(s, bytes)
    PROVE  \/ Halted(o)
           \/ /\ Along(o.t, t, P, a) /\ o.t.nodes = s.nodes
              /\ o.ok => o.t.reserved = s.reserved + bytes /\ o.t.reserved <= o.t.possible
<1>1. Typed(s)  BY DEF Along, Balanced, Budget
<1>2. Reserved(o, s, bytes)  BY <1>1, ReserveReserves
<1>. QED  BY <1>2, LikeAlong DEF Reserved, Grew

(* The children of a node that are put where there is room for them *)
LEMMA PlacedOutcome ==
    ASSUME NEW u, NEW s, NEW t, NEW P \in Nat, NEW a, NEW child, NEW total \in Nat, NEW node,
           Along(s, t, P, a), t.stack \in Seq(Level) \ {<< >>},
           HasRoom(u, s, P, child, total),
           total <= s.reserved, s.reserved <= s.possible,
           ChildBytes([node EXCEPT !.child = child]) = total
    PROVE  \A o \in Placed(u, a, node, child, total) : Outcome(o, t, P, a)
<1>. DEFINE n == [node EXCEPT !.child = child]
            v == Put(u, a, n)
            level == [child |-> child, left |-> total]
            pushed == [v EXCEPT !.stack = Append(@, level)]
            moved == [pushed EXCEPT !.room = 2 * @, !.owned = TRUE, !.heap = @ \cup {Stack}]
<1>1. Typed(u) /\ Budget(u, P, total) /\ a \in DOMAIN u.nodes
  BY DEF HasRoom, Budget, Along
<1>2. /\ Like(v, u) /\ v.nodes[a] = n
      /\ v.reserved = s.reserved /\ v.possible = s.possible
  BY <1>1, PutLike DEF HasRoom
<1>3. \A o \in Placed(u, a, node, child, total) :
         \/ o = Went(v) /\ total = 0
         \/ o = Went(pushed)
         \/ o = Went(moved)
         \/ o \in Failed(v, "memory")
  BY DEF Placed, PushStack
<1>. HIDE DEF n, v
<1>4. Budget(v, P, total)  BY <1>1, <1>2, LikeBudget
<1>5. /\ v.stack = t.stack /\ v.state = t.state /\ v.error = "ok" /\ DOMAIN v = Fields
      /\ Room(child, total) \subseteq DOMAIN v.nodes /\ child \in Address
  BY <1>2 DEF Like, HasRoom, Along
<1>6. /\ IsFiniteSet(Coming(t.stack)) /\ Cardinality(Coming(t.stack)) = P
      /\ Len(t.stack) \in DOMAIN t.stack
  <2>1. Comes(s, P + 0) /\ s.stack = t.stack  BY DEF Along, Balanced
  <2>. QED  BY <2>1 DEF Comes
<1>7. ASSUME total = 0  PROVE Parsed(v, t, P, a)
  <2>1. Balanced(v, P, 0)  BY <1>4, <1>5, <1>6, <1>7 DEF Balanced, Comes
  <2>. QED  BY <1>2, <1>5, <1>6, <1>7, <2>1 DEF Parsed, n
<1>8. ASSUME NEW w, DOMAIN w = Fields, w.stack = Append(t.stack, level),
             \A f \in Fields \ {"stack", "room", "owned", "heap"} : w[f] = v[f]
      PROVE  Parsed(w, t, P, a)
  <2>1. /\ w.data = v.data /\ w.got = v.got /\ w.size = v.size /\ w.possible = v.possible
        /\ w.reserved = v.reserved /\ w.next = v.next /\ w.left = v.left /\ w.pages = v.pages
        /\ w.nodes = v.nodes /\ w.state = v.state /\ w.error = v.error
    BY <1>8 DEF Fields
  <2>2. level \in Level /\ level.child = child /\ level.left = total  BY <1>5 DEF Level
  <2>. HIDE DEF level
  <2>3. /\ w.stack \in Seq(Level) /\ DOMAIN w.stack = 1 .. (Len(t.stack) + 1)
        /\ w.stack[Len(t.stack) + 1] = level
        /\ DOMAIN t.stack = 1 .. Len(t.stack) /\ Len(t.stack) \in Nat
        /\ \A i \in DOMAIN t.stack : w.stack[i] = t.stack[i]
    BY <1>8, <2>2
  <2>4. IsFiniteSet(Coming(w.stack)) /\ Cardinality(Coming(w.stack)) = P + total
    BY <1>6, <1>8, <2>2, ComingPushed
  <2>5. \A i \in DOMAIN w.stack : Room(w.stack[i].child, w.stack[i].left) \subseteq DOMAIN w.nodes
    <3>1. \A i \in DOMAIN t.stack : Room(t.stack[i].child, t.stack[i].left) \subseteq DOMAIN v.nodes
      BY <1>4, <1>5 DEF Budget
    <3>2. \A i \in DOMAIN w.stack : i = Len(t.stack) + 1 \/ i \in DOMAIN t.stack
      BY <2>3
    <3>. QED  BY <1>5, <2>1, <2>2, <2>3, <3>1, <3>2
  <2>6. Typed(w)  BY <1>4, <1>8, <2>1, <2>3 DEF Budget, Typed
  <2>7. Budget(w, P, total)  BY <1>4, <2>1, <2>5, <2>6 DEF Budget
  <2>8. Balanced(w, P, total)  BY <2>4, <2>7 DEF Balanced, Comes
  <2>9. Len(t.stack) \in DOMAIN w.stack  BY <1>6, <2>3
  <2>. QED  BY <1>2, <1>5, <1>6, <2>1, <2>3, <2>8, <2>9 DEF Parsed, n
<1>9. /\ DOMAIN pushed = Fields /\ pushed.stack = Append(t.stack, level)
      /\ \A f \in Fields \ {"stack", "room", "owned", "heap"} : pushed[f] = v[f]
  BY <1>5 DEF Fields
<1>10. /\ DOMAIN moved = Fields /\ moved.stack = Append(t.stack, level)
       /\ \A f \in Fields \ {"stack", "room", "owned", "heap"} : moved[f] = v[f]
  BY <1>5 DEF Fields
<1>11. Parsed(pushed, t, P, a)
  <2>. HIDE DEF pushed, level
  <2>. QED  BY <1>8, <1>9
<1>12. Parsed(moved, t, P, a)
  <2>. HIDE DEF moved, level
  <2>. QED  BY <1>8, <1>10
<1>13. \A o \in Failed(v, "memory") : Halted(o)  BY <1>5, FailedHalts
<1>. HIDE DEF pushed, moved
<1>. QED  BY <1>3, <1>7, <1>11, <1>12, <1>13 DEF Outcome, Went

(* The children of a node have room, or the parse fails *)
LEMMA PlaceOutcome ==
    ASSUME NEW s, NEW t, NEW P \in Nat, NEW a, NEW total \in Nat, NEW node,
           Along(s, t, P, a), t.stack \in Seq(Level) \ {<< >>},
           total <= s.reserved, s.reserved <= s.possible,
           \A child : ChildBytes([node EXCEPT !.child = child]) = total
    PROVE  \A o \in Place(s, a, node, total) : Outcome(o, t, P, a)
<1>1. Budget(s, P, 0) /\ Typed(s)  BY DEF Along, Balanced, Budget
<1>2. ASSUME NEW u, NEW child, HasRoom(u, s, P, child, total)
      PROVE  \A o \in Placed(u, a, node, child, total) : Outcome(o, t, P, a)
  BY <1>2, PlacedOutcome
<1>3. CASE total <= s.left
  <2>1. HasRoom(Taken(s, total), s, P, s.next, total)  BY <1>1, <1>3, TakenRoom
  <2>. QED  BY <1>2, <1>3, <2>1 DEF Place
<1>4. CASE ~(total <= s.left) /\ s.pages = << >>
  BY <1>1, <1>4, FailedHalts DEF Place, Outcome, Typed
<1>5. CASE ~(total <= s.left) /\ s.pages # << >>
  <2>1. setup # "pool"  BY <1>1, <1>5 DEF Typed
  <2>2. \A o \in Failed(s, "memory") : Outcome(o, t, P, a)
    BY <1>1, FailedHalts DEF Outcome, Typed
  <2>3. CASE total > PageNodes \/ s.left > PageNodes \div 8
    <3>1. HasRoom(WithPage(s, total), s, P, <<Free(s), 0>>, total)
      BY <1>1, <2>1, OwnPageRoom
    <3>. QED  BY <1>2, <1>5, <2>2, <2>3, <3>1 DEF Place
  <2>4. CASE ~(total > PageNodes \/ s.left > PageNodes \div 8)
    <3>1. total <= PageNodes /\ s.left <= Eighth
      BY <1>1, <2>4, PageFacts DEF Eighth, Typed
    <3>2. HasRoom(NewPage(s, total), s, P, <<Free(s), 0>>, total)
      BY <1>1, <2>1, <3>1, NewPageRoom
    <3>. QED  BY <1>2, <1>5, <2>2, <2>4, <3>2 DEF Place
  <2>. QED  BY <2>3, <2>4
<1>. QED  BY <1>3, <1>4, <1>5

(* A container speaks for a byte of each child *)
LEMMA ChildrenOutcome ==
    ASSUME NEW s, NEW t, NEW P \in Nat, NEW a, NEW total \in Nat, NEW node,
           Along(s, t, P, a), t.stack \in Seq(Level) \ {<< >>}, stream \in Streams,
           \A child : ChildBytes([node EXCEPT !.child = child]) = total
    PROVE  \A o \in Children(s, a, node, total) : Outcome(o, t, P, a)
<1>1. Typed(s)  BY DEF Along, Balanced, Budget
<1>2. CASE total > SizeMax
  BY <1>1, <1>2, FailedHalts DEF Children, Outcome, Typed
<1>3. CASE ~(total > SizeMax)
  <2>1. ASSUME NEW r \in Reserve(s, total), NEW o \in After(r, Place(r.t, a, node, total))
        PROVE  Outcome(o, t, P, a)
    <3>1. \/ Halted(r)
          \/ /\ Along(r.t, t, P, a)
             /\ r.ok => r.t.reserved = s.reserved + total /\ r.t.reserved <= r.t.possible
      BY <2>1, ReserveAlong
    <3>2. CASE ~r.ok  BY <2>1, <3>1, <3>2 DEF After, Outcome, Halted
    <3>3. CASE r.ok
      <4>1. Along(r.t, t, P, a) /\ r.t.reserved <= r.t.possible  BY <3>1, <3>3 DEF Halted
      <4>2. total <= r.t.reserved
        <5>1. r.t.reserved = s.reserved + total /\ s.reserved \in Nat
          BY <1>1, <3>1, <3>3 DEF Halted, Typed
        <5>. QED  BY <5>1
      <4>3. \A q \in Place(r.t, a, node, total) : Outcome(q, t, P, a)
        BY <4>1, <4>2, PlaceOutcome
      <4>. QED  BY <2>1, <3>3, <4>3 DEF After
    <3>. QED  BY <3>2, <3>3
  <2>. QED  BY <1>3, <2>1 DEF Children
<1>. QED  BY <1>2, <1>3

(* A node without children *)
LEMMA LeafOutcome ==
    ASSUME NEW s, NEW t, NEW P \in Nat, NEW a, Along(s, t, P, a),
           t.stack \in Seq(Level) \ {<< >>},
           ChildBytes(s.nodes[a]) = 0, s.reserved <= s.possible
    PROVE  Parsed(s, t, P, a)
<1>1. Balanced(s, P, 0) /\ s.reserved \in Nat  BY DEF Along, Balanced, Budget, Typed
<1>2. 0 \in Nat /\ 0 <= s.reserved  BY <1>1
<1>3. Len(t.stack) \in DOMAIN t.stack  OBVIOUS
<1>. QED  BY <1>1, <1>2, <1>3 DEF Parsed, Along

(* A node with bytes holds them *)
LEMMA BytesOutcome ==
    ASSUME NEW s, NEW t, NEW P \in Nat, NEW a, NEW node, node.len \in Nat,
           Along(s, t, P, a), t.stack \in Seq(Level) \ {<< >>}, stream \in Streams,
           \A n : ChildBytes([node EXCEPT !.n = n]) = 0
    PROVE  \A o \in Bytes(s, a, node) : Outcome(o, t, P, a)
<1>. DEFINE n == [node EXCEPT !.n = s.size + s.reserved + 1]
            v == Put(s, a, n)
<1>1. Typed(s) /\ a \in DOMAIN s.nodes  BY DEF Along, Balanced, Budget
<1>2. Like(v, s) /\ v.nodes[a] = n  BY <1>1, PutLike
<1>3. ChildBytes(n) = 0  OBVIOUS
<1>4. Bytes(s, a, node) = Reserve(v, node.len)  BY DEF Bytes
<1>. HIDE DEF v, n
<1>5. Along(v, t, P, a)  BY <1>2, LikeAlong
<1>6. ASSUME NEW o \in Reserve(v, node.len)  PROVE Outcome(o, t, P, a)
  <2>1. \/ Halted(o)
        \/ /\ Along(o.t, t, P, a) /\ o.t.nodes = v.nodes
           /\ o.ok => o.t.reserved <= o.t.possible
    BY <1>5, ReserveAlong
  <2>2. CASE Halted(o)  BY <2>2 DEF Outcome
  <2>3. CASE ~Halted(o)
    <3>1. o.ok => Parsed(o.t, t, P, a)
      BY <1>2, <1>3, <2>1, <2>3, LeafOutcome
    <3>. QED  BY <2>1, <2>3, <3>1 DEF Outcome
  <2>. QED  BY <2>2, <2>3
<1>. QED  BY <1>4, <1>6

(* The contents of a node by its kind *)
LEMMA ContentsOutcome ==
    ASSUME NEW s, NEW t, NEW P \in Nat, NEW a, NEW type, NEW n,
           type \in Containers => n \in Nat,
           Along(s, t, P, a), t.stack \in Seq(Level) \ {<< >>}, stream \in Streams,
           s.reserved <= s.possible
    PROVE  \A o \in Contents(s, a, type, n) : Outcome(o, t, P, a)
<1>1. Typed(s) /\ a \in DOMAIN s.nodes  BY DEF Along, Balanced, Budget
<1>2. CASE type = "array"
  <2>1. n \in Nat  BY <1>2 DEF Containers
  <2>2. \A c : ChildBytes([Node(type, n, 0) EXCEPT !.child = c]) = n  BY <1>2 DEF ChildBytes, Node, Blank
  <2>3. Contents(s, a, type, n) = Children(s, a, Node(type, n, 0), n)
    BY <1>2 DEF Contents
  <2>. QED  BY <2>1, <2>2, <2>3, ChildrenOutcome
<1>3. CASE type = "map"
  <2>1. n \in Nat  BY <1>3 DEF Containers
  <2>2. 2 * n \in Nat  BY <2>1
  <2>3. \A c : ChildBytes([Node(type, n, 0) EXCEPT !.child = c]) = 2 * n
    BY <1>3 DEF ChildBytes, Node, Blank
  <2>4. Contents(s, a, type, n) = Children(s, a, Node(type, n, 0), 2 * n)
    BY <1>3 DEF Contents
  <2>. QED  BY <2>2, <2>3, <2>4, ChildrenOutcome
<1>4. CASE type \in {"str", "bin"}
  <2>1. Node(type, n, 0).len \in Nat
    BY <1>4 DEF Containers, Node, Blank
  <2>2. \A m : ChildBytes([Node(type, n, 0) EXCEPT !.n = m]) = 0
    <3>1. type \notin {"array", "map"}  BY <1>4
    <3>. QED  BY <3>1 DEF ChildBytes, Node, Blank
  <2>3. Contents(s, a, type, n) = Bytes(s, a, Node(type, n, 0))
    BY <1>4 DEF Contents
  <2>. QED  BY <2>1, <2>2, <2>3, BytesOutcome
<1>5. CASE type = "ext"
  <2>. DEFINE r == [s EXCEPT !.reserved = @ + 1]
  <2>1. Like(r, s)
    <3>1. s.reserved + 1 \in Nat  BY <1>1 DEF Typed
    <3>. QED  BY <1>1, <3>1 DEF Like, Typed, Fields
  <2>2. Node(type, n, 0).len \in Nat
    BY <1>5 DEF Containers, Node, Blank
  <2>3. \A m : ChildBytes([Node(type, n, 0) EXCEPT !.n = m]) = 0
    <3>1. type \notin {"array", "map"}  BY <1>5
    <3>. QED  BY <3>1 DEF ChildBytes, Node, Blank
  <2>4. Contents(s, a, type, n) = Bytes(r, a, Node(type, n, 0))
    BY <1>5 DEF Contents, ExtBytes
  <2>. HIDE DEF r
  <2>5. Along(r, t, P, a)  BY <2>1, LikeAlong
  <2>. QED  BY <2>2, <2>3, <2>4, <2>5, BytesOutcome
<1>6. CASE type \notin {"array", "map", "str", "bin", "ext"}
  <2>. DEFINE v == Put(s, a, Node(type, 0, n))
  <2>1. Contents(s, a, type, n) = {Went(v)}  BY <1>6 DEF Contents
  <2>2. /\ Like(v, s) /\ v.nodes[a] = Node(type, 0, n)
        /\ v.reserved = s.reserved /\ v.possible = s.possible
    BY <1>1, PutLike
  <2>. HIDE DEF v
  <2>3. Along(v, t, P, a)  BY <2>2, LikeAlong
  <2>4. ChildBytes(v.nodes[a]) = 0  BY <1>6, <2>2 DEF ChildBytes, Node, Blank
  <2>5. Parsed(v, t, P, a)  BY <2>2, <2>3, <2>4, LeafOutcome
  <2>. QED  BY <2>1, <2>5 DEF Outcome, Went
<1>. QED  BY <1>2, <1>3, <1>4, <1>5, <1>6

(* The number of a tag is read from bytes that are there, or from what is  *)
(* left of a buffer that has moved                                         *)
LEMMA NumberOutcome ==
    ASSUME NEW o, NEW t, NEW P \in Nat \ {0}, NEW a, NEW first \in StreamByte,
           first.t # "byte", o.ok,
           Along(o.t, t, P, a), t.stack \in Seq(Level) \ {<< >>}, stream \in Streams,
           Width[first.t] <= o.t.possible, o.t.reserved <= o.t.possible
    PROVE  \A r \in ReadNumber(o, a, first) : Outcome(r, t, P, a)
<1>. DEFINE s == [o.t EXCEPT !.stale = @ \/ o.moved]
            w == Width[first.t]
            digits == NumberBytes(o.t, first)
<1>1. Typed(o.t) /\ Len(o.t.data) = o.t.size + P + o.t.possible
  BY DEF Along, Balanced, Budget
<1>2. Like(s, o.t) /\ s.reserved = o.t.reserved /\ s.possible = o.t.possible
  BY <1>1 DEF Like, Typed, Fields
<1>3. w \in Nat
  <2>1. first.t \in DOMAIN Width  BY DEF StreamByte
  <2>. QED  BY <2>1, Widths
<1>4. digits \in Seq(StreamByte) /\ Len(digits) = w
  <2>. DEFINE d == o.t.data
              z == o.t.size
              l == Len(d)
  <2>1. d \in Seq(StreamByte) /\ z \in Nat /\ o.t.possible \in Nat  BY <1>1 DEF Typed
  <2>2. l \in Nat /\ l = z + P + o.t.possible  BY <1>1, <2>1
  <2>. HIDE DEF l
  <2>3. z + 1 + w <= l  BY <1>3, <2>1, <2>2
  <2>4. digits = SubSeq(d, z + 2, z + 1 + w)  BY DEF NumberBytes
  <2>5. \A q \in Seq(StreamByte) : \A i, k \in Nat :
           i + 1 + k <= Len(q) => /\ SubSeq(q, i + 2, i + 1 + k) \in Seq(StreamByte)
                                  /\ Len(SubSeq(q, i + 2, i + 1 + k)) = k
    OBVIOUS
  <2>. HIDE DEF d, z, w, digits
  <2>6. z + 1 + w <= Len(d)  BY <2>3 DEF l
  <2>. QED  BY <1>3, <2>1, <2>4, <2>5, <2>6, Zenon DEF z
<1>5. ASSUME NEW n \in Numbers(o, first), TypeOf(first) \in Containers  PROVE n \in Nat
  <2>1. CASE n \in Garbage  BY <2>1, GarbageAssumption
  <2>2. CASE n = TagNumber(first, digits)  BY <1>4, <1>5, <2>2, CountType
  <2>. QED  BY <2>1, <2>2 DEF Numbers
<1>6. \A r \in ReadNumber(o, a, first) :
         \E n \in Numbers(o, first) : r \in Contents(s, a, TypeOf(first), n)
  BY DEF ReadNumber
<1>. HIDE DEF s, digits
<1>7. Along(s, t, P, a)  BY <1>2, LikeAlong
<1>. QED  BY <1>2, <1>5, <1>6, <1>7, ContentsOutcome

(* The contents of a node whose tag is held *)
LEMMA ParseContentsOutcome ==
    ASSUME NEW s, NEW t, NEW P \in Nat \ {0}, NEW a, NEW first \in StreamByte, first.t # "byte",
           Along(s, t, P, a), t.stack \in Seq(Level) \ {<< >>}, stream \in Streams,
           s.reserved = 0
    PROVE  \A o \in ParseContents(s, a, first) : Outcome(o, t, P, a)
<1>1. Typed(s)  BY DEF Along, Balanced, Budget
<1>2. CASE first.t = "reserved"
  BY <1>1, <1>2, FailedHalts DEF ParseContents, Outcome, Typed
<1>3. CASE first.t # "reserved" /\ Width[first.t] = 0
  <2>1. s.possible \in Nat  BY <1>1 DEF Typed
  <2>2. Went(s).t = s /\ Went(s).ok  BY DEF Went
  <2>3. Width[first.t] <= s.possible /\ s.reserved <= s.possible  BY <1>3, <2>1
  <2>4. ParseContents(s, a, first) = ReadNumber(Went(s), a, first)  BY <1>3 DEF ParseContents
  <2>. QED  BY <2>2, <2>3, <2>4, NumberOutcome
<1>4. CASE first.t # "reserved" /\ Width[first.t] # 0
  <2>1. Width[first.t] \in Nat
    <3>1. first.t \in DOMAIN Width  BY DEF StreamByte
    <3>. QED  BY <3>1, Widths
  <2>2. ASSUME NEW r \in Reserve(s, Width[first.t]), NEW o \in After(r, ReadNumber(r, a, first))
        PROVE  Outcome(o, t, P, a)
    <3>1. \/ Halted(r)
          \/ /\ Along(r.t, t, P, a)
             /\ r.ok => r.t.reserved = s.reserved + Width[first.t] /\ r.t.reserved <= r.t.possible
      BY <2>1, <2>2, ReserveAlong
    <3>2. CASE ~r.ok  BY <2>2, <3>1, <3>2 DEF After, Outcome, Halted
    <3>3. CASE r.ok
      <4>1. /\ Along(r.t, t, P, a) /\ r.t.reserved <= r.t.possible
            /\ r.t.reserved = 0 + Width[first.t]
        BY <3>1, <3>3 DEF Halted
      <4>2. Width[first.t] <= r.t.possible  BY <2>1, <4>1
      <4>3. \A q \in ReadNumber(r, a, first) : Outcome(q, t, P, a)
        BY <3>3, <4>1, <4>2, NumberOutcome
      <4>. QED  BY <2>2, <3>3, <4>3 DEF After
    <3>. QED  BY <3>2, <3>3
  <2>. QED  BY <1>4, <2>2 DEF ParseContents
<1>. QED  BY <1>2, <1>3, <1>4

-----------------------------------------------------------------------------
(* One turn of the loop *)

(* The tag that a byte begins is no bare byte *)
LEMMA TagByte ==
    ASSUME NEW byte \in StreamByte
    PROVE  AsTag(byte) \in StreamByte /\ AsTag(byte).t # "byte"
<1>1. byte.n \in Int /\ byte.t \in DOMAIN Width \cup {"byte"}  BY DEF StreamByte
<1>2. "byte" \notin DOMAIN Width /\ "fixint" \in DOMAIN Width  BY DEF Width
<1>3. CASE byte.t = "byte"
  <2>1. First("fixint", byte.n) \in [t : DOMAIN Width \cup {"byte"}, n : Int]
    BY <1>1, <1>2 DEF First
  <2>2. First("fixint", byte.n).t = "fixint"  BY DEF First
  <2>. QED  BY <1>3, <2>1, <2>2 DEF AsTag, StreamByte
<1>4. CASE byte.t # "byte"  BY <1>4 DEF AsTag
<1>. QED  BY <1>3, <1>4

(* The children of a node that has been parsed take its place *)
LEMMA CountedBalance ==
    ASSUME NEW s, NEW t, NEW P \in Nat \ {0}, NEW a, Parsed(s, t, P, a)
    PROVE  LET c == Counted(s, a).t
           IN  /\ \E N \in Nat : Budget(c, N, 0) /\ Comes(c, N + 1)
               /\ c.stack = s.stack /\ c.state = s.state /\ c.error = s.error
<1>. DEFINE c == Counted(s, a).t
<1>1. PICK C \in Nat : Balanced(s, P, C) /\ C <= s.reserved /\ ChildBytes(s.nodes[a]) = C
  BY DEF Parsed
<1>2. Typed(s) /\ DOMAIN s = Fields /\ s.size \in Nat /\ s.possible \in Nat /\ s.reserved \in Nat
      /\ s.reserved <= s.possible
  BY <1>1 DEF Balanced, Budget, Typed, Parsed
<1>3. /\ DOMAIN c = Fields /\ c.data = s.data /\ c.got = s.got /\ c.reserved = s.reserved
      /\ c.next = s.next /\ c.left = s.left /\ c.stack = s.stack /\ c.pages = s.pages
      /\ c.nodes = s.nodes /\ c.state = s.state /\ c.error = s.error
      /\ c.possible = s.possible - s.reserved
      /\ c.size = s.size + (s.reserved + 1 - C)
  <2>1. \A x, y, z \in Nat : x + y + 1 - z = x + (y + 1 - z)  OBVIOUS
  <2>2. /\ DOMAIN c = Fields /\ c.data = s.data /\ c.got = s.got /\ c.reserved = s.reserved
        /\ c.next = s.next /\ c.left = s.left /\ c.stack = s.stack /\ c.pages = s.pages
        /\ c.nodes = s.nodes /\ c.state = s.state /\ c.error = s.error
        /\ c.possible = s.possible - s.reserved
        /\ c.size = s.size + s.reserved + 1 - C
    BY <1>1, <1>2 DEF Counted, Went, Fields
  <2>3. s.size + s.reserved + 1 - C = s.size + (s.reserved + 1 - C)
    BY <1>2, <2>1, Zenon
  <2>. QED  BY <2>2, <2>3
<1>. HIDE DEF c
<1>. DEFINE N == P + C - 1
<1>4. N \in Nat /\ N + 1 = P + C  OBVIOUS
<1>5. c.possible \in Nat /\ c.size \in Nat  BY <1>1, <1>2, <1>3
<1>6. Typed(c)  BY <1>2, <1>3, <1>5 DEF Typed
<1>7. Len(c.data) = c.size + N + c.possible
  <2>. DEFINE l == Len(s.data)
              x == s.possible
              y == s.reserved
              z == s.size
  <2>1. x \in Nat /\ y \in Nat /\ z \in Nat /\ l = z + P + x
    BY <1>1, <1>2 DEF Balanced, Budget
  <2>2. Len(c.data) = l /\ c.possible = x - y /\ c.size = z + (y + 1 - C)  BY <1>3
  <2>. HIDE DEF l, x, y, z
  <2>3. l = (z + (y + 1 - C)) + N + (x - y)  BY <2>1
  <2>. QED  BY <2>2, <2>3
<1>8. setup # "pool" => Cardinality(DOMAIN c.nodes) - c.left
                          <= c.size + N + 0 + Eighth * Len(c.pages)
  <2>. SUFFICES ASSUME setup # "pool"
                PROVE  Cardinality(DOMAIN c.nodes) - c.left
                          <= c.size + N + 0 + Eighth * Len(c.pages)
    OBVIOUS
  <2>. DEFINE d == Cardinality(DOMAIN s.nodes)
              e == Eighth * Len(s.pages)
              l == s.left
              y == s.reserved
              z == s.size
  <2>1. d - l <= z + P + C + e  BY <1>1 DEF Balanced, Budget
  <2>2. d \in Nat /\ l \in Nat /\ y \in Nat /\ z \in Nat
    BY <1>2, FS_CardinalityType DEF Typed
  <2>3. e \in Nat
    <3>1. Len(s.pages) \in Nat  BY <1>2 DEF Typed
    <3>. QED  BY <3>1, OneMorePage
  <2>4. C <= y  BY <1>1
  <2>5. Cardinality(DOMAIN c.nodes) = d /\ c.left = l /\ c.size = z + (y + 1 - C)
        /\ Eighth * Len(c.pages) = e
    BY <1>3
  <2>. HIDE DEF d, e, l, y, z
  <2>6. d - l <= (z + (y + 1 - C)) + N + 0 + e  BY <2>1, <2>2, <2>3, <2>4
  <2>. HIDE DEF N
  <2>. QED  BY <2>5, <2>6
<1>. HIDE DEF N
<1>9. Budget(c, N, 0)
  BY <1>1, <1>3, <1>6, <1>7, <1>8 DEF Balanced, Budget
<1>10. Comes(c, N + 1)  BY <1>1, <1>3, <1>4 DEF Balanced, Comes
<1>. QED  BY <1>3, <1>4, <1>9, <1>10 DEF c

(* The children of a level: one is parsed, and the empty levels are popped *)
LEMMA ChildParsedBalance ==
    ASSUME NEW c, NEW N \in Nat, Budget(c, N, 0), Comes(c, N + 1),
           NEW level \in DOMAIN c.stack, c.stack[level].left >= 1
    PROVE  LET r == ChildParsed(c, level).t
           IN  /\ Balanced(r, N, 0) /\ r.state = c.state /\ r.error = c.error
               /\ r.stack # << >>
               /\ ~Done(r) => r.stack[Len(r.stack)].left >= 1
<1>. DEFINE old == c.stack[level]
            stack == OneLess(c.stack, level)
            r == ChildParsed(c, level).t
<1>1. Typed(c) /\ DOMAIN c = Fields /\ c.stack \in Seq(Level) \ {<< >>}
  BY DEF Budget, Typed
<1>2. old \in Level /\ old.child \in Address /\ old.left \in Nat /\ old.left >= 1
  <2>1. old \in Level  BY <1>1
  <2>. QED  BY <2>1 DEF Level
<1>3. /\ Advance(old.child, 1) \in Address
      /\ Room(Advance(old.child, 1), old.left - 1) \subseteq Room(old.child, old.left)
  <2>1. 1 \in 0 .. old.left  BY <1>2
  <2>. QED  BY <1>2, <2>1, RoomPart
<1>4. /\ DOMAIN stack = DOMAIN c.stack
      /\ stack[level].left = old.left - 1 /\ stack[level].child = Advance(old.child, 1)
      /\ stack[level] \in Level
      /\ \A j \in DOMAIN c.stack : j # level => stack[j] = c.stack[j]
  <2>1. /\ DOMAIN stack = DOMAIN c.stack
        /\ stack[level] = [old EXCEPT !.left = @ - 1, !.child = Advance(@, 1)]
        /\ \A j \in DOMAIN c.stack : j # level => stack[j] = c.stack[j]
    BY <1>1 DEF OneLess
  <2>2. old.left - 1 \in Nat  BY <1>2
  <2>. DEFINE new == [old EXCEPT !.left = @ - 1, !.child = Advance(@, 1)]
  <2>3. new \in Level /\ new.left = old.left - 1 /\ new.child = Advance(old.child, 1)
    <3>. DEFINE child == Advance(old.child, 1)
                left == old.left - 1
    <3>1. child \in Address /\ left \in Nat  BY <1>3, <2>2
    <3>2. new = [old EXCEPT !.left = left, !.child = child]  OBVIOUS
    <3>. HIDE DEF child, left, old, new
    <3>3. new \in Level /\ new.left = left /\ new.child = child
      BY <1>2, <3>1, <3>2 DEF Level
    <3>. QED  BY <3>3 DEF child, left
  <2>. HIDE DEF stack, old
  <2>. QED  BY <2>1, <2>3
<1>5. stack \in Seq(Level) \ {<< >>}
  <2>1. \A j \in DOMAIN c.stack : stack[j] \in Level
    <3>1. \A j \in DOMAIN c.stack : c.stack[j] \in Level  BY <1>1
    <3>. HIDE DEF stack
    <3>. QED  BY <1>4, <3>1
  <2>2. stack \in [DOMAIN c.stack -> Level]
    <3>1. stack = [j \in DOMAIN c.stack |-> stack[j]]  BY DEF OneLess
    <3>. HIDE DEF stack
    <3>. QED  BY <2>1, <3>1
  <2>3. DOMAIN c.stack = 1 .. Len(c.stack) /\ Len(c.stack) \in Nat /\ Len(c.stack) >= 1
    BY <1>1
  <2>. HIDE DEF stack
  <2>4. stack \in [1 .. Len(c.stack) -> Level]  BY <2>2, <2>3
  <2>5. stack \in Seq(Level)  BY <2>3, <2>4
  <2>. QED  BY <2>3, <2>4, <2>5
<1>6. r = [c EXCEPT !.stack = Popped(stack)]  BY DEF ChildParsed, Went
<1>. HIDE DEF stack, r, old
<1>7. IsFiniteSet(Coming(stack)) /\ Cardinality(Coming(stack)) = N
  <2>1. IsFiniteSet(Coming(c.stack)) /\ Cardinality(Coming(c.stack)) = N + 1  BY DEF Comes
  <2>2. /\ IsFiniteSet(Coming(stack))
        /\ Cardinality(Coming(stack)) = Cardinality(Coming(c.stack)) - 1
    BY <1>1, <1>4, <2>1, ComingParsed DEF old
  <2>. QED  BY <2>1, <2>2
<1>8. /\ Popped(stack) \in Seq(Level) /\ Popped(stack) # << >>
      /\ DOMAIN Popped(stack) \subseteq DOMAIN stack
      /\ \A i \in DOMAIN Popped(stack) : Popped(stack)[i] = stack[i]
      /\ Coming(Popped(stack)) = Coming(stack)
      /\ ~(Len(Popped(stack)) = 1 /\ Popped(stack)[1].left = 0)
            => Popped(stack)[Len(Popped(stack))].left >= 1
  BY <1>5, ComingPopped
<1>9. /\ DOMAIN r = Fields /\ r.stack = Popped(stack) /\ r.data = c.data /\ r.got = c.got
      /\ r.possible = c.possible /\ r.reserved = c.reserved /\ r.error = c.error
      /\ r.state = c.state /\ r.size = c.size /\ r.next = c.next /\ r.left = c.left
      /\ r.pages = c.pages /\ r.nodes = c.nodes
  BY <1>1, <1>6 DEF Fields
<1>10. Typed(r)  BY <1>1, <1>8, <1>9 DEF Typed
<1>11. \A i \in DOMAIN r.stack : Room(r.stack[i].child, r.stack[i].left) \subseteq DOMAIN r.nodes
  <2>1. \A i \in DOMAIN c.stack : Room(c.stack[i].child, c.stack[i].left) \subseteq DOMAIN c.nodes
    BY DEF Budget
  <2>2. \A i \in DOMAIN stack : Room(stack[i].child, stack[i].left) \subseteq DOMAIN c.nodes
    BY <1>3, <1>4, <2>1 DEF old
  <2>. QED  BY <1>8, <1>9, <2>2
<1>12. Budget(r, N, 0)  BY <1>9, <1>10, <1>11 DEF Budget
<1>13. Comes(r, N + 0)  BY <1>7, <1>8, <1>9 DEF Comes
<1>14. Balanced(r, N, 0)  BY <1>12, <1>13 DEF Balanced
<1>. QED  BY <1>8, <1>9, <1>14 DEF r, Done

(* The inductive invariant of a tree without an error *)
Sound(t) ==
    /\ Typed(t) /\ t.state \in {"not_started", "in_progress", "parsed"}
    /\ t.state = "not_started" => /\ t.size = 0
                                  /\ setup # "pool" => t.pages = << >> /\ DOMAIN t.nodes = {}
    /\ t.state # "not_started" => Balanced(t, Pending(t), 0)
    /\ t.state = "in_progress" => t.stack # << >> /\ t.stack[Len(t.stack)].left >= 1

(* A balanced stack counts its children to come *)
LEMMA BalancedPending ==
    ASSUME NEW t, NEW P \in Nat, Balanced(t, P, 0)
    PROVE  Pending(t) = P
<1>1. Cardinality(Coming(t.stack)) = P + 0  BY DEF Balanced, Comes
<1>. QED  BY <1>1 DEF Pending

(* The children to come are a number *)
LEMMA PendingNat ==
    ASSUME NEW t, Balanced(t, Pending(t), 0)
    PROVE  Pending(t) \in Nat
<1>1. IsFiniteSet(Coming(t.stack))  BY DEF Balanced, Comes
<1>2. Cardinality(Coming(t.stack)) \in Nat  BY <1>1, FS_CardinalityType
<1>. QED  BY <1>2 DEF Pending

(* What a turn of the loop leads to *)
Turned(o, t) ==
    \/ Halted(o)
    \/ ~o.ok /\ Sound(o.t) /\ o.t.error = "ok" /\ o.t.state = t.state
    \/ /\ o.ok /\ o.t.error = "ok" /\ o.t.state = t.state /\ Balanced(o.t, Pending(o.t), 0)
       /\ ~Done(o.t) => o.t.stack # << >> /\ o.t.stack[Len(o.t.stack)].left >= 1

(* A turn of the loop keeps a sound tree sound, or flags an error *)
LEMMA ParseNextTurns ==
    ASSUME NEW t, Sound(t), t.state = "in_progress", t.error = "ok", stream \in Streams
    PROVE  \A o \in ParseNext(t) : Turned(o, t)
<1>. DEFINE P == Pending(t)
            level == Len(t.stack)
            a == t.stack[level].child
            s == [t EXCEPT !.reserved = 0]
            byte == t.data[t.size + 1]
<1>1. /\ Typed(t) /\ Balanced(t, P, 0) /\ t.stack # << >> /\ t.stack[level].left >= 1
      /\ t.stack \in Seq(Level) \ {<< >>} /\ DOMAIN t = Fields
      /\ Len(t.data) = t.size + P + t.possible
  BY DEF Sound, Typed, Balanced, Budget
<1>2. level \in DOMAIN t.stack /\ t.stack[level] \in Level  BY <1>1
<1>3. P \in Nat \ {0}
  <2>1. P \in Nat  BY <1>1, PendingNat
  <2>2. t.stack[level].left \in Nat  BY <1>2 DEF Level
  <2>. DEFINE left == t.stack[level].left
  <2>3. 1 \in 1 .. left  BY <1>1, <2>2
  <2>4. <<level, 1>> \in Coming(t.stack)  BY <1>2, <2>3, InComing
  <2>5. Cardinality(Coming(t.stack)) # 0
    BY <1>1, <2>4, FS_EmptySet DEF Balanced, Comes
  <2>. QED  BY <2>1, <2>5 DEF Pending
<1>4. a \in DOMAIN t.nodes
  <2>1. t.stack[level].left \in Nat /\ a \in Address  BY <1>2 DEF Level
  <2>. DEFINE left == t.stack[level].left
  <2>2. left > 0 /\ 0 \in 0 .. left  BY <1>1, <2>1
  <2>3. a \in Room(a, left)
    <3>. HIDE DEF a, left, level
    <3>. QED  BY <2>1, <2>2, RoomPart DEF left
  <2>4. Room(a, left) \subseteq DOMAIN t.nodes  BY <1>1, <1>2 DEF Balanced, Budget
  <2>. QED  BY <2>3, <2>4
<1>5. byte \in StreamByte
  <2>. DEFINE d == t.data
              z == t.size
              l == Len(d)
  <2>1. d \in Seq(StreamByte) /\ z \in Nat /\ t.possible \in Nat  BY <1>1 DEF Typed
  <2>2. l \in Nat /\ l = z + P + t.possible  BY <1>1, <2>1
  <2>. HIDE DEF l, P
  <2>3. z + 1 \in 1 .. l  BY <1>3, <2>1, <2>2
  <2>. HIDE DEF d, z
  <2>4. \A q \in Seq(StreamByte) : \A i \in 1 .. Len(q) : q[i] \in StreamByte  OBVIOUS
  <2>5. d[z + 1] \in StreamByte  BY <2>1, <2>3, <2>4 DEF l
  <2>. QED  BY <2>5 DEF d, z
<1>6. Like(s, t) /\ s.reserved = 0 /\ s.nodes = t.nodes
  BY <1>1 DEF Like, Typed, Fields
<1>7. Along(s, t, P, a)
  <2>1. Along(t, t, P, a)  BY <1>1, <1>4 DEF Along
  <2>. HIDE DEF s, a, P
  <2>. QED  BY <1>3, <1>6, <2>1, LikeAlong
<1>8. AsTag(byte) \in StreamByte /\ AsTag(byte).t # "byte"
  <2>. HIDE DEF byte
  <2>. QED  BY <1>5, TagByte
<1>9. ParseNext(t) = {IF o.ok THEN ChildParsed(o.t, level) ELSE o :
                        o \in {IF q.ok THEN Counted(q.t, a) ELSE q :
                                  q \in ParseContents(s, a, AsTag(byte))}}
  BY DEF ParseNext, ParseNode
<1>. HIDE DEF s, a, P, byte
<1>10. \A q \in ParseContents(s, a, AsTag(byte)) : Outcome(q, t, P, a)
  BY <1>1, <1>3, <1>6, <1>7, <1>8, ParseContentsOutcome
<1>11. ASSUME NEW q, ~q.ok, Outcome(q, t, P, a)
       PROVE  Turned(q, t)
  <2>1. CASE Halted(q)  BY <2>1 DEF Turned
  <2>2. CASE Along(q.t, t, P, a)
    <3>1. Balanced(q.t, P, 0) /\ Pending(q.t) = P  BY <1>3, <2>2, BalancedPending DEF Along
    <3>2. Typed(q.t)  BY <3>1 DEF Balanced, Budget
    <3>3. Sound(q.t)  BY <1>1, <2>2, <3>1, <3>2 DEF Sound, Along
    <3>. QED  BY <1>11, <2>2, <3>3 DEF Turned, Along
  <2>. QED  BY <1>11, <2>1, <2>2 DEF Outcome
<1>12. ASSUME NEW q, q.ok, Outcome(q, t, P, a)
       PROVE  Turned(ChildParsed(Counted(q.t, a).t, level), t) /\ Counted(q.t, a).ok
  <2>. DEFINE c == Counted(q.t, a).t
              r == ChildParsed(c, level).t
  <2>1. Parsed(q.t, t, P, a)  BY <1>12 DEF Outcome, Halted
  <2>2. PICK N \in Nat : Budget(c, N, 0) /\ Comes(c, N + 1)
    BY <1>3, <2>1, CountedBalance
  <2>3. c.stack = q.t.stack /\ c.state = t.state /\ c.error = "ok"
    <3>1. c.stack = q.t.stack /\ c.state = q.t.state /\ c.error = q.t.error
      BY <1>3, <2>1, CountedBalance
    <3>. HIDE DEF c
    <3>. QED  BY <2>1, <3>1 DEF Parsed
  <2>4. level \in DOMAIN c.stack /\ c.stack[level].left >= 1
    BY <1>1, <2>1, <2>3 DEF Parsed
  <2>5. Counted(q.t, a).ok /\ ChildParsed(c, level).ok  BY DEF Counted, ChildParsed, Went
  <2>. HIDE DEF c
  <2>6. /\ Balanced(r, N, 0) /\ r.state = c.state /\ r.error = c.error
        /\ r.stack # << >>
        /\ ~Done(r) => r.stack[Len(r.stack)].left >= 1
    BY <2>2, <2>4, ChildParsedBalance
  <2>. HIDE DEF r
  <2>7. Pending(r) = N  BY <2>6, BalancedPending
  <2>8. Turned(ChildParsed(c, level), t)
    BY <2>3, <2>5, <2>6, <2>7 DEF Turned, r
  <2>. QED  BY <2>5, <2>8 DEF c
<1>. HIDE DEF level
<1>. QED  BY <1>9, <1>10, <1>11, <1>12

-----------------------------------------------------------------------------
(* The beginning of a parse *)

(* A root that has been put is sound *)
LEMMA RootedSound ==
    ASSUME NEW w, Typed(w), w.state = "in_progress", w.error = "ok",
           NEW at \in Address, NEW count \in Nat \ {0}, Room(at, count) \subseteq DOMAIN w.nodes,
           w.size = 0, Len(w.data) = w.possible + 1,
           setup # "pool" => Cardinality(DOMAIN w.nodes) <= count
    PROVE  /\ Sound(Rooted(w, at, count).t) /\ Rooted(w, at, count).t.error = "ok"
           /\ Rooted(w, at, count).t.state = "in_progress"
<1>. DEFINE level == [child |-> at, left |-> 1]
            r == Rooted(w, at, count).t
<1>1. DOMAIN w = Fields /\ w.possible \in Nat  BY DEF Typed
<1>2. /\ DOMAIN r = Fields /\ r.data = w.data /\ r.got = w.got /\ r.size = w.size
      /\ r.possible = w.possible /\ r.reserved = w.reserved /\ r.pages = w.pages
      /\ r.nodes = w.nodes /\ r.state = w.state /\ r.error = w.error
      /\ r.next = Advance(at, 1) /\ r.left = count - 1 /\ r.stack = <<level>>
  BY <1>1 DEF Rooted, Went, Fields
<1>3. level \in Level /\ level.left = 1 /\ level.child = at  BY DEF Level
<1>. HIDE DEF r, level
<1>4. /\ <<level>> \in Seq(Level) /\ DOMAIN <<level>> = {1} /\ <<level>>[1] = level
      /\ Len(<<level>>) = 1 /\ <<level>> # << >>
  BY <1>3
<1>5. IsFiniteSet(Coming(r.stack)) /\ Cardinality(Coming(r.stack)) = 1
  <2>1. Coming(<<level>>) = {<<1, 1>>}
    <3>1. ASSUME NEW e \in Coming(<<level>>)  PROVE e = <<1, 1>>
      <4>1. PICK i, k : e = <<i, k>> /\ i \in DOMAIN <<level>> /\ k \in 1 .. <<level>>[i].left
        BY ComingPairs
      <4>2. i = 1 /\ k \in 1 .. 1  BY <1>3, <1>4, <4>1
      <4>. QED  BY <4>1, <4>2
    <3>2. <<1, 1>> \in Coming(<<level>>)
      <4>1. 1 \in DOMAIN <<level>> /\ 1 \in 1 .. <<level>>[1].left  BY <1>3, <1>4
      <4>. QED  BY <4>1, InComing
    <3>. QED  BY <3>1, <3>2
  <2>2. \A x : IsFiniteSet({x}) /\ Cardinality({x}) = 1  BY FS_Singleton
  <2>3. IsFiniteSet({<<1, 1>>}) /\ Cardinality({<<1, 1>>}) = 1  BY <2>2, Zenon
  <2>. QED  BY <1>2, <2>1, <2>3
<1>6. /\ Advance(at, 1) \in Address
      /\ Room(at, 1) \subseteq Room(at, count)
      /\ Room(Advance(at, 1), count - 1) \subseteq Room(at, count)
  <2>1. 1 \in 0 .. count /\ count \in Nat  OBVIOUS
  <2>. QED  BY <2>1, RoomPart
<1>7. count - 1 \in Nat  OBVIOUS
<1>8. Typed(r)  BY <1>2, <1>4, <1>6, <1>7 DEF Typed
<1>9. setup # "pool" => Cardinality(DOMAIN r.nodes) - r.left
                          <= r.size + 1 + 0 + Eighth * Len(r.pages)
  <2>. DEFINE d == Cardinality(DOMAIN w.nodes)
              e == Eighth * Len(w.pages)
  <2>1. e \in Nat
    <3>1. Len(w.pages) \in Nat  BY DEF Typed
    <3>. QED  BY <3>1, OneMorePage
  <2>2. d \in Nat  BY FS_CardinalityType DEF Typed
  <2>3. setup # "pool" => d <= count  OBVIOUS
  <2>. HIDE DEF d, e
  <2>4. setup # "pool" => d - (count - 1) <= 0 + 1 + 0 + e  BY <2>1, <2>2, <2>3
  <2>. QED  BY <1>2, <2>4 DEF d, e
<1>10. Len(r.data) = r.size + 1 + r.possible
  <2>1. \A x \in Nat : x + 1 = 0 + 1 + x  OBVIOUS
  <2>. QED  BY <1>1, <1>2, <2>1
<1>11. \A i \in DOMAIN r.stack : Room(r.stack[i].child, r.stack[i].left) \subseteq DOMAIN r.nodes
  BY <1>2, <1>3, <1>4, <1>6
<1>12. Room(r.next, r.left) \subseteq DOMAIN r.nodes  BY <1>2, <1>6
<1>13. Budget(r, 1, 0)  BY <1>8, <1>9, <1>10, <1>11, <1>12 DEF Budget
<1>14. Balanced(r, 1, 0)  BY <1>5, <1>13 DEF Balanced, Comes
<1>15. Pending(r) = 1  BY <1>5 DEF Pending
<1>16. r.stack # << >> /\ r.stack[Len(r.stack)].left >= 1  BY <1>2, <1>3, <1>4
<1>17. Sound(r)  BY <1>2, <1>8, <1>14, <1>15, <1>16 DEF Sound
<1>. QED  BY <1>2, <1>17 DEF r

(* A first page is room for the root *)
LEMMA FirstPageSound ==
    ASSUME NEW t, Typed(t), t.state = "in_progress", t.error = "ok",
           t.size = 0, Len(t.data) = t.possible + 1,
           setup # "pool" => t.pages = << >> /\ DOMAIN t.nodes = {}
    PROVE  \A o \in FirstPage(t) : \/ Halted(o)
                                   \/ Sound(o.t) /\ o.t.error = "ok" /\ o.t.state = "in_progress"
<1>1. CASE setup = "pool"
  <2>1. DOMAIN t.nodes = Slots(0, PoolCount)  BY <1>1 DEF Typed
  <2>2. PoolCount \in Nat \ {0} /\ <<0, 0>> \in Address  BY StorageAssumption DEF Address
  <2>3. Room(<<0, 0>>, PoolCount) \subseteq DOMAIN t.nodes  BY <2>1, <2>2, SlotsRoom
  <2>4. FirstPage(t) = {Rooted(t, <<0, 0>>, PoolCount)}  BY <1>1 DEF FirstPage
  <2>. QED  BY <1>1, <2>2, <2>3, <2>4, RootedSound
<1>2. CASE setup # "pool"
  <2>. DEFINE w == WithPage(t, PageNodes)
              e == [t EXCEPT !.error = "memory"]
  <2>1. t.pages = << >> /\ DOMAIN t.nodes = {}  BY <1>2
  <2>2. Free(t) = 1
    <3>1. Free(t) \in 1 .. (Len(t.pages) + 1)  BY FreePage DEF Typed
    <3>2. Len(t.pages) = 0  BY <2>1
    <3>. QED  BY <3>1, <3>2
  <2>3. /\ DOMAIN w = Fields /\ w.data = t.data /\ w.got = t.got /\ w.possible = t.possible
        /\ w.reserved = t.reserved /\ w.error = t.error /\ w.state = t.state
        /\ w.size = t.size /\ w.next = t.next /\ w.left = t.left /\ w.stack = t.stack
        /\ w.pages \in Seq(Nat) /\ IsFiniteSet(DOMAIN w.nodes)
        /\ DOMAIN w.nodes = DOMAIN t.nodes \cup Room(<<Free(t), 0>>, PageNodes)
        /\ Cardinality(DOMAIN w.nodes) <= Cardinality(DOMAIN t.nodes) + PageNodes
    BY PageFacts, PageAdded
  <2>4. FirstPage(t) = {Stopped(e)} \cup {Rooted(w, <<1, 0>>, PageNodes)}
    BY <1>2 DEF FirstPage
  <2>5. Halted(Stopped(e))  BY DEF Halted, Stopped, Typed, Fields
  <2>. HIDE DEF w, e
  <2>6. Typed(w)  BY <1>2, <2>3 DEF Typed
  <2>7. Cardinality(DOMAIN w.nodes) <= PageNodes
    <3>1. Cardinality(DOMAIN t.nodes) = 0  BY <2>1, FS_EmptySet
    <3>2. Cardinality(DOMAIN w.nodes) \in Nat  BY <2>3, FS_CardinalityType
    <3>. QED  BY <2>3, <3>1, <3>2, PageFacts
  <2>8. <<1, 0>> \in Address /\ PageNodes \in Nat \ {0}  BY PageFacts DEF Address
  <2>9. Room(<<1, 0>>, PageNodes) \subseteq DOMAIN w.nodes  BY <2>2, <2>3
  <2>10. Len(w.data) = w.possible + 1 /\ w.size = 0 /\ w.state = "in_progress" /\ w.error = "ok"
    BY <2>3
  <2>. QED  BY <2>4, <2>5, <2>6, <2>7, <2>8, <2>9, <2>10, RootedSound
<1>. QED  BY <1>1, <1>2

(* A tree that is cleaned up stays typed *)
LEMMA CleanupTyped ==
    ASSUME NEW t, Typed(t)
    PROVE  LET c == Cleanup(t)
           IN  /\ Typed(c) /\ c.error = t.error /\ c.size = t.size /\ c.data = t.data
               /\ c.stack = t.stack /\ c.left = t.left /\ c.possible = t.possible
               /\ setup # "pool" => c.pages = << >> /\ DOMAIN c.nodes = {}
<1>. DEFINE c == Cleanup(t)
<1>1. DOMAIN t = Fields  BY DEF Typed
<1>2. /\ DOMAIN c = Fields /\ c.data = t.data /\ c.got = t.got /\ c.possible = t.possible
      /\ c.reserved = t.reserved /\ c.error = t.error /\ c.size = t.size
      /\ c.next = t.next /\ c.left = t.left /\ c.stack = t.stack /\ c.pages = << >>
      /\ c.nodes = IF setup = "pool" THEN t.nodes ELSE << >>
  BY <1>1 DEF Cleanup, Fields
<1>. HIDE DEF c
<1>3. << >> \in Seq(Nat) /\ DOMAIN << >> = {}  OBVIOUS
<1>4. IsFiniteSet({})  BY FS_EmptySet
<1>5. IsFiniteSet(DOMAIN c.nodes)  BY <1>2, <1>3, <1>4 DEF Typed
<1>6. Typed(c)  BY <1>2, <1>3, <1>5 DEF Typed
<1>. QED  BY <1>2, <1>3, <1>6 DEF c

(* A parse begins with what the buffer still holds, all of it possible *)
LEMMA StartSound ==
    ASSUME NEW t, Sound(t), t.state \in {"not_started", "parsed"}, t.error = "ok",
           stream \in Streams
    PROVE  \A o \in Start(t) : \/ Halted(o)
                               \/ /\ Sound(o.t) /\ o.t.error = "ok"
                                  /\ o.ok => o.t.state = "in_progress"
<1>. DEFINE c == IF t.state = "parsed" THEN Cleanup(t) ELSE t
            r == Ready(Consumed(c))
<1>1. /\ Typed(c) /\ c.error = "ok" /\ c.size = t.size /\ c.data = t.data
      /\ setup # "pool" => c.pages = << >> /\ DOMAIN c.nodes = {}
  <2>1. CASE t.state = "parsed"  BY <2>1, CleanupTyped DEF Sound
  <2>2. CASE t.state = "not_started"  BY <2>2 DEF Sound
  <2>. QED  BY <2>1, <2>2
<1>2. c.data \in Seq(StreamByte) /\ c.size \in Nat /\ c.size <= Len(c.data)
  <2>1. t.data \in Seq(StreamByte) /\ t.size \in Nat /\ t.possible \in Nat
    BY DEF Sound, Typed
  <2>2. Len(t.data) \in Nat  BY <2>1
  <2>3. CASE t.state = "not_started"
    <3>1. t.size = 0  BY <2>3 DEF Sound
    <3>. HIDE DEF c
    <3>. QED  BY <1>1, <2>1, <2>2, <3>1
  <2>4. CASE t.state = "parsed"
    <3>. DEFINE l == Len(t.data)
                z == t.size
                P == Pending(t)
    <3>1. Balanced(t, P, 0)  BY <2>4 DEF Sound
    <3>2. P \in Nat  BY <3>1, PendingNat
    <3>3. l = z + P + t.possible  BY <3>1 DEF Balanced, Budget
    <3>. HIDE DEF l, z, P
    <3>4. z <= l  BY <2>1, <3>2, <3>3 DEF z
    <3>. HIDE DEF c
    <3>. QED  BY <1>1, <2>1, <3>4 DEF l, z
  <2>. QED  BY <2>3, <2>4
<1>3. Start(t) = UNION {IF o.ok THEN FirstPage([o.t EXCEPT !.possible = @ - 1])
                        ELSE {Stopped([o.t EXCEPT !.state = "not_started"])} :
                        o \in Reserve(r, 1)}
  BY DEF Start
<1>. HIDE DEF c
<1>4. /\ DOMAIN r = Fields /\ r.state = "in_progress" /\ r.error = "ok" /\ r.size = 0
      /\ r.data \in Seq(StreamByte) /\ r.possible = Len(r.data) /\ r.reserved = 0
      /\ r.pages = c.pages /\ r.nodes = c.nodes /\ Typed(r)
  <2>. DEFINE rest == SubSeq(c.data, c.size + 1, Len(c.data))
  <2>1. rest \in Seq(StreamByte) /\ Len(rest) \in Nat
    <3>1. \A q \in Seq(StreamByte) : \A z \in Nat :
             z <= Len(q) => SubSeq(q, z + 1, Len(q)) \in Seq(StreamByte)
      OBVIOUS
    <3>2. rest \in Seq(StreamByte)  BY <1>2, <3>1, Zenon
    <3>. HIDE DEF rest
    <3>. QED  BY <3>2
  <2>2. /\ DOMAIN r = Fields /\ r.state = "in_progress" /\ r.error = c.error /\ r.size = 0
        /\ r.data = rest /\ r.possible = Len(rest) /\ r.reserved = 0 /\ r.got = c.got
        /\ r.pages = c.pages /\ r.nodes = c.nodes /\ r.next = c.next /\ r.left = c.left
        /\ r.stack = c.stack
    BY <1>1 DEF Ready, Consumed, Typed, Fields
  <2>. HIDE DEF r, rest
  <2>. QED  BY <1>1, <2>1, <2>2 DEF Typed
<1>. HIDE DEF r
<1>5. ASSUME NEW o \in Reserve(r, 1), ~o.ok
      PROVE  LET s == Stopped([o.t EXCEPT !.state = "not_started"])
             IN  Halted(s) \/ (Sound(s.t) /\ s.t.error = "ok" /\ ~s.ok)
  <2>. DEFINE s == [o.t EXCEPT !.state = "not_started"]
  <2>1. Reserved(o, r, 1)  BY <1>4, ReserveReserves
  <2>2. Stopped(s).t = s /\ ~Stopped(s).ok  BY DEF Stopped
  <2>3. CASE Halted(o)
    <3>1. s.error = o.t.error  OBVIOUS
    <3>. HIDE DEF s
    <3>2. Halted(Stopped(s))  BY <2>2, <2>3, <3>1 DEF Halted
    <3>. QED  BY <3>2 DEF s
  <2>4. CASE Grew(o.t, r)
    <3>1. Typed(o.t)  BY <1>4, <2>4, GrewTyped
    <3>2. /\ DOMAIN s = Fields /\ s.state = "not_started" /\ s.error = "ok" /\ s.size = 0
          /\ s.pages = c.pages /\ s.nodes = c.nodes /\ s.data = o.t.data /\ s.got = o.t.got
          /\ s.possible = o.t.possible /\ s.reserved = o.t.reserved /\ s.next = o.t.next
          /\ s.left = o.t.left /\ s.stack = o.t.stack
      BY <1>4, <2>4 DEF Grew, Like, Fields
    <3>3. o.t.pages = c.pages /\ o.t.nodes = c.nodes  BY <1>4, <2>4 DEF Grew, Like
    <3>. HIDE DEF s
    <3>4. Typed(s)  BY <3>1, <3>2, <3>3 DEF Typed
    <3>5. Sound(s)  BY <1>1, <3>2, <3>4 DEF Sound
    <3>. QED  BY <2>2, <3>2, <3>5 DEF s
  <2>. QED  BY <2>1, <2>3, <2>4 DEF Reserved
<1>6. ASSUME NEW o \in Reserve(r, 1), o.ok,
             NEW p \in FirstPage([o.t EXCEPT !.possible = @ - 1])
      PROVE  Halted(p) \/ (Sound(p.t) /\ p.t.error = "ok" /\ p.t.state = "in_progress")
  <2>. DEFINE s == [o.t EXCEPT !.possible = @ - 1]
  <2>1. Reserved(o, r, 1)  BY <1>4, ReserveReserves
  <2>2. Grew(o.t, r) /\ o.t.reserved = 0 + 1 /\ o.t.reserved <= o.t.possible
    BY <1>4, <1>6, <2>1 DEF Reserved, Halted
  <2>3. Typed(o.t)  BY <1>4, <2>2, GrewTyped
  <2>4. Len(o.t.data) = o.t.possible
    <3>. DEFINE x == Len(o.t.data)
                y == o.t.possible
                z == r.possible
    <3>1. x + z = z + y  BY <1>4, <2>2 DEF Grew, Like
    <3>2. y \in Nat /\ z \in Nat /\ o.t.data \in Seq(StreamByte)  BY <1>4, <2>3 DEF Typed
    <3>3. x \in Nat  BY <3>2
    <3>. HIDE DEF x, y, z
    <3>4. x = y  BY <3>1, <3>2, <3>3
    <3>. QED  BY <3>4 DEF x, y
  <2>5. /\ DOMAIN s = Fields /\ s.state = "in_progress" /\ s.error = "ok" /\ s.size = 0
        /\ s.pages = c.pages /\ s.nodes = c.nodes /\ s.data = o.t.data /\ s.got = o.t.got
        /\ s.possible = o.t.possible - 1 /\ s.reserved = o.t.reserved /\ s.next = o.t.next
        /\ s.left = o.t.left /\ s.stack = o.t.stack
        /\ o.t.pages = c.pages /\ o.t.nodes = c.nodes
    BY <1>4, <2>2 DEF Grew, Like, Fields
  <2>. HIDE DEF s
  <2>6. o.t.possible \in Nat /\ o.t.possible >= 1  BY <2>2, <2>3 DEF Typed
  <2>7. s.possible \in Nat /\ s.possible + 1 = o.t.possible  BY <2>5, <2>6
  <2>8. Typed(s)  BY <2>3, <2>5, <2>7 DEF Typed
  <2>9. Len(s.data) = s.possible + 1  BY <2>4, <2>5, <2>7
  <2>10. p \in FirstPage(s)  BY <1>6 DEF s
  <2>. QED  BY <1>1, <2>5, <2>8, <2>9, <2>10, FirstPageSound
<1>7. \A s : ~Stopped(s).ok  BY DEF Stopped
<1>8. ASSUME NEW p \in Start(t)
      PROVE  Halted(p) \/ (Sound(p.t) /\ p.t.error = "ok" /\ (p.ok => p.t.state = "in_progress"))
  <2>1. PICK o \in Reserve(r, 1) :
           p \in IF o.ok THEN FirstPage([o.t EXCEPT !.possible = @ - 1])
                 ELSE {Stopped([o.t EXCEPT !.state = "not_started"])}
    BY <1>3
  <2>2. CASE o.ok  BY <1>6, <2>1, <2>2
  <2>3. CASE ~o.ok  BY <1>5, <1>7, <2>1, <2>3
  <2>. QED  BY <2>2, <2>3
<1>. QED  BY <1>8

-----------------------------------------------------------------------------
(* The program *)

(* The inductive invariant: the tree is sound unless it has an error *)
BytesInv ==
    /\ setup \in Setups /\ stream \in Streams
    /\ call # "destroyed" /\ tree.error = "ok" => Sound(tree)
    /\ call \in {"try", "parse"} => tree.error = "ok" /\ tree.state = "in_progress"
    /\ call = "destroyed" => NodesWithinBytes

(* A parse that goes on stays sound *)
LEMMA SoundNext ==
    ASSUME setup' = setup, Sound(tree')
    PROVE  Sound(tree)'
BY DEF Sound, Balanced, Budget, Typed, Comes

(* A sound tree has its nodes within its bytes *)
LEMMA SoundWithin == Sound(tree) => NodesWithinBytes
<1>. SUFFICES ASSUME Sound(tree), tree.state # "not_started"
              PROVE  /\ Len(tree.data) = tree.size + Pending(tree) + tree.possible
                     /\ setup # "pool" => Cardinality(DOMAIN tree.nodes) - tree.left
                           <= Len(tree.data) + (PageNodes \div 8) * Len(tree.pages)
  BY DEF NodesWithinBytes
<1>. DEFINE P == Pending(tree)
            l == Len(tree.data)
            d == Cardinality(DOMAIN tree.nodes)
            e == Eighth * Len(tree.pages)
<1>1. Typed(tree) /\ Balanced(tree, P, 0)  BY DEF Sound
<1>2. P \in Nat  BY <1>1, PendingNat
<1>3. l = tree.size + P + tree.possible  BY <1>1 DEF Balanced, Budget
<1>4. setup # "pool" => d - tree.left <= tree.size + P + 0 + e
  BY <1>1 DEF Balanced, Budget
<1>5. /\ tree.size \in Nat /\ tree.possible \in Nat /\ tree.left \in Nat /\ d \in Nat
  BY <1>1, FS_CardinalityType DEF Typed
<1>6. e \in Nat
  <2>1. Len(tree.pages) \in Nat  BY <1>1 DEF Typed
  <2>. QED  BY <2>1, OneMorePage
<1>. HIDE DEF P, l, d, e
<1>7. setup # "pool" => d - tree.left <= l + e  BY <1>2, <1>3, <1>4, <1>5, <1>6
<1>. QED  BY <1>3, <1>7 DEF P, l, d, e, Eighth

(* The program begins with a sound tree *)
LEMMA InitBytesInv == Init => BytesInv
<1>. SUFFICES ASSUME Init  PROVE BytesInv  OBVIOUS
<1>1. /\ DOMAIN tree = Fields /\ tree.error = "ok" /\ tree.state = "not_started"
      /\ tree.data = (IF setup = "stream" THEN << >> ELSE stream)
      /\ tree.got = (IF setup = "stream" THEN 0 ELSE Len(stream))
      /\ tree.size = 0 /\ tree.possible = 0 /\ tree.reserved = 0 /\ tree.next = None
      /\ tree.left = 0 /\ tree.stack = << >> /\ tree.pages = << >>
      /\ DOMAIN tree.nodes = (IF setup = "pool" THEN Slots(0, PoolCount) ELSE {})
      /\ call = "none" /\ setup \in Setups /\ stream \in Streams
  <2>1. DOMAIN << >> = {}  OBVIOUS
  <2>. QED  BY <2>1 DEF Init, New, Fields
<1>2. stream \in Seq(StreamByte)  BY <1>1, StreamBytes DEF StreamsAreBytes
<1>3. /\ tree.data \in Seq(StreamByte) /\ tree.got \in Nat /\ tree.next \in Address
      /\ tree.stack \in Seq(Level) /\ tree.pages \in Seq(Nat)
  BY <1>1, <1>2 DEF None, Address
<1>4. IsFiniteSet(DOMAIN tree.nodes)
  <2>1. IsFiniteSet(Slots(0, PoolCount))
    <3>1. 0 \in Int /\ PoolCount \in Nat  BY PageFacts
    <3>. QED  BY <3>1, SlotsRoom, Zenon
  <2>2. IsFiniteSet({})  BY FS_EmptySet
  <2>. QED  BY <1>1, <2>1, <2>2
<1>5. Typed(tree)  BY <1>1, <1>3, <1>4 DEF Typed
<1>6. Sound(tree)  BY <1>1, <1>5 DEF Sound
<1>. QED  BY <1>1, <1>6 DEF BytesInv

(* What a parse that ends does to the error *)
LEMMA FlaggedError ==
    ASSUME NEW t, NEW kind
    PROVE  /\ t.error # "ok" => Ended(t, kind).error # "ok"
           /\ DOMAIN t = Fields /\ kind = "parse" => Ended(t, kind).error # "ok"
           /\ kind # "parse" => Ended(t, kind) = t
<1>1. ASSUME NEW e, e # "ok"
      PROVE  /\ t.error # "ok" => FlagError(t, e).error # "ok"
             /\ DOMAIN t = Fields => FlagError(t, e).error # "ok"
  BY <1>1 DEF FlagError, Fields
<1>2. Given(t) = FlagError(t, IF setup = "stream" THEN "io" ELSE "invalid")  BY DEF Given
<1>3. Ended(t, kind) = IF kind = "parse" THEN Given(t) ELSE t  BY DEF Ended
<1>4. (IF setup = "stream" THEN "io" ELSE "invalid") # "ok"  OBVIOUS
<1>. QED  BY <1>1, <1>2, <1>3, <1>4

(* The tree that is destroyed keeps what it has of the data, and no node of  *)
(* a page                                                                   *)
LEMMA DestroyedWithin ==
    ASSUME IInv, BytesInv, Destroy
    PROVE  BytesInv'
<1>1. /\ call = "none" /\ call' = "destroyed" /\ setup' = setup /\ stream' = stream
      /\ tree' = [Cleanup(tree) EXCEPT !.heap = IF tree.buffer THEN @ \ {Buffer} ELSE @]
  BY DEF Destroy
<1>. SUFFICES ASSUME tree'.error = "ok", tree'.state # "not_started"
              PROVE  /\ Len(tree'.data) = tree'.size + Pending(tree') + tree'.possible
                     /\ setup # "pool" => Cardinality(DOMAIN tree'.nodes) - tree'.left
                           <= Len(tree'.data) + (PageNodes \div 8) * Len(tree'.pages)
  BY <1>1 DEF BytesInv, NodesWithinBytes
<1>. DEFINE c == Cleanup(tree)
<1>2. tree' = [c EXCEPT !.heap = IF tree.buffer THEN @ \ {Buffer} ELSE @]  BY <1>1
<1>3. c = [tree EXCEPT !.heap = c.heap, !.owned = FALSE, !.pages = << >>,
                       !.nodes = IF setup = "pool" THEN @ ELSE << >>]
  BY DEF Cleanup
<1>4. tree'.error = tree.error /\ tree'.state = tree.state
  <2>1. DOMAIN tree = Fields  BY <1>1 DEF IInv, Owns
  <2>. HIDE DEF c
  <2>. QED  BY <1>2, <1>3, <2>1 DEF Fields
<1>5. Sound(tree) /\ tree.state # "not_started"  BY <1>1, <1>4 DEF BytesInv
<1>6. Typed(tree) /\ Balanced(tree, Pending(tree), 0)  BY <1>5 DEF Sound
<1>7. /\ Typed(c) /\ c.size = tree.size /\ c.data = tree.data
      /\ c.stack = tree.stack /\ c.left = tree.left /\ c.possible = tree.possible
      /\ setup # "pool" => c.pages = << >> /\ DOMAIN c.nodes = {}
  BY <1>6, CleanupTyped
<1>8. /\ tree'.size = tree.size /\ tree'.data = tree.data
      /\ tree'.stack = tree.stack /\ tree'.left = tree.left /\ tree'.possible = tree.possible
      /\ tree'.pages = c.pages /\ tree'.nodes = c.nodes
  <2>. HIDE DEF c
  <2>. QED  BY <1>2, <1>7 DEF Typed, Fields
<1>. HIDE DEF c
<1>9. Len(tree'.data) = tree'.size + Pending(tree') + tree'.possible
  BY <1>6, <1>8 DEF Balanced, Budget, Pending
<1>10. setup # "pool" => Cardinality(DOMAIN tree'.nodes) - tree'.left
                           <= Len(tree'.data) + (PageNodes \div 8) * Len(tree'.pages)
  <2>. SUFFICES ASSUME setup # "pool"
                PROVE  Cardinality(DOMAIN tree'.nodes) - tree'.left
                           <= Len(tree'.data) + (PageNodes \div 8) * Len(tree'.pages)
    OBVIOUS
  <2>. DEFINE l == Len(tree.data)
              k == tree.left
  <2>1. Cardinality({}) = 0  BY FS_EmptySet
  <2>2. DOMAIN tree'.nodes = {} /\ tree'.pages = << >>  BY <1>7, <1>8
  <2>3. Len(<< >>) = 0 /\ Eighth * 0 = 0
    <3>1. \A x \in Nat : x * 0 = 0  OBVIOUS
    <3>. QED  BY <3>1, PageFacts
  <2>4. l \in Nat /\ k \in Nat
    <3>1. tree.data \in Seq(StreamByte) /\ tree.left \in Nat  BY <1>6 DEF Typed
    <3>. QED  BY <3>1
  <2>5. Len(tree'.data) = l /\ tree'.left = k  BY <1>8
  <2>. HIDE DEF l, k
  <2>6. 0 - k <= l + 0  BY <2>4
  <2>. QED  BY <2>1, <2>2, <2>3, <2>5, <2>6 DEF Eighth
<1>. QED  BY <1>9, <1>10

(* Every call keeps the tree sound until it has an error *)
LEMMA NextBytesInv == IInv /\ BytesInv /\ [Next]_vars => BytesInv'
<1>. SUFFICES ASSUME IInv, BytesInv, [Next]_vars  PROVE BytesInv'  OBVIOUS
<1>1. CASE UNCHANGED vars
  <2>1. Sound(tree) => Sound(tree')  BY <1>1 DEF vars
  <2>2. NodesWithinBytes => NodesWithinBytes'  BY <1>1 DEF vars, NodesWithinBytes
  <2>. QED  BY <1>1, <2>1, <2>2, SoundNext DEF vars, BytesInv
<1>2. ASSUME NEW kind \in {"try", "parse"}, Enter(kind)  PROVE BytesInv'
  <2>1. /\ call = "none" /\ tree.error = "ok" /\ setup' = setup /\ stream' = stream
    BY <1>2 DEF Enter, Usable
  <2>2. Sound(tree) /\ setup \in Setups /\ stream \in Streams  BY <2>1 DEF BytesInv
  <2>3. CASE tree.state = "in_progress"
    <3>1. call' = kind /\ tree' = tree  BY <1>2, <2>3 DEF Enter
    <3>. QED  BY <1>2, <2>1, <2>2, <2>3, <3>1, SoundNext DEF BytesInv
  <2>4. CASE tree.state # "in_progress"
    <3>1. tree.state \in {"not_started", "parsed"}  BY <2>2, <2>4 DEF Sound
    <3>2. PICK o \in Start(tree) : IF o.ok THEN call' = kind /\ tree' = o.t
                                   ELSE call' = "none" /\ tree' = Ended(o.t, kind)
      BY <1>2, <2>4 DEF Enter
    <3>3. \/ Halted(o)
          \/ Sound(o.t) /\ o.t.error = "ok" /\ (o.ok => o.t.state = "in_progress")
      BY <2>1, <2>2, <3>1, StartSound
    <3>4. CASE o.ok
      <4>1. Sound(tree') /\ tree'.error = "ok" /\ tree'.state = "in_progress" /\ call' = kind
        BY <3>2, <3>3, <3>4 DEF Halted
      <4>. QED  BY <2>1, <2>2, <4>1, SoundNext DEF BytesInv
    <3>5. CASE ~o.ok
      <4>1. call' = "none" /\ tree' = Ended(o.t, kind)  BY <3>2, <3>5
      <4>2. tree'.error # "ok" \/ Sound(tree')
        BY <3>3, <4>1, FlaggedError DEF Halted, Sound, Typed
      <4>. QED  BY <2>1, <2>2, <4>1, <4>2, SoundNext DEF BytesInv
    <3>. QED  BY <3>4, <3>5
  <2>. QED  BY <2>3, <2>4
<1>3. CASE Continue
  <2>1. call \in {"try", "parse"} /\ setup' = setup /\ stream' = stream
    BY <1>3 DEF Continue
  <2>2. /\ tree.error = "ok" /\ tree.state = "in_progress" /\ Sound(tree)
        /\ setup \in Setups /\ stream \in Streams
    BY <2>1 DEF BytesInv
  <2>3. PICK o \in ParseNext(tree) :
           IF ~o.ok THEN call' = "none" /\ tree' = Ended(o.t, call)
           ELSE IF Done(o.t) THEN call' = "none" /\ tree' = [o.t EXCEPT !.state = "parsed"]
           ELSE call' = call /\ tree' = o.t
    BY <1>3 DEF Continue
  <2>4. Turned(o, tree)  BY <2>2, ParseNextTurns
  <2>5. CASE ~o.ok
    <3>1. call' = "none" /\ tree' = Ended(o.t, call)  BY <2>3, <2>5
    <3>2. Halted(o) \/ (Sound(o.t) /\ DOMAIN o.t = Fields)
      BY <2>4, <2>5 DEF Turned, Sound, Typed
    <3>3. tree'.error # "ok" \/ Sound(tree')  BY <3>1, <3>2, FlaggedError DEF Halted
    <3>. QED  BY <2>1, <2>2, <3>1, <3>3, SoundNext DEF BytesInv
  <2>6. ASSUME o.ok
        PROVE  /\ o.t.error = "ok" /\ o.t.state = "in_progress"
               /\ Balanced(o.t, Pending(o.t), 0) /\ Typed(o.t)
               /\ ~Done(o.t) => o.t.stack # << >> /\ o.t.stack[Len(o.t.stack)].left >= 1
    BY <2>2, <2>4, <2>6 DEF Turned, Halted, Balanced, Budget
  <2>7. CASE o.ok /\ Done(o.t)
    <3>. DEFINE p == [o.t EXCEPT !.state = "parsed"]
    <3>1. call' = "none" /\ tree' = p  BY <2>3, <2>7
    <3>2. /\ DOMAIN p = Fields /\ p.state = "parsed" /\ p.data = o.t.data /\ p.got = o.t.got
          /\ p.size = o.t.size /\ p.possible = o.t.possible /\ p.reserved = o.t.reserved
          /\ p.next = o.t.next /\ p.left = o.t.left /\ p.stack = o.t.stack
          /\ p.pages = o.t.pages /\ p.nodes = o.t.nodes
      BY <2>6, <2>7 DEF Typed, Fields
    <3>. HIDE DEF p
    <3>3. Typed(p)  BY <2>6, <2>7, <3>2 DEF Typed
    <3>4. Pending(p) = Pending(o.t)  BY <3>2 DEF Pending
    <3>5. Balanced(p, Pending(p), 0)
      BY <2>6, <2>7, <3>2, <3>3, <3>4 DEF Balanced, Budget, Comes
    <3>6. Sound(p)  BY <3>2, <3>3, <3>5 DEF Sound
    <3>. QED  BY <2>1, <2>2, <3>1, <3>6, SoundNext DEF BytesInv
  <2>8. CASE o.ok /\ ~Done(o.t)
    <3>1. call' = call /\ tree' = o.t  BY <2>3, <2>8
    <3>2. Sound(o.t)  BY <2>6, <2>8 DEF Sound
    <3>. QED  BY <2>1, <2>2, <2>6, <2>8, <3>1, <3>2, SoundNext DEF BytesInv
  <2>. QED  BY <2>5, <2>7, <2>8
<1>4. CASE RootTooEarly
  <2>1. /\ call = "none" /\ call' = call /\ tree' = FlagError(tree, "bug") /\ tree.error = "ok"
        /\ setup' = setup /\ stream' = stream
    BY <1>4 DEF RootTooEarly, Usable
  <2>2. DOMAIN tree = Fields  BY <2>1 DEF BytesInv, Sound, Typed
  <2>3. tree'.error = "bug"  BY <2>1, <2>2 DEF FlagError, Fields
  <2>. QED  BY <2>1, <2>3 DEF BytesInv
<1>5. CASE Destroy  BY <1>5, DestroyedWithin
<1>. QED  BY <1>1, <1>2, <1>3, <1>4, <1>5 DEF Next, TryParse, Parse

(* Each byte is one of a node that was parsed, is spoken for by a node to    *)
(* come, or may become one, and so however many elements a container        *)
(* announces the parser allocates no more nodes than it has bytes, but for  *)
(* the unused part of its pages (node.c:174-340, node.h:179-193).           *)
THEOREM NodesBounded == Spec => []NodesWithinBytes
<1>1. BytesInv => NodesWithinBytes
  BY SoundWithin DEF BytesInv, NodesWithinBytes
<1>. QED  BY <1>1, InitIInv, NextIInv, InitBytesInv, NextBytesInv, PTL DEF Spec
=============================================================================

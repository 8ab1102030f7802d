------------------------------ MODULE MpackTree ------------------------------
(***************************************************************************)
(* The tree parser of lib/mpack/mpack-node.c: mpack_tree_parse for data    *)
(* that is all there and mpack_tree_try_parse for a stream that delivers   *)
(* it in pieces, into a buffer that grows and pages of nodes.              *)
(*                                                                         *)
(* tree holds the fields of mpack_tree_t and of its parser, with data the  *)
(* bytes from tree->data up to data_length, and buffer telling whether     *)
(* tree->buffer is there; and of the world around it                       *)
(* nodes, the contents of the pages or of the pool by address <<page,      *)
(* slot>>; heap, the blocks that are allocated; got, how much the read     *)
(* function has delivered; and stale, whether a number was read from a     *)
(* buffer that had moved.                                                  *)
(*                                                                         *)
(* A call parses one node in a step.  What can go more than one way (an    *)
(* allocation, a read) makes an operator yield a set of outcomes.          *)
(***************************************************************************)
EXTENDS Format, FiniteSets

CONSTANTS Streams,    \* bound: the bytes that the source has
          Setups,     \* how the tree is initialised: "buffer", "pool", "stream"
          BufferSize, \* MPACK_BUFFER_SIZE
          MaxSize,    \* max_message_size of a stream
          PoolCount,  \* nodes of the pool
          PageNodes,  \* MPACK_NODES_PER_PAGE
          Depth,      \* MPACK_NODE_INITIAL_DEPTH
          SizeMax,    \* SIZE_MAX
          Garbage     \* bound: the numbers that a freed buffer may hold

ASSUME SizeAssumption == /\ BufferSize \in Nat \ {0} /\ MaxSize \in Nat \ {0}
                         /\ SizeMax \in Nat /\ MaxSize <= SizeMax \div 2
ASSUME StorageAssumption == /\ PoolCount \in Nat \ {0} /\ PageNodes \in Nat \ {0}
                            /\ Depth \in Nat \ {0}
ASSUME SetupAssumption == Setups \subseteq {"buffer", "pool", "stream"}
ASSUME StreamsAssumption ==
    \A s \in Streams : /\ s \in Seq([t : DOMAIN Width \cup {"byte"}, n : Int])
                       /\ \A i \in DOMAIN s : s[i].t = "fixint" \/ s[i].n >= 0
ASSUME GarbageAssumption == Garbage \subseteq Nat

VARIABLES setup, stream,
          tree,
          call  \* the call in progress: "none", "try", "parse"; "destroyed" after the last

vars == <<setup, stream, tree, call>>

None == <<-1, 0>>
Blank == [type |-> "blank", len |-> 0, n |-> 0, child |-> None]

Buffer == <<"buffer", 0>>
Stack == <<"stack", 0>>
Page(p) == <<"page", p>>

Slots(p, count) == {p} \X (0 .. (count - 1))

(* What a step leads to: the tree, whether the function returned true, and *)
(* whether the buffer moved on the way                                     *)
Went(t) == [t |-> t, ok |-> TRUE, moved |-> FALSE]
Stopped(t) == [t |-> t, ok |-> FALSE, moved |-> FALSE]

(* mpack_tree_flag_error *)
FlagError(t, e) == IF t.error = "ok" THEN [t EXCEPT !.error = e] ELSE t

Failed(t, e) == {Stopped(FlagError(t, e))}

(* A step that follows another: where that one stopped, so does this *)
After(o, outcomes) == IF o.ok THEN outcomes ELSE {o}

-----------------------------------------------------------------------------
(* Bytes: filling the buffer, and reserving what a node needs *)

Limit == IF setup = "stream" THEN MaxSize ELSE SizeMax

Wrapped(n) == n % (SizeMax + 1)

(* The capacity is doubled from MPACK_BUFFER_SIZE until the bytes fit *)
Doubled(capacity, need) ==
    LET from == IF capacity = 0 THEN BufferSize ELSE capacity
    IN  from * 2 ^ (CHOOSE k \in 0 .. need : /\ from * 2 ^ k >= need
                                             /\ k > 0 => from * 2 ^ (k - 1) < need)

NewCapacity(capacity, need) ==
    LET doubled == Doubled(capacity, need) IN IF doubled > MaxSize THEN MaxSize ELSE doubled

(* The allocator moves a block, or extends it where it is *)
Grown(t, need) ==
    IF need <= t.capacity THEN {Went(t)}
    ELSE LET grown == [t EXCEPT !.capacity = NewCapacity(t.capacity, need),
                                !.buffer = TRUE, !.heap = @ \cup {Buffer}]
         IN  Failed(t, "memory")
             \cup {[t |-> grown, ok |-> TRUE, moved |-> m] : m \in BOOLEAN}

Delivered(t, n) == [t EXCEPT !.data = @ \o SubSeq(stream, t.got + 1, t.got + n),
                             !.got = @ + n,
                             !.possible = @ + n]

(* The loop around read_fn, which delivers in any pieces, has nothing more  *)
(* for now, or fails                                                       *)
Read(o) ==
    UNION {IF n > 0 /\ o.t.possible + n >= o.t.reserved THEN {[o EXCEPT !.t = Delivered(o.t, n)]}
           ELSE {Stopped(Delivered(o.t, n))} \cup Failed(Delivered(o.t, n), "io") :
           n \in {k \in 0 .. (Len(stream) - o.t.got) : Len(o.t.data) + k <= o.t.capacity}}

Fill(t) ==
    LET need == Wrapped(Len(t.data) + t.reserved)
    IN  IF need > Limit THEN Failed(t, "too_big")
        ELSE IF setup # "stream" THEN Failed(t, "invalid")
        ELSE UNION {After(o, Read(o)) : o \in Grown(t, need)}

(* Mutant of Reserve: what a node reserved before is not counted again *)
Reserve_last(t, bytes) ==
    LET more == [t EXCEPT !.reserved = bytes]
    IN  IF bytes <= t.possible THEN {Went(more)} ELSE Fill(more)

(* mpack_tree_reserve_bytes *)
Reserve(t, bytes) ==
    LET more == [t EXCEPT !.reserved = @ + bytes]
    IN  IF more.reserved > SizeMax THEN Failed(t, "invalid")
        ELSE IF more.reserved <= t.possible THEN {Went(more)}
        ELSE Fill(more)

-----------------------------------------------------------------------------
(* Nodes *)

Put(t, a, node) == [t EXCEPT !.nodes[a] = node]

Free(t) == CHOOSE p \in 1 .. (Len(t.pages) + 1) : \A i \in DOMAIN t.pages : t.pages[i] # p

(* A page of so many nodes, in front of the list *)
WithPage(t, count) ==
    LET p == Free(t)
    IN  [t EXCEPT !.pages = <<p>> \o @,
                  !.heap = @ \cup {Page(p)},
                  !.nodes = [a \in DOMAIN @ \cup Slots(p, count) |->
                               IF a \in DOMAIN @ THEN @[a] ELSE Blank]]

Advance(a, n) == <<a[1], a[2] + n>>

(* mpack_tree_push_stack: beyond the stack that is part of the parser it is *)
(* allocated, at twice the size                                            *)
PushStack(t, child, total) ==
    LET pushed == [t EXCEPT !.stack = Append(@, [child |-> child, left |-> total])]
    IN  IF total = 0 THEN {Went(t)}
        ELSE IF Len(t.stack) < t.room THEN {Went(pushed)}
        ELSE Failed(t, "memory")
             \cup {Went([pushed EXCEPT !.room = 2 * @, !.owned = TRUE,
                                       !.heap = @ \cup {Stack}])}

(* Room for the children of a node: in the current page, in a page of their *)
(* own, or in a new page that is then the current one                      *)
Taken(t, total) == [t EXCEPT !.next = Advance(@, total), !.left = @ - total]
NewPage(t, total) ==
    [WithPage(t, PageNodes) EXCEPT !.next = <<Free(t), total>>, !.left = PageNodes - total]

Placed(t, a, node, child, total) == PushStack(Put(t, a, [node EXCEPT !.child = child]), child, total)

Place(t, a, node, total) ==
    IF total <= t.left THEN Placed(Taken(t, total), a, node, t.next, total)
    ELSE IF t.pages = <<>> THEN Failed(t, "too_big")
    ELSE Failed(t, "memory") \cup
         IF total > PageNodes \/ t.left > PageNodes \div 8
         THEN Placed(WithPage(t, total), a, node, <<Free(t), 0>>, total)
         ELSE Placed(NewPage(t, total), a, node, <<Free(t), 0>>, total)

(* mpack_tree_parse_children *)
Children(t, a, node, total) ==
    IF total > SizeMax THEN Failed(t, "too_big")
    ELSE UNION {After(o, Place(o.t, a, node, total)) : o \in Reserve(t, total)}

(* The bytes of a string, a blob or an ext stay in the data: the node has   *)
(* their offset                                                            *)
Bytes(t, a, node) ==
    Reserve(Put(t, a, [node EXCEPT !.n = t.size + t.reserved + 1]), node.len)

ExtBytes(t, a, node) == Bytes([t EXCEPT !.reserved = @ + 1], a, node)

Node(type, len, n) == [Blank EXCEPT !.type = type, !.len = len, !.n = n]

(* What follows a tag and its number *)
Contents(t, a, type, n) ==
    CASE type = "array"           -> Children(t, a, Node(type, n, 0), n)
      [] type = "map"             -> Children(t, a, Node(type, n, 0), 2 * n)
      [] type \in {"str", "bin"} -> Bytes(t, a, Node(type, n, 0))
      [] type = "ext"             -> ExtBytes(t, a, Node(type, n, 0))
      [] OTHER                    -> {Went(Put(t, a, Node(type, 0, n)))}

(* The digits are read through a pointer into the data that was computed    *)
(* before they were reserved                                               *)
NumberBytes(t, first) == SubSeq(t.data, t.size + 2, t.size + 1 + Width[first.t])
Numbers(o, first) ==
    {TagNumber(first, NumberBytes(o.t, first))} \cup (IF o.moved THEN Garbage ELSE {})

ReadNumber(o, a, first) ==
    UNION {Contents([o.t EXCEPT !.stale = @ \/ o.moved], a, TypeOf(first), n) :
              n \in Numbers(o, first)}

(* A byte that is none is read as a tag only where a stale number has led   *)
(* the parser astray                                                       *)
AsTag(byte) == IF byte.t = "byte" THEN First("fixint", byte.n) ELSE byte

(* mpack_tree_parse_node_contents, of a node whose tag is in the data *)
ParseContents(t, a, first) ==
    IF first.t = "reserved" THEN Failed(t, "invalid")
    ELSE IF Width[first.t] = 0 THEN ReadNumber(Went(t), a, first)
    ELSE UNION {After(o, ReadNumber(o, a, first)) : o \in Reserve(t, Width[first.t])}

(* Mutant of ChildBytes: a pair is one node *)
ChildBytes_single(node) == IF node.type \in {"array", "map"} THEN node.len ELSE 0

(* The bytes that a node reserved for its children *)
ChildBytes(node) == CASE node.type = "array" -> node.len
                      [] node.type = "map"   -> 2 * node.len
                      [] OTHER               -> 0

(* mpack_tree_parse_node *)
Counted(t, a) ==
    Went([t EXCEPT !.possible = @ - t.reserved,
                   !.size = @ + t.reserved + 1 - ChildBytes(t.nodes[a])])
ParseNode(t, a) ==
    {IF o.ok THEN Counted(o.t, a) ELSE o :
        o \in ParseContents([t EXCEPT !.reserved = 0], a, AsTag(t.data[t.size + 1]))}

(* The levels that are left after those that are empty are popped *)
Popped(stack) ==
    LET open == {i \in DOMAIN stack : stack[i].left > 0}
    IN  IF open = {} THEN SubSeq(stack, 1, 1)
        ELSE SubSeq(stack, 1, CHOOSE i \in open : \A j \in open : j <= i)

(* One turn of the loop of mpack_tree_continue_parsing *)
OneLess(stack, level) == [stack EXCEPT ![level].left = @ - 1,
                                       ![level].child = Advance(@, 1)]
ChildParsed(t, level) == Went([t EXCEPT !.stack = Popped(OneLess(@, level))])
ParseNext(t) ==
    {IF o.ok THEN ChildParsed(o.t, Len(t.stack)) ELSE o :
        o \in ParseNode(t, t.stack[Len(t.stack)].child)}

-----------------------------------------------------------------------------
(* A tree *)

(* Mutant of Cleanup: the list of pages is freed and kept *)
Cleanup_listed(t) ==
    [t EXCEPT !.owned = FALSE, !.nodes = IF setup = "pool" THEN @ ELSE <<>>, !.heap = @ \cap {Buffer}]

(* mpack_tree_cleanup *)
Cleanup(t) ==
    LET pages == {Page(t.pages[i]) : i \in DOMAIN t.pages}
    IN  [t EXCEPT !.heap = @ \ (pages \cup (IF t.owned THEN {Stack} ELSE {})),
                  !.owned = FALSE,
                  !.pages = <<>>,
                  !.nodes = IF setup = "pool" THEN @ ELSE <<>>]

(* The message before is moved out of the buffer, or stepped over *)
Consumed(t) == [t EXCEPT !.data = SubSeq(@, t.size + 1, Len(@)), !.size = 0]

(* The first node, in the first page or in the pool *)
Rooted(t, at, count) ==
    Went([t EXCEPT !.root = at, !.next = Advance(at, 1), !.left = count - 1,
                   !.stack = <<[child |-> at, left |-> 1]>>,
                   !.room = Depth, !.owned = FALSE])

FirstPage(t) ==
    IF setup = "pool" THEN {Rooted(t, <<0, 0>>, PoolCount)}
    ELSE {Stopped([t EXCEPT !.error = "memory"])} \cup {Rooted(WithPage(t, PageNodes), <<1, 0>>, PageNodes)}

(* Mutant of Ready: what the buffer still holds is not counted *)
Ready_empty(t) == [t EXCEPT !.state = "in_progress", !.reserved = 0, !.possible = 0]

Ready(t) == [t EXCEPT !.state = "in_progress", !.reserved = 0, !.possible = Len(t.data)]

(* mpack_tree_parse_start *)
Start(t) ==
    UNION {IF o.ok THEN FirstPage([o.t EXCEPT !.possible = @ - 1])
           ELSE {Stopped([o.t EXCEPT !.state = "not_started"])} :
           o \in Reserve(Ready(Consumed(IF t.state = "parsed" THEN Cleanup(t) ELSE t)), 1)}

(* mpack_tree_init, mpack_tree_init_pool, mpack_tree_init_stream *)
New == [error |-> "ok", state |-> "not_started",
        data |-> IF setup = "stream" THEN <<>> ELSE stream,
        got |-> IF setup = "stream" THEN 0 ELSE Len(stream),
        size |-> 0, buffer |-> FALSE, capacity |-> 0, possible |-> 0, reserved |-> 0,
        next |-> None, left |-> 0, stack |-> <<>>, room |-> 0, owned |-> FALSE,
        pages |-> <<>>, root |-> None,
        nodes |-> IF setup = "pool" THEN [a \in Slots(0, PoolCount) |-> Blank] ELSE <<>>,
        heap |-> {}, stale |-> FALSE]

Init == /\ setup \in Setups
        /\ stream \in Streams
        /\ tree = New
        /\ call = "none"

Usable == call = "none" /\ tree.error = "ok"

(* What mpack_tree_parse makes of a parse that stopped *)
Given(t) == FlagError(t, IF setup = "stream" THEN "io" ELSE "invalid")

Ended(t, kind) == IF kind = "parse" THEN Given(t) ELSE t

(* mpack_tree_try_parse and mpack_tree_parse, up to their loop *)
Enter(kind) ==
    /\ Usable
    /\ IF tree.state = "in_progress" THEN call' = kind /\ tree' = tree
       ELSE \E o \in Start(tree) :
               IF o.ok THEN call' = kind /\ tree' = o.t
               ELSE call' = "none" /\ tree' = Ended(o.t, kind)
    /\ UNCHANGED <<setup, stream>>

TryParse == Enter("try")
Parse == Enter("parse")

(* The root is parsed once nothing is left on the stack *)
Done(t) == Len(t.stack) = 1 /\ t.stack[1].left = 0

Continue ==
    /\ call \in {"try", "parse"}
    /\ \E o \in ParseNext(tree) :
          IF ~o.ok THEN call' = "none" /\ tree' = Ended(o.t, call)
          ELSE IF Done(o.t) THEN call' = "none" /\ tree' = [o.t EXCEPT !.state = "parsed"]
          ELSE call' = call /\ tree' = o.t
    /\ UNCHANGED <<setup, stream>>

(* mpack_tree_root of a tree that was not parsed *)
RootTooEarly == /\ Usable /\ tree.state # "parsed"
                /\ tree' = FlagError(tree, "bug")
                /\ UNCHANGED <<setup, stream, call>>

Destroy == /\ call = "none"
           /\ call' = "destroyed"
           /\ tree' = [Cleanup(tree) EXCEPT !.heap = IF tree.buffer THEN @ \ {Buffer} ELSE @]
           /\ UNCHANGED <<setup, stream>>

Next == TryParse \/ Parse \/ Continue \/ RootTooEarly \/ Destroy

Spec == Init /\ [][Next]_vars

(* The program tries again, calls end, and the source delivers what it has; *)
(* no allocation or read has to fail                                       *)
Works == tree'.error \notin {"memory", "io"}
Delivers == Works /\ tree'.got > tree.got
Fairness == /\ WF_vars(TryParse /\ Works) /\ WF_vars(Continue /\ Works)
            /\ SF_vars(TryParse /\ Delivers) /\ SF_vars(Continue /\ Delivers)

FairSpec == Spec /\ Fairness

-----------------------------------------------------------------------------
(* Properties.  What a message means, and what is in a tree, are recursive: *)
(* they are in module MCMpackTree.                                         *)

(* The children that are still to come, at every level *)
Coming(stack) == UNION {{i} \X (1 .. stack[i].left) : i \in DOMAIN stack}
Pending(t) == Cardinality(Coming(t.stack))

(* Each byte of the data is one of a node that was parsed, is spoken for by *)
(* a node that is still to come, or may still become one (node.h:179-193).  *)
(* So the parser never allocates more nodes than there are bytes, but for   *)
(* what is left of the current page and an eighth of those before, however  *)
(* many elements a container announces.                                    *)
NodesWithinBytes ==
    tree.error = "ok" /\ tree.stack # <<>> /\ tree.state # "not_started" =>
        /\ Len(tree.data) = tree.size + Pending(tree) + tree.possible
        /\ setup # "pool" => Cardinality(DOMAIN tree.nodes) - tree.left
                                <= Len(tree.data) + (PageNodes \div 8) * Len(tree.pages)

(* The parser owns exactly the blocks it can still free: whatever fails on  *)
(* the way and however often parsing starts again, none is lost and none is *)
(* freed twice, and destroying the tree leaves nothing.                    *)
StorageIsOwn ==
    tree.heap = {Page(tree.pages[i]) : i \in DOMAIN tree.pages}
                \cup (IF tree.owned THEN {Stack} ELSE {})
                \cup (IF tree.buffer /\ call # "destroyed" THEN {Buffer} ELSE {})

=============================================================================

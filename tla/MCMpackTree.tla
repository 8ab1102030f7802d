---------------------------- MODULE MCMpackTree ----------------------------
(***************************************************************************)
(* Messages for the tree parser with bytes of Base = 8, and what is in a   *)
(* parsed tree against what its bytes mean.                                *)
(***************************************************************************)
EXTENDS MpackTree

Nil == <<First("nil", 0)>>
Times(n, b) == [i \in 1 .. n |-> b]

(* Nested arrays, four deep *)
Nested == <<First("fixarray", 1), First("fixarray", 2), First("fixarray", 1), First("fixmap", 1),
            First("fixint", 2), First("fixint", -1), First("true", 0)>>

(* Each kind of number, string and ext *)
Mixed == <<First("fixarray", 4)>> \o Tag("i16", -3) \o <<First("fixstr", 1), Byte(5)>>
         \o Tag("ext8", 2) \o <<Byte(1), Byte(4), Byte(6)>> \o <<First("fixext1", 0), Byte(2), Byte(7)>>

(* Containers that need the rest of a page, a new page and one of their own *)
Paged == <<First("fixarray", 6), First("fixarray", 2)>> \o Nil \o Nil
         \o <<First("fixarray", 7)>> \o [i \in 1 .. 11 |-> First("nil", 0)]

Wide == Tag("array32", 2) \o Tag("u8", 6) \o <<First("fixmap", 0)>>

(* Two messages, with nothing behind them or the beginning of a third *)
Pair == Tag("u16", 10) \o Nil
Two == Pair \o Tag("str8", 3)

(* As long as a message may be, and longer *)
Full == Tag("bin16", 13) \o Times(13, Byte(1))
TooLong == Tag("bin16", 14) \o Times(14, Byte(1))

(* Announcements that nothing follows *)
Huge == Tag("bin32", 4091)
HugeArray == Tag("array32", 4095)
HugeMap == Tag("map32", 2048)

Reserved == <<First("fixarray", 2), First("reserved", 0)>>

AllStreams == {Nested, Mixed, Paged, Wide, Pair, Two, Full, TooLong, Huge, HugeArray, HugeMap, Reserved}

-----------------------------------------------------------------------------
(* What a message means *)

(* As much as there is of so many bytes *)
Part(m, from, n) == SubSeq(m, from, IF from + n - 1 <= Len(m) THEN from + n - 1 ELSE Len(m))

RECURSIVE Denote(_, _), DenoteItems(_, _, _, _)

Cut(at) == [ok |-> FALSE, value |-> [type |-> "none"], next |-> at]

DenoteItems(m, at, n, items) ==
    IF n = 0 THEN [ok |-> TRUE, items |-> items, next |-> at]
    ELSE LET item == Denote(m, at)
         IN  IF item.ok THEN DenoteItems(m, item.next, n - 1, Append(items, item.value))
             ELSE [ok |-> FALSE, items |-> items, next |-> at]

Denote(m, at) ==
    IF at > Len(m) \/ (at <= Len(m) /\ m[at].t = "reserved") THEN Cut(at)
    ELSE IF at + TagSize(m[at].t) - 1 > Len(m) THEN Cut(at)
    ELSE LET head == ParseTag(m, at)
             type == TypeOf(m[at])
             next == at + TagSize(m[at].t)
         IN  CASE type \in {"array", "map"} ->
                     LET all == DenoteItems(m, next, head.n * (IF type = "map" THEN 2 ELSE 1), <<>>)
                     IN  [ok |-> all.ok, value |-> [type |-> type, items |-> all.items], next |-> all.next]
               [] type \in {"str", "bin"} ->
                     [ok |-> next + head.n - 1 <= Len(m),
                      value |-> [type |-> type, bytes |-> Part(m, next, head.n)],
                      next |-> next + head.n]
               [] type = "ext" ->
                     [ok |-> next + head.n - 1 <= Len(m),
                      value |-> [type |-> type, exttype |-> head.exttype,
                                 bytes |-> Part(m, next, head.n)],
                      next |-> next + head.n]
               [] OTHER -> [ok |-> TRUE, value |-> [type |-> type, n |-> head.n], next |-> next]

(* What is in a tree, from the node at an address *)
RECURSIVE View(_, _)
View(t, a) ==
    LET node == t.nodes[a]
        data == Part(t.data, node.n + 1, node.len)
    IN  CASE node.type \in {"array", "map"} ->
                [type |-> node.type, items |-> [i \in 1 .. (IF node.type = "map" THEN 2 ELSE 1) * node.len |->
                                                  View(t, Advance(node.child, i - 1))]]
          [] node.type \in {"str", "bin"} -> [type |-> node.type, bytes |-> data]
          [] node.type = "ext" -> [type |-> "ext", exttype |-> t.data[node.n].n, bytes |-> data]
          [] OTHER -> [type |-> node.type, n |-> node.n]

(* The message in question starts where the data does *)
Message == Denote(stream, tree.got - Len(tree.data) + 1)
Length == Message.next - (tree.got - Len(tree.data) + 1)

-----------------------------------------------------------------------------
(* Properties *)

Faithful == /\ Message.ok
            /\ View(tree, tree.root) = Message.value
            /\ tree.size = Length

Parsed == tree.state = "parsed" /\ call # "destroyed"

(* In whatever pieces a message arrives and wherever its nodes are put, the *)
(* tree that comes out of it is what the whole message means, and it is     *)
(* refused as invalid, at the root or at any node below, only if it is      *)
(* (node.c:725-940).  Excepted, and wrong in the code, is a tree for which  *)
(* a number was read from a buffer that had moved (node.c:362): TLC reaches *)
(* parsed trees of that kind whose number is not that of the message.       *)
ParsedUnlessMoved == ~tree.stale => /\ Parsed => Faithful
                                    /\ tree.error = "invalid" => ~Message.ok

(* A program that tries again for as long as it takes gets its message, or  *)
(* an error: the parser never waits for bytes that it has                  *)
Waiting == tree.state # "parsed" /\ ~tree.stale /\ Message.ok
Settled == tree.state = "parsed" \/ tree.error # "ok" \/ tree.stale \/ call = "destroyed"
ParsedInTheEnd == Waiting ~> Settled
=============================================================================

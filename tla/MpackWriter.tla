---------------------------- MODULE MpackWriter ----------------------------
(***************************************************************************)
(* The growable writer of lib/mpack (mpack-writer.c), as msgpack.c uses it *)
(* to encode every argument that crosses to the host.                      *)
(*                                                                         *)
(* The writer has one buffer in the garbage-collected heap, a cursor in it *)
(* and a sticky error.  Its flush function is "intrusive": it enlarges the *)
(* buffer instead of emptying it, and tells its three kinds of call apart  *)
(* by the cursor, which its caller resets first.  Any allocation may fail. *)
(*                                                                         *)
(* The value of a byte is its place in the message: the bytes of a write   *)
(* are asked+1 .. asked+n.  Only the cursor arithmetic decides where they  *)
(* land, so what is stored is right iff place i of the buffer holds i.     *)
(***************************************************************************)
EXTENDS Integers

CONSTANTS Capacity,  \* MPACK_BUFFER_SIZE, the first size of the buffer
          MinBuffer, \* MPACK_WRITER_MINIMUM_BUFFER_SIZE: what ensure() grants
          MaxSize,   \* the largest size_t
          MaxAsked,  \* bound: the bytes of one message
          NULL       \* the null pointer

ASSUME CapacityAssumption == Capacity \in Nat /\ MinBuffer \in Nat \ {0}
                             /\ MinBuffer <= Capacity
ASSUME BoundAssumption == MaxAsked \in Nat /\ MaxSize \in Nat
ASSUME NullAssumption == NULL \notin Nat

VARIABLES w,      \* the writer, with the heap blocks it allocated and freed
          asked,  \* history: the bytes the caller has asked to write
          phase,  \* where the caller is: msgpack_dump_new .. _close
          result  \* msgpack_result_t, with the bytes its pointer leads to

writerVars == <<w, asked, phase, result>>

Errors == {"ok", "memory", "too_big", "io"}

(* What the buffer holds, byte by byte: 0 where nothing was ever stored    *)
BytePlaces == 1 .. MaxAsked
Blank == [i \in BytePlaces |-> 0]
Bytes(f, n) == [i \in 1 .. n |-> f[i]]

Writer == [error : Errors, buffer : Nat \cup {NULL}, size : Nat, used : Nat,
           mem : [BytePlaces -> Nat], flush : BOOLEAN, heap : SUBSET Nat]

Phases == {"none", "open", "closed", "abandoned"}

Left(x) == x.size - x.used

(* memcpy(current, p, n); current += n: the bytes from+1 .. from+n *)
Put(x, from, n) ==
    [x EXCEPT !.used = @ + n,
              !.mem = [i \in BytePlaces |->
                          IF i \in (x.used + 1) .. (x.used + n)
                          THEN from + (i - x.used) ELSE x.mem[i]]]

(* mpack_writer_flag_error: the first error stays *)
FlagError(x, e) == [x EXCEPT !.error = IF @ = "ok" THEN e ELSE @]

PowerOfTwo(m) == \A d \in 2 .. m : m % d = 0 => d % 2 = 0

Doublings(size) == {size * m : m \in {m \in 2 .. MaxSize : PowerOfTwo(m)}}

(* new_size = size * 2; while (new_size < need) new_size *= 2;  There is   *)
(* none when the product passes the largest size_t: the loop would spin.   *)
NewSizes(size, need) ==
    {s \in Doublings(size) : /\ s <= MaxSize /\ s >= need
                             /\ \A t \in Doublings(size) : t < s => t < need}

(* mpack_realloc: a moved block with the old contents *)
Moved(x, s) == [x EXCEPT !.buffer = @ + 1, !.size = s,
                         !.heap = (@ \ {x.buffer}) \cup {x.buffer + 1}]

(* The growing part of mpack_growable_writer_flush, for "need" bytes *)
Grown(x, need) ==
    {FlagError(x, "memory")} \cup {Moved(x, s) : s \in NewSizes(x.size, need)}

(* mpack_writer_flush_unchecked: the cursor goes back to the start of the  *)
(* buffer, and flush is called on the buffer.  An empty buffer looks like  *)
(* the call at teardown, and is left alone.                                *)
FlushUnchecked(x) == IF x.used = 0 THEN {x} ELSE Grown(x, x.used)

(* Mutant of FlushExtra: room for the extra data only, not for what is     *)
(* in the buffer                                                           *)
FlushExtra_alone(x, from, n) ==
    {IF y.error = "ok" THEN Put(y, from, n) ELSE y : y \in Grown(x, n)}

(* flush(p, n) on data outside the buffer *)
FlushExtra(x, from, n) ==
    {IF y.error = "ok" THEN Put(y, from, n) ELSE y : y \in Grown(x, x.used + n)}

(* mpack_writer_ensure, followed by the caller's store when it succeeds *)
EnsureThenPut(x, from, n) ==
    IF x.error /= "ok" THEN {x}
    ELSE IF ~x.flush THEN {FlagError(x, "too_big")}
    ELSE {IF y.error /= "ok" THEN y
          ELSE IF Left(y) >= n THEN Put(y, from, n)
          ELSE FlagError(y, "io") : y \in FlushUnchecked(x)}

(* mpack_write_native_straddle *)
Straddle(x, from, n) ==
    IF x.error /= "ok" THEN {x}
    ELSE IF ~x.flush THEN {FlagError(x, "too_big")}
    ELSE UNION {IF y.error /= "ok" THEN {y}
                ELSE IF n > Left(y) THEN FlushExtra(y, from, n)
                ELSE {Put(y, from, n)} : y \in FlushUnchecked(x)}

(* The two ways in: MPACK_WRITE_ENCODED and its like, mpack_write_native *)
Encoded(x, from, n) ==
    IF Left(x) >= n THEN {Put(x, from, n)} ELSE EnsureThenPut(x, from, n)
Native(x, from, n) ==
    IF Left(x) < n THEN Straddle(x, from, n) ELSE {Put(x, from, n)}

----------------------------------------------------------------------------
NoResult == [data |-> NULL, size |-> 0, bytes |-> Bytes(Blank, 0)]

NoWriter == [error |-> "ok", buffer |-> NULL, size |-> 0, used |-> 0,
             mem |-> Blank, flush |-> FALSE, heap |-> {}]

WriterInit ==
    w = NoWriter /\ asked = 0 /\ phase = "none" /\ result = NoResult

(* mpack_writer_init_growable, called by msgpack_dump_new *)
InitGrowable ==
    /\ phase = "none"
    /\ w' \in {[NoWriter EXCEPT !.buffer = 0, !.size = Capacity, !.flush = TRUE,
                                !.heap = {0}],
               [NoWriter EXCEPT !.error = "memory"]}
    /\ phase' = "open"
    /\ UNCHANGED <<asked, result>>

(* Tags, scalars and short strings: at most MinBuffer bytes in one piece *)
WriteEncoded(n) == /\ phase = "open"
                   /\ w' \in Encoded(w, asked, n)
                   /\ asked' = asked + n
                   /\ UNCHANGED <<phase, result>>

(* The payload of strings, bytes and extension values, of any length *)
WriteNative(n) == /\ phase = "open"
                  /\ w' \in Native(w, asked, n)
                  /\ asked' = asked + n
                  /\ UNCHANGED <<phase, result>>

(* mpack_writer_destroy, called by msgpack_dump_close.  Its flush call is  *)
(* ignored: the flush function finds the cursor at the end of the data.    *)
(* mpack_growable_writer_teardown then shrinks the buffer, if its data is  *)
(* much smaller, and hands it over.                                        *)
Shrinks(x) == x.used < x.size \div 2

HandOver(x) == [data |-> x.buffer, size |-> x.used, bytes |-> Bytes(x.mem, x.used)]

(* Mutant of DestroyOk: teardown hands over whatever the buffer holds *)
DestroyOk_unchecked == /\ w' = [w EXCEPT !.buffer = NULL]
                       /\ result' = HandOver(w)

DestroyOk == /\ w.error = "ok"
             /\ LET x == IF Shrinks(w) THEN Moved(w, IF w.used = 0 THEN 1 ELSE w.used)
                                       ELSE w
                IN  /\ w' = [x EXCEPT !.buffer = NULL]
                    /\ result' = HandOver(x)

(* Mutant of ShrinkFails: the buffer is not freed *)
ShrinkFails_leaks == /\ w.error = "ok"
                     /\ Shrinks(w)
                     /\ w' = FlagError(w, "memory")
                     /\ UNCHANGED result

(* The buffer that cannot be shrunk is freed, not handed over *)
ShrinkFails == /\ w.error = "ok"
               /\ Shrinks(w)
               /\ w' = [FlagError(w, "memory") EXCEPT !.heap = @ \ {w.buffer}]
               /\ UNCHANGED result

DestroyFailed == /\ w.error /= "ok"
                 /\ w' = [w EXCEPT !.heap = @ \ {w.buffer}, !.buffer = NULL]
                 /\ UNCHANGED result

Destroy == /\ phase = "open"
           /\ DestroyOk \/ ShrinkFails \/ DestroyFailed
           /\ phase' = "closed"
           /\ UNCHANGED asked

(* msgpack_dump raises TypeError on a value it cannot encode: the writer   *)
(* is dropped where it stands                                              *)
Abandon == /\ phase = "open"
           /\ phase' = "abandoned"
           /\ UNCHANGED <<w, asked, result>>

WriterNext ==
    \/ InitGrowable \/ Destroy \/ Abandon
    \/ \E n \in 1 .. MinBuffer : asked + n <= MaxAsked /\ WriteEncoded(n)
    \/ \E n \in 0 .. MaxAsked : asked + n <= MaxAsked /\ WriteNative(n)

WriterSpec == WriterInit /\ [][WriterNext]_writerVars

----------------------------------------------------------------------------
WriterTypeOK ==
    /\ w \in Writer
    /\ asked \in 0 .. MaxAsked
    /\ phase \in Phases
    /\ result.data \in Nat \cup {NULL} /\ result.size \in Nat
          /\ DOMAIN result.bytes = 1 .. result.size

(* The cursor stays inside the buffer, the buffer is a live block of the   *)
(* heap, and nothing was ever stored past its end (mpack-writer.c:422-423, *)
(* 434-435, 741-742: stores that are not checked again).                   *)
NoOverrun == phase = "open" => /\ w.used <= w.size
                               /\ w.size > 0 => w.buffer \in w.heap

(* As long as no error is flagged, the buffer holds every byte that was    *)
(* asked for, once, in order: through growth, straddling writes and the    *)
(* cursor that flush_unchecked resets (mpack-writer.c:328, 148, 176).      *)
ContentsExact == phase = "open" /\ w.error = "ok" =>
                    /\ w.used = asked
                    /\ \A i \in 1 .. asked : w.mem[i] = i

(* A write fails for lack of memory only: growing always makes the room    *)
(* that ensure() wants, and the buffer of a live writer is always          *)
(* flushable (mpack-writer.c:370, 381, 403 are never reached).             *)
OnlyOutOfMemory == w.error \in {"ok", "memory"}

(* When the message is closed, its one block of memory has one owner: the  *)
(* caller has the whole message, or nothing and the block is freed         *)
(* (mpack-writer.c:192-221, msgpack.c:234-243).                            *)
OneOwner == phase = "closed" =>
               IF w.error = "ok"
               THEN /\ w.heap = {result.data}
                    /\ result.size = asked
               ELSE w.heap = {} /\ result = NoResult

(* The writer implements the log of bytes that its callers believe in *)
Status == CASE phase = "open"   -> IF w.error = "ok" THEN "open" ELSE "doomed"
            [] phase = "closed" -> IF w.error = "ok" THEN "delivered" ELSE "failed"
            [] OTHER            -> phase

Log == INSTANCE MessageLog
       WITH status <- Status, output <- result.bytes,
            length <- IF Status \in {"open", "delivered"} THEN w.used ELSE 0

LogSpec == Log!Spec
============================================================================

----------------------------- MODULE MessageLog -----------------------------
(***************************************************************************)
(* What a caller of the growable MessagePack writer relies on, without its *)
(* buffer: a message is a log of bytes.  A byte is named by its place in   *)
(* the message, so a log of n bytes is Bytes(n) and only its length is     *)
(* kept.  A write appends all its bytes, or dooms the message; a doomed    *)
(* message is never delivered; a delivered one is whole and in order.      *)
(***************************************************************************)
EXTENDS Naturals

VARIABLES status,  \* none, open, doomed, delivered, failed, abandoned
          length,  \* of the log that is being written
          output   \* the bytes the caller got

vars == <<status, length, output>>

Bytes(n) == [i \in 1 .. n |-> i]

Init == status = "none" /\ length = 0 /\ output = Bytes(0)

Open == /\ status = "none"
        /\ status' \in {"open", "doomed"}
        /\ UNCHANGED <<length, output>>

Extend == /\ status = "open"
          /\ length' > length
          /\ UNCHANGED <<status, output>>

Doom == /\ status = "open"
        /\ status' = "doomed"
        /\ length' = 0
        /\ UNCHANGED output

Deliver == /\ status = "open"
           /\ status' = "delivered"
           /\ output' = Bytes(length)
           /\ UNCHANGED length

Fail == /\ status \in {"open", "doomed"}
        /\ status' = "failed"
        /\ length' = 0
        /\ UNCHANGED output

(* The caller leaves with an exception *)
Abandon == /\ status \in {"open", "doomed"}
           /\ status' = "abandoned"
           /\ length' = 0
           /\ UNCHANGED output

Next == Open \/ Extend \/ Doom \/ Deliver \/ Fail \/ Abandon

Spec == Init /\ [][Next]_vars
=============================================================================

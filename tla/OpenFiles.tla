------------------------------ MODULE OpenFiles ------------------------------
(***************************************************************************)
(* What file objects promise: each has a file of its own and a cursor in   *)
(* it that nothing else moves, until it is closed; a closed one answers    *)
(* "closed" to everything, for ever; an operation that answers "error"     *)
(* changed nothing.  Descriptors are no part of the promise.               *)
(***************************************************************************)
EXTENDS Integers

CONSTANTS Objects, \* file objects
          Files,   \* what can be opened
          MaxPos   \* bound: the length of a file

VARIABLES objects, \* those that exist
          file,    \* file and cursor of those that are open
          answer   \* of the last operation: who asked, what it was told

vars == <<objects, file, answer>>

Opened == DOMAIN file
Closed == objects \ Opened

Answer(o, s, n) == answer' = [object |-> o, said |-> s, count |-> n]

Init == /\ objects = {} /\ file = << >>
        /\ \E o \in Objects : answer = [object |-> o, said |-> "error", count |-> 0]

MoveTo(o, p) == file' = [file EXCEPT ![o] = [file |-> @.file, pos |-> p]]

(* A new object, at the start of its file *)
Open(o, f) == /\ o \notin objects
              /\ objects' = objects \cup {o}
              /\ file' = [p \in Opened \cup {o} |->
                            IF p = o THEN [file |-> f, pos |-> 0] ELSE file[p]]
              /\ Answer(o, "done", 0)

Fail(o) == UNCHANGED <<objects, file>> /\ Answer(o, "error", 0)

Refuse(o) == o \in Closed /\ UNCHANGED <<objects, file>> /\ Answer(o, "closed", 0)

(* A read or a write of n bytes *)
Transfer(o, n) == /\ o \in Opened /\ file[o].pos + n <= MaxPos
                  /\ MoveTo(o, file[o].pos + n)
                  /\ UNCHANGED objects /\ Answer(o, "done", n)

(* tell() is a seek to where the cursor is *)
Seek(o, p) == /\ o \in Opened /\ MoveTo(o, p)
              /\ UNCHANGED objects /\ Answer(o, "done", p)

Flush(o) == o \in Opened /\ UNCHANGED <<objects, file>> /\ Answer(o, "done", 0)

Close(o) == /\ o \in Opened /\ file' = [p \in Opened \ {o} |-> file[p]]
            /\ UNCHANGED objects /\ Answer(o, "done", 0)

Forget(o) == /\ o \in objects
             /\ objects' = objects \ {o}
             /\ file' = [p \in Opened \ {o} |-> file[p]]
             /\ UNCHANGED answer

Next == \E o \in Objects :
           \/ \E f \in Files : Open(o, f)
           \/ \E n \in 0 .. MaxPos : Transfer(o, n) \/ Seek(o, n)
           \/ Fail(o) \/ Refuse(o) \/ Flush(o) \/ Close(o) \/ Forget(o)

Spec == Init /\ [][Next]_vars
=============================================================================

------------------------------- MODULE Floats -------------------------------
(***************************************************************************)
(* Floating point answers: the conversions (float) and (double) with which *)
(* mpack-expect.c and mpack-node.c answer for a number of another type.    *)
(* They are C's, which round to nearest, and may lose precision.           *)
(*                                                                         *)
(* To the scale of Format: a float has 24 bits for its digits, and these   *)
(* are three bytes; a double has 53, an eighth of seven bytes.  What the    *)
(* bytes of a float or of a double mean is left to IEEE 754: such a number *)
(* is named by its bytes.                                                  *)
(***************************************************************************)
EXTENDS Format

CONSTANT Ulps \* the powers of two, as far as 64 bits need them

ASSUME UlpsAssumption == /\ Ulps \subseteq Nat \ {0}
                         /\ \A u \in Ulps \ {1} : \E h \in Ulps : u = 2 * h
                         /\ \E u \in Ulps : Power(8) <= u

(* The functions that read a floating point number, what each accepts, and *)
(* the type that it answers in                                             *)
Accepts == [float |-> {"uint", "int", "float", "double"},
            double |-> {"uint", "int", "float", "double"},
            float_strict |-> {"float"},
            double_strict |-> {"float", "double"}]
AnswersIn == [float |-> "float", double |-> "double",
              float_strict |-> "float", double_strict |-> "double"]

(* The digits of a type are the numbers below 2^24 and below 2^53          *)
Significand == [float |-> Power(3), double |-> Power(7) \div 8]

Magnitude(n) == IF n < 0 THEN -n ELSE n

(* What the last place of a number counts *)
Ulp(a, p) == CHOOSE u \in Ulps : a < p * u /\ (u = 1 \/ p * u <= 2 * a)

(* A whole number to the nearest that has no more digits, to even if two   *)
(* are as near                                                             *)
RoundedUp(a, p) ==
    LET u == Ulp(a, p)
        q == a \div u
        r == a % u
    IN  IF 2 * r < u \/ (2 * r = u /\ q % 2 = 0) THEN q * u ELSE (q + 1) * u
Rounded(n, p) == IF n < 0 THEN -RoundedUp(-n, p) ELSE RoundedUp(n, p)

(* The answer of a function for a number of a type it accepts: a whole     *)
(* number, or what the bytes of a float or double mean, which a narrowing  *)
(* from double to float rounds                                             *)
Converted(f, type, n) ==
    LET to == AnswersIn[f]
    IN  IF type \in {"uint", "int"} THEN <<"whole", Rounded(n, Significand[to])>>
        ELSE IF type = "double" /\ to = "float" THEN <<"narrowed", n>>
        ELSE <<type, n>>

-----------------------------------------------------------------------------
(* What a program may rely on *)

(* x is the number of the type that is nearest to n: it has no more digits *)
(* than the type, its last place is as fine as they allow, and it is off   *)
(* by half of that at most; where the last place counts ones it is n.      *)
Nearest(type, n, x) ==
    \E u \in Ulps : /\ x % u = 0 /\ Magnitude(x) <= Significand[type] * u
                    /\ u = 1 \/ Significand[type] * u <= 2 * Magnitude(n)
                    /\ 2 * Magnitude(x - n) <= u

(* The answer says what the number does, as nearly as its type can *)
SaysNumber(f, type, n, answer) ==
    CASE type \in {"uint", "int"} -> answer[1] = "whole" /\ Nearest(AnswersIn[f], n, answer[2])
      [] type = "float"           -> answer = <<"float", n>>
      [] type = "double"          -> answer = <<IF AnswersIn[f] = "float" THEN "narrowed" ELSE "double", n>>

=============================================================================

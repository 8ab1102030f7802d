-------------------------- MODULE MpackNodeProofs --------------------------
(* Proofs about MpackNode: what a node is asked is answered truly, and an  *)
(* error has its cause, for every width of a byte, whatever tree was       *)
(* parsed and whichever way the program takes through it.                  *)
EXTENDS MpackNode, FiniteSetTheorems, SequenceTheorems, WellFoundedInduction, TLAPS

(* A set of natural numbers has a least one *)
LEMMA Least ==
    ASSUME NEW S, S \subseteq Nat, S # {}
    PROVE  \E n \in S : \A m \in S : n <= m
<1>. DEFINE R == OpToRel(<, Nat)
<1>1. IsWellFoundedOn(R, Nat)  BY NatLessThanWellFounded
<1>2. PICK n \in S : \A m \in S : <<m, n>> \notin R
  <2>. HIDE DEF R
  <2>. QED  BY <1>1, WFMin
<1>3. ASSUME NEW m \in S, m < n  PROVE FALSE
  <2>1. <<m, n>> \in Nat \X Nat  OBVIOUS
  <2>2. <<m, n>> \in R  BY <2>1, <1>3 DEF OpToRel
  <2>. QED  BY <1>2, <2>2
<1>. QED  BY <1>3

-----------------------------------------------------------------------------
(* Division, which rounds towards minus infinity *)

LEMMA Divided ==
    ASSUME NEW a \in Int, NEW m \in Nat \ {0}
    PROVE  a = m * (a \div m) + (a % m) /\ a % m \in 0 .. (m - 1) /\ a \div m \in Int
OBVIOUS

LEMMA NoMultiple ==
    ASSUME NEW m \in Nat \ {0}, NEW d \in Int, -m < m * d, m * d < m
    PROVE  d = 0
<1>1. CASE d >= 1
  <2>1. m * d >= m * 1  BY <1>1
  <2>. QED  BY <2>1
<1>2. CASE d <= -1
  <2>1. m * d <= m * (-1)  BY <1>2
  <2>. QED  BY <2>1
<1>. QED  BY <1>1, <1>2

(* The quotient and the rest are the only ones *)
LEMMA Quotient ==
    ASSUME NEW a \in Int, NEW m \in Nat \ {0}, NEW q \in Int, NEW r \in 0 .. (m - 1), a = q * m + r
    PROVE  a \div m = q /\ a % m = r
<1>. DEFINE e == a \div m  d == e - q  s == a % m
<1>1. a = m * e + s /\ s \in 0 .. (m - 1) /\ e \in Int  BY Divided
<1>2. m * d = r - s
  <2>1. m * d = m * e - m * q  BY <1>1
  <2>. QED  BY <2>1, <1>1
<1>3. d = 0  BY <1>1, <1>2, NoMultiple
<1>. QED  BY <1>1, <1>2, <1>3

LEMMA Downwards ==
    ASSUME NEW m \in Nat \ {0}, NEW q \in Int, q <= -1, NEW x \in Int, x = m * q
    PROVE  x <= -m
<1>1. m * q <= m * (-1)  OBVIOUS
<1>. QED  BY <1>1

LEMMA ByOne == ASSUME NEW a \in Int PROVE a \div 1 = a
BY Quotient, a = a * 1 + 0

LEMMA Products ==
    /\ \A x, y \in Int : x * y \in Int
    /\ \A x, y \in Nat \ {0} : x * y \in Nat \ {0}
OBVIOUS

LEMMA Associated == \A x, y, z \in Int : x * (y * z) = (x * y) * z /\ x * y = y * x
OBVIOUS

LEMMA Distributed == \A x, y, z \in Int : (x + y) * z = x * z + y * z
OBVIOUS

(* c is written with h above the places that m counts, and a in them; m    *)
(* counts the places above, of and below a digit; and that digit is the    *)
(* same in c and a                                                         *)
Above(c, h, m, a) == c = h * m + a
Places(m, s, b, p) == m = s * b * p
SameDigit(c, a, b, p) == (c \div p) % b = (a \div p) % b

(* A digit stays when a multiple of all that is above it is added *)
LEMMA DigitStays ==
    ASSUME NEW a \in Int, NEW h \in Int, NEW p \in Nat \ {0}, NEW s \in Nat \ {0}, NEW b \in Nat \ {0},
           NEW m \in Nat \ {0}, Places(m, s, b, p), NEW c \in Int, Above(c, h, m, a)
    PROVE  SameDigit(c, a, b, p)
<1>1. PICK q \in Int, r \in 0 .. (p - 1) : a = p * q + r /\ q = a \div p  BY Divided
<1>2. PICK t \in Int, low \in 0 .. (b - 1) : q = b * t + low /\ low = q % b  BY <1>1, Divided
<1>3. PICK g \in Int : g = h * s  BY Products
<1>4. PICK k \in Int : k = g * b + q  BY Products
<1>5. c = k * p + r
  <2>1. PICK e \in Int, x \in Int, y \in Int, w \in Int :
            e = g * b /\ x = e * p /\ y = q * p /\ w = k * p  BY Products
  <2>2. w = x + y  BY <1>4, <2>1, Distributed
  <2>3. h * m = x  BY <1>3, <2>1, Associated, Products DEF Places
  <2>4. c = x + a  BY <2>3 DEF Above
  <2>5. p * q = y  BY <2>1, Associated
  <2>6. a = y + r  BY <1>1, <2>5
  <2>7. c = w + r  BY <2>2, <2>4, <2>6
  <2>. QED  BY <2>1, <2>7
<1>6. c \div p = k  BY <1>5, Quotient
<1>7. PICK f \in Int : f = g + t  OBVIOUS
<1>8. k = f * b + low
  <2>1. PICK x \in Int, y \in Int, w \in Int : x = g * b /\ y = t * b /\ w = f * b  BY Products
  <2>2. w = x + y  BY <1>7, <2>1, Distributed
  <2>3. b * t = y  BY <2>1, Associated
  <2>4. k = x + q /\ q = y + low  BY <1>2, <1>4, <2>1, <2>3
  <2>5. k = w + low  BY <2>2, <2>4
  <2>. QED  BY <2>1, <2>5
<1>9. k % b = low  BY <1>8, Quotient
<1>. QED  BY <1>1, <1>2, <1>6, <1>9 DEF SameDigit

(* A digit above those of the lower part *)
LEMMA DigitAbove ==
    ASSUME NEW h \in Int, NEW p \in Nat \ {0}, NEW s \in Nat \ {0}, NEW a \in 0 .. (p - 1),
           NEW c \in Int, c = h * p + a
    PROVE  c \div (p * s) = h \div s
<1>1. PICK q \in Int, r \in 0 .. (s - 1) : h = s * q + r /\ q = h \div s  BY Divided
<1>2. PICK m \in Nat \ {0} : m = p * s  BY Products
<1>3. PICK x \in Int : x = r * p  BY Products
<1>4. x + a \in 0 .. (m - 1)
  <2>1. r * p <= (s - 1) * p /\ r * p >= 0  OBVIOUS
  <2>2. (s - 1) * p = p * s - p  OBVIOUS
  <2>. QED  BY <2>1, <2>2, <1>2, <1>3
<1>5. c = q * m + (x + a)
  <2>1. PICK y \in Int : y = s * q  BY Products
  <2>2. h * p = y * p + r * p  BY <1>1, <2>1, Distributed
  <2>3. y * p = q * m  BY <1>2, <2>1, Associated, Products
  <2>4. PICK z \in Int : z = q * m  BY Products
  <2>. QED  BY <1>3, <2>2, <2>3, <2>4
<1>6. c \div m = q  BY <1>4, <1>5, Quotient
<1>. QED  BY <1>1, <1>2, <1>6

-----------------------------------------------------------------------------
(* Numbers of bytes *)

LEMMA Powers ==
    /\ \A k \in 0 .. 8 : Power(k) \in Nat \ {0}
    /\ Power(0) = 1 /\ Power(1) = Base
    /\ Base \in Nat \ {0}
    /\ \A k \in 0 .. 3 : Power(4) = Power(3 - k) * Base * Power(k)
    /\ \A k \in 0 .. 7 : Power(8) = Power(7 - k) * Base * Power(k)
    /\ \A k \in 0 .. 4 : Power(4 + k) = Power(4) * Power(k)
<1>1. Base \in Nat \ {0}  BY BaseAssumption
<1>2. Squared \in Nat \ {0} /\ Squared = Base * Base  BY <1>1 DEF Squared
<1>3. Squared * Squared \in Nat \ {0} /\ Squared * Squared * Squared \in Nat \ {0}  BY <1>2
<1>4. \A k \in 0 .. 8 : Power(k) \in Nat \ {0}
  <2>. SUFFICES ASSUME NEW k \in 0 .. 8  PROVE Power(k) \in Nat \ {0}  OBVIOUS
  <2>1. k \in {0, 1, 2, 3, 4, 5, 6, 7, 8}  OBVIOUS
  <2>2. \A x, y \in Nat \ {0} : x * y \in Nat \ {0}  OBVIOUS
  <2>. QED  BY <1>1, <1>2, <1>3, <2>1, <2>2 DEF Power
<1>5. \A k \in 0 .. 3 : Power(4) = Power(3 - k) * Base * Power(k)
  <2>. SUFFICES ASSUME NEW k \in 0 .. 3  PROVE Power(4) = Power(3 - k) * Base * Power(k)  OBVIOUS
  <2>1. k \in {0, 1, 2, 3}  OBVIOUS
  <2>. QED  BY <1>1, <1>2, <2>1 DEF Power
<1>6. \A k \in 0 .. 7 : Power(8) = Power(7 - k) * Base * Power(k)
  <2>. SUFFICES ASSUME NEW k \in 0 .. 7  PROVE Power(8) = Power(7 - k) * Base * Power(k)  OBVIOUS
  <2>1. k \in {0, 1, 2, 3, 4, 5, 6, 7}  OBVIOUS
  <2>. QED  BY <1>1, <1>2, <2>1 DEF Power
<1>7. \A k \in 0 .. 4 : Power(4 + k) = Power(4) * Power(k)
  <2>. SUFFICES ASSUME NEW k \in 0 .. 4  PROVE Power(4 + k) = Power(4) * Power(k)  OBVIOUS
  <2>1. k \in {0, 1, 2, 3, 4}  OBVIOUS
  <2>. QED  BY <1>1, <1>2, <2>1 DEF Power
<1>. QED  BY <1>1, <1>4, <1>5, <1>6, <1>7 DEF Power

LEMMA BytesAre ==
    ASSUME NEW b \in Bytes_, NEW i \in 1 .. Len(b)
    PROVE  b[i].n \in 0 .. (Base - 1) /\ Digit(b[i]) = b[i].n /\ b[i] = Byte(b[i].n)
<1>. DEFINE S == [t : {"byte"}, n : 0 .. (Base - 1)]
<1>1. b \in Seq(S)  BY DEF Bytes_
<1>2. b[i] \in S
  <2>. HIDE DEF S
  <2>. QED  BY <1>1
<1>3. PICK B \in Nat \ {0} : B = Base  BY Powers
<1>4. PICK d \in 0 .. (B - 1) : d = b[i].n  BY <1>2, <1>3
<1>5. d % B = d  BY Quotient, d = 0 * B + d
<1>. QED  BY <1>2, <1>3, <1>4, <1>5 DEF Digit, Byte

(* What is loaded from four bytes: each is a digit of it *)
LEMMA Loaded32 ==
    ASSUME NEW b \in Bytes_, NEW i \in Nat \ {0}, i + 3 <= Len(b)
    PROVE  /\ Load32(b, i) \in 0 .. (Power(4) - 1)
           /\ \A j \in 0 .. 3 : (Load32(b, i) \div Power(3 - j)) % Base = b[i + j].n
<1>1. Len(b) \in Nat  BY DEF Bytes_
<1>2. i \in 1 .. Len(b) /\ i + 1 \in 1 .. Len(b) /\ i + 2 \in 1 .. Len(b) /\ i + 3 \in 1 .. Len(b)  BY <1>1
<1>3. PICK B \in Nat \ {0}, P \in Nat \ {0} : B = Base /\ P = Power(2) /\ P = B * B
  BY Powers DEF Power, Squared
<1>4. PICK d0 \in 0 .. (B - 1), d1 \in 0 .. (B - 1), d2 \in 0 .. (B - 1), d3 \in 0 .. (B - 1) :
        /\ d0 = b[i].n /\ d0 = Digit(b[i])
        /\ d1 = b[i + 1].n /\ d1 = Digit(b[i + 1])
        /\ d2 = b[i + 2].n /\ d2 = Digit(b[i + 2])
        /\ d3 = b[i + 3].n /\ d3 = Digit(b[i + 3])
  BY <1>2, <1>3, BytesAre
<1>5. PICK h \in Int, l \in Int : h = d0 * B + d1 /\ l = d2 * B + d3  BY Products
<1>6. PICK n \in Int : n = h * P + l  BY Products
<1>7. Load32(b, i) = n
  <2>1. (i + 2) + 1 = i + 3  OBVIOUS
  <2>2. Load16(b, i) = h /\ Load16(b, i + 2) = l  BY <1>3, <1>4, <1>5, <2>1 DEF Load16
  <2>. QED  BY <1>3, <1>6, <2>2 DEF Load32
<1>8. Power(0) = 1 /\ Power(1) = B /\ Power(3) = P * B /\ Power(4) = P * P  BY <1>3 DEF Power, Squared
<1>9. \A x, y \in 0 .. (B - 1) : x * B + y \in 0 .. (P - 1)
  <2>. SUFFICES ASSUME NEW x \in 0 .. (B - 1), NEW y \in 0 .. (B - 1)  PROVE x * B + y \in 0 .. (P - 1)
    OBVIOUS
  <2>1. x * B <= (B - 1) * B /\ x * B >= 0  OBVIOUS
  <2>2. (B - 1) * B = P - B  BY <1>3
  <2>. QED  BY <2>1, <2>2
<1>10. h \in 0 .. (P - 1) /\ l \in 0 .. (P - 1)  BY <1>5, <1>9
<1>11. h \div B = d0 /\ h % B = d1  BY <1>5, Quotient
<1>12. l \div B = d2 /\ l % B = d3  BY <1>5, Quotient
<1>13. d0 % B = d0  BY Quotient, d0 = 0 * B + d0
<1>14. d2 % B = d2  BY Quotient, d2 = 0 * B + d2
<1>15. n \in 0 .. (P * P - 1)
  <2>1. h * P <= (P - 1) * P /\ h * P >= 0  BY <1>10
  <2>2. (P - 1) * P = P * P - P  OBVIOUS
  <2>. QED  BY <1>6, <1>10, <2>1, <2>2
<1>16. Above(n, h, P, l)  BY <1>6 DEF Above
<1>17. (n \div 1) % B = d3
  <2>1. PICK u \in Nat \ {0} : u = 1  OBVIOUS
  <2>2. Places(P, B, B, u)  BY <1>3, <2>1 DEF Places
  <2>3. SameDigit(n, l, B, u)  BY <1>16, <2>2, DigitStays
  <2>. QED  BY <1>12, <2>1, <2>3, ByOne DEF SameDigit
<1>18. (n \div B) % B = d2
  <2>1. PICK u \in Nat \ {0} : u = 1  OBVIOUS
  <2>2. Places(P, u, B, B)  BY <1>3, <2>1 DEF Places
  <2>3. SameDigit(n, l, B, B)  BY <1>16, <2>2, DigitStays
  <2>. QED  BY <1>12, <1>14, <2>3 DEF SameDigit
<1>19. (n \div P) % B = d1
  <2>1. n \div P = h  BY <1>6, <1>10, Quotient
  <2>. QED  BY <1>11, <2>1
<1>20. (n \div (P * B)) % B = d0
  <2>1. n \div (P * B) = h \div B  BY <1>6, <1>10, DigitAbove
  <2>. QED  BY <1>11, <1>13, <2>1
<1>21. /\ n \in 0 .. (P * P - 1)
      /\ (n \div (P * B)) % B = d0
      /\ (n \div P) % B = d1
      /\ (n \div B) % B = d2
      /\ (n \div 1) % B = d3
  BY <1>15, <1>17, <1>18, <1>19, <1>20
<1>22. ASSUME NEW j \in 0 .. 3  PROVE (n \div Power(3 - j)) % Base = b[i + j].n
  <2>1. CASE j = 0
    <3>1. 3 - j = 3 /\ i + j = i  BY <2>1
    <3>. QED  BY <1>3, <1>4, <1>8, <1>21, <3>1
  <2>2. CASE j = 1
    <3>1. 3 - j = 2 /\ i + j = i + 1  BY <2>2
    <3>. QED  BY <1>3, <1>4, <1>8, <1>21, <3>1
  <2>3. CASE j = 2
    <3>1. 3 - j = 1 /\ i + j = i + 2  BY <2>3
    <3>. QED  BY <1>3, <1>4, <1>8, <1>21, <3>1
  <2>4. CASE j = 3
    <3>1. 3 - j = 0 /\ i + j = i + 3  BY <2>4
    <3>. QED  BY <1>3, <1>4, <1>8, <1>21, <3>1
  <2>. QED  BY <2>1, <2>2, <2>3, <2>4
<1>. QED  BY <1>7, <1>8, <1>21, <1>22

LEMMA Digits4 ==
    ASSUME NEW b \in Bytes_, Len(b) = 4
    PROVE  Number(b) \in 0 .. (Power(4) - 1) /\ Digits(Number(b), 4) = b
<1>1. Number(b) = Load32(b, 1)  BY DEF Number
<1>. DEFINE n == Load32(b, 1)
<1>2. n \in 0 .. (Power(4) - 1) /\ \A j \in 0 .. 3 : (n \div Power(3 - j)) % Base = b[1 + j].n
  <2>1. 1 \in Nat \ {0} /\ 1 + 3 <= Len(b)  OBVIOUS
  <2>. QED  BY <2>1, Loaded32
<1>3. ASSUME NEW k \in 1 .. 4  PROVE Byte((n \div Power(4 - k)) % Base) = b[k]
  <2>1. PICK j \in 0 .. 3 : j = k - 1  OBVIOUS
  <2>2. 4 - k = 3 - j /\ k = 1 + j  BY <2>1
  <2>3. (n \div Power(3 - j)) % Base = b[1 + j].n  BY <1>2
  <2>. QED  BY <2>2, <2>3, BytesAre
<1>4. b = [k \in 1 .. 4 |-> b[k]]  BY DEF Bytes_
<1>. QED  BY <1>1, <1>2, <1>3, <1>4 DEF Digits

LEMMA Digits8 ==
    ASSUME NEW b \in Bytes_, Len(b) = 8
    PROVE  Number(b) \in 0 .. (Power(8) - 1) /\ Digits(Number(b), 8) = b
<1>1. PICK P \in Nat \ {0} : P = Power(4)  BY Powers
<1>2. PICK h \in 0 .. (P - 1), l \in 0 .. (P - 1) : h = Load32(b, 1) /\ l = Load32(b, 5)
  <2>1. 1 \in Nat \ {0} /\ 1 + 3 <= Len(b) /\ 5 \in Nat \ {0} /\ 5 + 3 <= Len(b)  OBVIOUS
  <2>. QED  BY <1>1, <2>1, Loaded32
<1>3. \A j \in 0 .. 3 : (h \div Power(3 - j)) % Base = b[1 + j].n
  <2>1. 1 \in Nat \ {0} /\ 1 + 3 <= Len(b)  OBVIOUS
  <2>. QED  BY <1>2, <2>1, Loaded32
<1>4. \A j \in 0 .. 3 : (l \div Power(3 - j)) % Base = b[5 + j].n
  <2>1. 5 \in Nat \ {0} /\ 5 + 3 <= Len(b)  OBVIOUS
  <2>. QED  BY <1>2, <2>1, Loaded32
<1>5. PICK n \in Int : n = h * P + l  BY Products
<1>6. Number(b) = n
  <2>1. 1 + 4 = 5  OBVIOUS
  <2>. QED  BY <1>1, <1>2, <1>5, <2>1 DEF Number, Load64
<1>7. n \in 0 .. (P * P - 1)
  <2>1. h * P <= (P - 1) * P /\ h * P >= 0  OBVIOUS
  <2>2. (P - 1) * P = P * P - P  OBVIOUS
  <2>3. P * P \in Nat  BY Products
  <2>. QED  BY <1>5, <2>1, <2>2, <2>3
<1>8. Power(8) = P * P
  <2>1. 4 + 4 = 8  OBVIOUS
  <2>. QED  BY <1>1, <2>1, Powers
<1>9. ASSUME NEW k \in 1 .. 4  PROVE (n \div Power(8 - k)) % Base = b[k].n
  <2>1. PICK S \in Nat \ {0} : S = Power(4 - k)  BY Powers
  <2>2. Power(8 - k) = P * S
    <3>1. 4 - k \in 0 .. 4 /\ 4 + (4 - k) = 8 - k  OBVIOUS
    <3>. QED  BY <1>1, <2>1, <3>1, Powers
  <2>3. n \div (P * S) = h \div S  BY <1>5, DigitAbove
  <2>4. k - 1 \in 0 .. 3 /\ 3 - (k - 1) = 4 - k /\ 1 + (k - 1) = k  OBVIOUS
  <2>5. (h \div S) % Base = b[k].n  BY <1>3, <2>1, <2>4
  <2>. QED  BY <2>2, <2>3, <2>5
<1>10. ASSUME NEW k \in 5 .. 8  PROVE (n \div Power(8 - k)) % Base = b[k].n
  <2>1. PICK S \in Nat \ {0}, T \in Nat \ {0}, B \in Nat \ {0} :
          S = Power(8 - k) /\ T = Power(3 - (8 - k)) /\ B = Base
    BY Powers
  <2>2. Places(P, T, B, S)
    <3>1. 8 - k \in 0 .. 3  OBVIOUS
    <3>. QED  BY <1>1, <2>1, <3>1, Powers DEF Places
  <2>3. Above(n, h, P, l)  BY <1>5 DEF Above
  <2>4. SameDigit(n, l, B, S)  BY <2>2, <2>3, DigitStays
  <2>5. k - 5 \in 0 .. 3 /\ 3 - (k - 5) = 8 - k /\ 5 + (k - 5) = k  OBVIOUS
  <2>6. (l \div S) % B = b[k].n  BY <1>4, <2>1, <2>5
  <2>. QED  BY <2>1, <2>4, <2>6 DEF SameDigit
<1>11. ASSUME NEW k \in 1 .. 8  PROVE Byte((n \div Power(8 - k)) % Base) = b[k]
  <2>1. (n \div Power(8 - k)) % Base = b[k].n
    <3>1. CASE k \in 1 .. 4  BY <1>9, <3>1
    <3>2. CASE k \in 5 .. 8  BY <1>10, <3>2
    <3>. QED  BY <3>1, <3>2
  <2>. QED  BY <2>1, BytesAre
<1>12. b = [k \in 1 .. 8 |-> b[k]]  BY DEF Bytes_
<1>. QED  BY <1>6, <1>7, <1>8, <1>11, <1>12 DEF Digits

(* Read as signed, a number keeps its digits *)
LEMMA SignedDigits ==
    ASSUME NEW n \in 0 .. (Power(8) - 1)
    PROVE  Signed(n, 8) \in Int /\ Digits(Signed(n, 8), 8) = Digits(n, 8)
<1>1. PICK P \in Nat \ {0} : P = Power(8)  BY Powers
<1>2. n % P = n  BY <1>1, Quotient, n = 0 * P + n
<1>3. Signed(n, 8) \in {n, n - P}  BY <1>1, <1>2 DEF Signed
<1>4. PICK c \in Int : c = n - P  OBVIOUS
<1>5. Above(c, -1, P, n)  BY <1>4 DEF Above
<1>6. ASSUME NEW k \in 1 .. 8  PROVE (c \div Power(8 - k)) % Base = (n \div Power(8 - k)) % Base
  <2>1. PICK S \in Nat \ {0}, T \in Nat \ {0}, B \in Nat \ {0} :
          S = Power(8 - k) /\ T = Power(7 - (8 - k)) /\ B = Base
    BY Powers
  <2>2. Places(P, T, B, S)
    <3>1. 8 - k \in 0 .. 7  OBVIOUS
    <3>. QED  BY <1>1, <2>1, <3>1, Powers DEF Places
  <2>3. -1 \in Int  OBVIOUS
  <2>4. SameDigit(c, n, B, S)  BY <1>5, <2>2, <2>3, DigitStays
  <2>. QED  BY <2>1, <2>4 DEF SameDigit
<1>7. Digits(c, 8) = Digits(n, 8)  BY <1>6 DEF Digits
<1>. QED  BY <1>3, <1>4, <1>7

LEMMA Even ==
    ASSUME NEW k \in {1, 2, 4, 8}
    PROVE  \E h \in Nat \ {0} : Power(k) = 2 * h /\ Power(k) \div 2 = h
<1>1. PICK B \in Nat \ {0} : B = Base  BY Powers
<1>2. PICK h1 \in Nat \ {0} : B = 2 * h1
  <2>1. B % 8 = 0  BY <1>1, BaseAssumption
  <2>2. PICK q \in Int : B = 8 * q  BY <2>1, Divided
  <2>3. 4 * q \in Nat \ {0} /\ B = 2 * (4 * q)  BY <2>2
  <2>. QED  BY <2>3
<1>3. PICK S \in Nat \ {0}, h2 \in Nat \ {0} : S = Squared /\ S = 2 * h2
  <2>1. B * B = 2 * (h1 * B)  BY <1>2
  <2>2. PICK x \in Nat \ {0}, y \in Nat \ {0} : x = B * B /\ y = h1 * B  BY Products
  <2>. QED  BY <1>1, <2>1, <2>2 DEF Squared
<1>4. PICK Q \in Nat \ {0}, h4 \in Nat \ {0} : Q = S * S /\ Q = 2 * h4
  <2>1. S * S = 2 * (h2 * S)  BY <1>3
  <2>2. PICK x \in Nat \ {0}, y \in Nat \ {0} : x = S * S /\ y = h2 * S  BY Products
  <2>. QED  BY <2>1, <2>2
<1>5. PICK E \in Nat \ {0}, h8 \in Nat \ {0} : E = Q * Q /\ E = 2 * h8
  <2>1. Q * Q = 2 * (h4 * Q)  BY <1>4
  <2>2. PICK x \in Nat \ {0}, y \in Nat \ {0} : x = Q * Q /\ y = h4 * Q  BY Products
  <2>. QED  BY <2>1, <2>2
<1>6. \A h \in Nat : (2 * h) \div 2 = h  OBVIOUS
<1>7. Power(1) = B /\ Power(2) = S /\ Power(4) = Q  BY <1>1, <1>3, <1>4 DEF Power
<1>8. Power(8) = E
  <2>1. 4 + 4 = 8  OBVIOUS
  <2>. QED  BY <1>5, <1>7, <2>1, Powers
<1>9. CASE k = 1  BY <1>2, <1>6, <1>7, <1>9
<1>10. CASE k = 2  BY <1>3, <1>6, <1>7, <1>10
<1>11. CASE k = 4  BY <1>4, <1>6, <1>7, <1>11
<1>12. CASE k = 8  BY <1>5, <1>6, <1>8, <1>12
<1>. QED  BY <1>9, <1>10, <1>11, <1>12

(* The limits of 64 bits *)
LEMMA Longest ==
    \E h \in Nat \ {0} : /\ Power(8) = 2 * h /\ Lowest["i64"] = -h /\ Highest["i64"] = h - 1
                         /\ Highest["u64"] = 2 * h - 1
<1>1. 8 \in {1, 2, 4, 8}  OBVIOUS
<1>2. PICK h \in Nat \ {0} : Power(8) = 2 * h /\ Power(8) \div 2 = h  BY <1>1, Even
<1>3. Lowest["i64"] = -(Power(8) \div 2) /\ Highest["i64"] = Power(8) \div 2 - 1 /\ Highest["u64"] = Power(8) - 1
  BY DEF Lowest, Highest
<1>4. Lowest["i64"] = -h /\ Highest["i64"] = h - 1 /\ Highest["u64"] = 2 * h - 1  BY <1>2, <1>3
<1>. QED  BY <1>2, <1>4

(* and is one of 64 signed bits *)
LEMMA SignedRange ==
    ASSUME NEW n \in 0 .. (Power(8) - 1)
    PROVE  Signed(n, 8) \in Lowest["i64"] .. Highest["i64"]
<1>1. PICK h \in Nat \ {0} : Power(8) = 2 * h /\ Lowest["i64"] = -h /\ Highest["i64"] = h - 1  BY Longest
<1>2. PICK P \in Nat \ {0} : P = Power(8) /\ P = 2 * h /\ P \div 2 = h
  <2>1. (2 * h) \div 2 = h  OBVIOUS
  <2>. QED  BY <1>1, <2>1, Powers
<1>3. n % P = n  BY <1>2, Quotient, n = 0 * P + n
<1>4. Signed(n, 8) = IF n >= h THEN n - P ELSE n  BY <1>2, <1>3 DEF Signed
<1>5. n \in 0 .. (P - 1)  BY <1>2
<1>. QED  BY <1>1, <1>2, <1>4, <1>5

-----------------------------------------------------------------------------
(* Time stamps *)

LEMMA Seconds34Positive == Seconds34 \in Nat \ {0}
<1>1. PICK P \in Nat \ {0} : P = Power(4)  BY Powers
<1>. QED  BY <1>1 DEF Seconds34

LEMMA NaturalPowers ==
    /\ \A n \in 0 .. (Power(4) - 1) : n \in Nat
    /\ \A n \in 0 .. (Power(8) - 1) : n \in Nat
<1>1. PICK P \in Nat \ {0}, Q \in Nat \ {0} : P = Power(4) /\ Q = Power(8)  BY Powers
<1>2. (\A n \in 0 .. (P - 1) : n \in Nat) /\ (\A n \in 0 .. (Q - 1) : n \in Nat)  OBVIOUS
<1>. QED  BY <1>1, <1>2

LEMMA SubBytes ==
    ASSUME NEW b \in Bytes_, NEW i \in 1 .. Len(b), NEW j \in i .. Len(b)
    PROVE  SubSeq(b, i, j) \in Bytes_ /\ Len(SubSeq(b, i, j)) = j - i + 1
<1>. DEFINE S == [t : {"byte"}, n : 0 .. (Base - 1)]
<1>1. b \in Seq(S)  BY DEF Bytes_
<1>2. SubSeq(b, i, j) \in Seq(S) /\ Len(SubSeq(b, i, j)) = j - i + 1
  <2>. HIDE DEF S
  <2>. QED  BY <1>1, SubSeqProperties
<1>. QED  BY <1>2 DEF Bytes_

LEMMA Halves ==
    ASSUME NEW b \in Bytes_, Len(b) = 12
    PROVE  SubSeq(b, 1, 4) \o SubSeq(b, 5, 12) = b
<1>. DEFINE S == [t : {"byte"}, n : 0 .. (Base - 1)]
<1>1. b \in Seq(S)  BY DEF Bytes_
<1>. HIDE DEF S
<1>2. SubSeq(b, 1, 4) \o SubSeq(b, 5, 12) = SubSeq(b, 1, 12)
  <2>1. 1 \in 1 .. Len(b) + 1 /\ 4 \in (1 - 1) .. Len(b) /\ 12 \in 4 .. Len(b) /\ 4 + 1 = 5  OBVIOUS
  <2>. QED  BY <1>1, <2>1, ConcatAdjacentSubSeq
<1>. QED  BY <1>1, <1>2, SubSeqFull

(* A time stamp whose nanoseconds are in range is read for what it says *)
LEMMA SplitStamped ==
    ASSUME NEW b \in Bytes_, Len(b) \in {4, 8, 12}, ~(Split(b).nano > MaxNano)
    PROVE  Stamped(b, Split(b))
<1>. USE NanoAssumption
<1>1. CASE Len(b) = 4
  <2>1. Split(b) = [seconds |-> Number(b), nano |-> 0]  BY <1>1 DEF Split
  <2>2. Number(b) \in 0 .. (Power(4) - 1) /\ Digits(Number(b), 4) = b  BY <1>1, Digits4
  <2>3. 0 \in 0 .. MaxNano  OBVIOUS
  <2>. QED  BY <2>1, <2>2, <2>3 DEF Stamped
<1>2. CASE Len(b) = 8
  <2>1. PICK S \in Nat \ {0} : S = Seconds34  BY Seconds34Positive
  <2>2. PICK n \in Int : n >= 0 /\ n = Number(b) /\ Digits(n, 8) = b
    <3>1. PICK P \in Nat \ {0} : P = Power(8)  BY Powers
    <3>. QED  BY <1>2, <3>1, Digits8
  <2>3. Split(b) = [seconds |-> n % S, nano |-> n \div S]  BY <1>2, <2>1, <2>2 DEF Split
  <2>4. PICK q \in Int, r \in 0 .. (S - 1) : n = S * q + r /\ q = n \div S /\ r = n % S  BY Divided
  <2>5. q >= 0
    <3>1. PICK x \in Int : x = S * q  BY Products
    <3>2. ~(q <= -1 /\ x <= -S)  BY <2>2, <2>4, <3>1
    <3>. QED  BY <3>1, <3>2, Downwards
  <2>6. q * S + r = n  BY <2>4, Associated
  <2>. QED  BY <2>1, <2>2, <2>3, <2>4, <2>5, <2>6 DEF Stamped
<1>3. CASE Len(b) = 12
  <2>1. PICK low, high \in Bytes_ : low = SubSeq(b, 1, 4) /\ Len(low) = 4 /\ high = SubSeq(b, 5, 12) /\ Len(high) = 8
    <3>1. 1 \in 1 .. Len(b) /\ 4 \in 1 .. Len(b) /\ 4 - 1 + 1 = 4  BY <1>3
    <3>2. SubSeq(b, 1, 4) \in Bytes_ /\ Len(SubSeq(b, 1, 4)) = 4  BY <3>1, SubBytes
    <3>3. 5 \in 1 .. Len(b) /\ 12 \in 5 .. Len(b) /\ 12 - 5 + 1 = 8  BY <1>3
    <3>4. SubSeq(b, 5, 12) \in Bytes_ /\ Len(SubSeq(b, 5, 12)) = 8  BY <3>3, SubBytes
    <3>. QED  BY <3>2, <3>4
  <2>2. Split(b) = [seconds |-> Signed(Number(high), 8), nano |-> Number(low)]  BY <1>3, <2>1 DEF Split
  <2>3. Number(low) \in Nat /\ Digits(Number(low), 4) = low  BY <2>1, Digits4, NaturalPowers
  <2>4. /\ Signed(Number(high), 8) \in Lowest["i64"] .. Highest["i64"]
        /\ Digits(Signed(Number(high), 8), 8) = high
    BY <2>1, Digits8, SignedDigits, SignedRange
  <2>5. low \o high = b  BY <1>3, <2>1, Halves
  <2>. QED  BY <2>2, <2>3, <2>4, <2>5 DEF Stamped
<1>. QED  BY <1>1, <1>2, <1>3

(* One whose nanoseconds are not is no time stamp *)
LEMMA SplitInvalid ==
    ASSUME NEW b \in Bytes_, Len(b) \in {4, 8, 12}, Split(b).nano > MaxNano
    PROVE  ~IsStamp(b)
<1>. USE NanoAssumption
<1>1. CASE Len(b) = 4
  <2>1. Split(b) = [seconds |-> Number(b), nano |-> 0]  BY <1>1 DEF Split
  <2>. QED  BY <2>1
<1>2. CASE Len(b) = 8
  <2>1. PICK S \in Nat \ {0} : S = Seconds34  BY Seconds34Positive
  <2>2. PICK n \in Int : n >= 0 /\ n = Number(b)
    <3>1. PICK P \in Nat \ {0} : P = Power(8)  BY Powers
    <3>. QED  BY <1>2, <3>1, Digits8
  <2>3. Split(b) = [seconds |-> n % S, nano |-> n \div S]  BY <1>2, <2>1, <2>2 DEF Split
  <2>4. PICK q \in Int, r \in 0 .. (S - 1) : n = S * q + r /\ q = n \div S  BY Divided
  <2>5. q >= MaxNano + 1  BY <2>3, <2>4
  <2>6. S * q >= S * (MaxNano + 1)  BY <2>5
  <2>7. S * (MaxNano + 1) = (MaxNano + 1) * S  OBVIOUS
  <2>8. PICK x \in Int, y \in Int : x = S * q /\ y = (MaxNano + 1) * S  BY Products
  <2>9. ~(n < y)  BY <2>4, <2>6, <2>7, <2>8
  <2>. QED  BY <1>2, <2>1, <2>2, <2>8, <2>9 DEF IsStamp
<1>3. CASE Len(b) = 12
  <2>1. Split(b) = [seconds |-> Signed(Number(SubSeq(b, 5, 12)), 8), nano |-> Number(SubSeq(b, 1, 4))]
    BY <1>3 DEF Split
  <2>2. PICK n \in Nat : n = Number(SubSeq(b, 1, 4))
    <3>1. 1 \in 1 .. Len(b) /\ 4 \in 1 .. Len(b) /\ 4 - 1 + 1 = 4  BY <1>3
    <3>2. SubSeq(b, 1, 4) \in Bytes_ /\ Len(SubSeq(b, 1, 4)) = 4  BY <3>1, SubBytes
    <3>. QED  BY <3>2, Digits4, NaturalPowers
  <2>. QED  BY <1>3, <2>1, <2>2 DEF IsStamp
<1>. QED  BY <1>1, <1>2, <1>3

-----------------------------------------------------------------------------
(* Integers *)

(* The limits of a type are those of so many bytes, signed or not *)
LEMMA Limits ==
    ASSUME NEW f \in Integers_
    PROVE  \E h \in Nat \ {0} : \/ Lowest[f] = 0 /\ Highest[f] = 2 * h - 1
                                \/ Lowest[f] = -h /\ Highest[f] = h - 1
<1>1. PICK h1 \in Nat \ {0} : Base = 2 * h1 /\ Base \div 2 = h1
  <2>1. 1 \in {1, 2, 4, 8}  OBVIOUS
  <2>. QED  BY <2>1, Even, Powers
<1>2. PICK h2 \in Nat \ {0} : Power(2) = 2 * h2 /\ Power(2) \div 2 = h2
  <2>1. 2 \in {1, 2, 4, 8}  OBVIOUS
  <2>. QED  BY <2>1, Even
<1>3. PICK h4 \in Nat \ {0} : Power(4) = 2 * h4 /\ Power(4) \div 2 = h4
  <2>1. 4 \in {1, 2, 4, 8}  OBVIOUS
  <2>. QED  BY <2>1, Even
<1>4. PICK h8 \in Nat \ {0} : Power(8) = 2 * h8 /\ Power(8) \div 2 = h8
  <2>1. 8 \in {1, 2, 4, 8}  OBVIOUS
  <2>. QED  BY <2>1, Even
<1>5. f \in {"u8", "u16", "u32", "u64", "uint", "i8", "i16", "i32", "i64", "int"}  BY DEF Integers_, Lowest
<1>6. CASE f \in {"u8", "i8"}
  <2>1. \/ Lowest[f] = 0 /\ Highest[f] = 2 * h1 - 1
        \/ Lowest[f] = -h1 /\ Highest[f] = h1 - 1  BY <1>1, <1>6 DEF Lowest, Highest
  <2>. QED  BY <2>1
<1>7. CASE f \in {"u16", "i16"}
  <2>1. \/ Lowest[f] = 0 /\ Highest[f] = 2 * h2 - 1
        \/ Lowest[f] = -h2 /\ Highest[f] = h2 - 1  BY <1>2, <1>7 DEF Lowest, Highest
  <2>. QED  BY <2>1
<1>8. CASE f \in {"u32", "uint", "i32", "int"}
  <2>1. \/ Lowest[f] = 0 /\ Highest[f] = 2 * h4 - 1
        \/ Lowest[f] = -h4 /\ Highest[f] = h4 - 1  BY <1>3, <1>8 DEF Lowest, Highest
  <2>. QED  BY <2>1
<1>9. CASE f \in {"u64", "i64"}
  <2>1. \/ Lowest[f] = 0 /\ Highest[f] = 2 * h8 - 1
        \/ Lowest[f] = -h8 /\ Highest[f] = h8 - 1  BY <1>4, <1>9 DEF Lowest, Highest
  <2>. QED  BY <2>1
<1>. QED  BY <1>5, <1>6, <1>7, <1>8, <1>9

(* The numbers that a cast leaves alone are those of the type *)
LEMMA CastKeeps ==
    ASSUME NEW f \in Integers_, NEW n \in Int
    PROVE  /\ Lowest[f] \in Int /\ Highest[f] \in Int
           /\ Cast(f, n) = n <=> (Lowest[f] <= n /\ n <= Highest[f])
<1>1. PICK h \in Nat \ {0} : \/ Lowest[f] = 0 /\ Highest[f] = 2 * h - 1
                             \/ Lowest[f] = -h /\ Highest[f] = h - 1
  BY Limits
<1>2. PICK l \in Int, t \in Int, m \in Nat \ {0} :
        l = Lowest[f] /\ t = Highest[f] /\ m = 2 * h /\ m = t - l + 1 /\ l <= 0 /\ t >= 0
  <2>1. 2 * h \in Nat \ {0}  OBVIOUS
  <2>. QED  BY <1>1, <2>1
<1>3. PICK w \in 0 .. (m - 1) : w = n % m  BY Divided
<1>4. Cast(f, n) = IF w > t THEN w - m ELSE w  BY <1>2, <1>3 DEF Cast
<1>5. Cast(f, n) \in l .. t
  <2>1. CASE w > t  BY <1>2, <1>4, <2>1
  <2>2. CASE ~(w > t)  BY <1>2, <1>4, <2>2
  <2>. QED  BY <2>1, <2>2
<1>6. ASSUME n \in l .. t  PROVE Cast(f, n) = n
  <2>1. CASE n >= 0
    <3>1. n \in 0 .. (m - 1) /\ n = 0 * m + n  BY <1>2, <1>6, <2>1
    <3>2. w = n  BY <1>3, <3>1, Quotient
    <3>. QED  BY <1>4, <1>6, <3>2
  <2>2. CASE n < 0
    <3>1. PICK r \in 0 .. (m - 1) : r = n + m  BY <1>2, <1>6, <2>2
    <3>2. n = (-1) * m + r  BY <3>1
    <3>3. w = r  BY <1>3, <3>2, Quotient, -1 \in Int
    <3>4. r > t  BY <1>2, <1>6, <3>1
    <3>. QED  BY <1>4, <3>1, <3>3, <3>4
  <2>. QED  BY <2>1, <2>2
<1>. QED  BY <1>2, <1>5, <1>6

-----------------------------------------------------------------------------
(* Calls and what they come to *)

(* An outcome that is right if it is an answer, and caused if an error *)
Answers(call, o) == /\ o.error = "ok" => Right(root, call, o.v)
                    /\ o.error # "ok" => Caused(call, o.error)

Told == AnswersAreTrue' /\ (error = "ok" /\ error' # "ok" => Caused(asked', error'))

LEMMA AskedTold ==
    ASSUME NEW call, NEW outcomes, NEW neutral, Ask(call, outcomes, neutral),
           \A o \in outcomes : Answers(call, o)
    PROVE  Told
<1>1. PICK o \in outcomes : IF error = "ok" THEN error' = o.error /\ result' = o.v
                            ELSE error' = error /\ result' = neutral
  BY DEF Ask
<1>2. asked' = call /\ root' = root  BY DEF Ask
<1>3. error' = "ok" => Right(root', asked', result')  BY <1>1, <1>2 DEF Answers
<1>4. error = "ok" /\ error' # "ok" => Caused(asked', error')  BY <1>1, <1>2 DEF Answers
<1>. QED  BY <1>3, <1>4 DEF Told, AnswersAreTrue

(* The nodes that a program can hold *)
Held == Nodes \cup {NilNode, MissingNode}

LEMMA HeldParsed == ASSUME NEW v \in Held  PROVE Parsed(v)
<1>1. CASE v \in Nodes  BY <1>1, NodesAssumption
<1>2. CASE v \in {NilNode, MissingNode}
  <2>1. << >> \in Bytes_ /\ << >> \in Seq(Nodes)  BY EmptySeq DEF Bytes_
  <2>2. v.type \in {"nil", "missing"} /\ v.bytes = << >> /\ v.items = << >>
    BY <1>2 DEF NilNode, MissingNode, Node
  <2>3. DOMAIN v = DOMAIN NilNode  BY <1>2 DEF NilNode, MissingNode, Node
  <2>. QED  BY <2>1, <2>2, <2>3 DEF Parsed, Types
<1>. QED  BY <1>1, <1>2 DEF Held

LEMMA Names_ ==
    /\ Integers_ = {"u8", "u16", "u32", "u64", "uint", "i8", "i16", "i32", "i64", "int"}
    /\ DOMAIN Accepts = {"float", "double", "float_strict", "double_strict"}
BY DEF Integers_, Lowest, Accepts

LEMMA CallIs ==
    ASSUME NEW f, NEW num
    PROVE  /\ Call(f, num).f = f /\ Call(f, num).num = num /\ Call(f, num).of = at
           /\ Call(f, num).by = "none"
BY DEF Call, NoCall

(* The types that each function takes *)
LEMMA TakesIs ==
    /\ \A f \in Integers_ : Takes(f) = {"uint", "int"}
    /\ \A f \in DOMAIN Accepts : Takes(f) = Accepts[f]
    /\ Takes("nil") = {"nil"} /\ Takes("missing") = {"missing"}
    /\ \A f \in {"bool", "true", "false"} : Takes(f) = {"bool"}
    /\ \A f \in {"type", "is_nil", "is_missing", "tag", "enum_optional", "root"} : Takes(f) = Types
    /\ \A f \in {"timestamp", "exttype"} : Takes(f) = {"ext"}
    /\ \A f \in {"data", "data_len", "copy_data", "data_alloc"} : Takes(f) = ByteTypes
    /\ \A f \in {"bin_data", "bin_size"} : Takes(f) = {"bin"}
    /\ \A f \in {"array_length", "array_at"} : Takes(f) = {"array"}
    /\ \A f \in {"map_count", "map_key_at", "map_value_at", "map", "map_optional", "map_contains"} : Takes(f) = {"map"}
    /\ \A f \in {"str", "strlen", "check_utf8", "check_utf8_cstr", "copy_utf8", "copy_cstr",
                 "copy_utf8_cstr", "cstr_alloc", "utf8_cstr_alloc", "enum"} : Takes(f) = {"str"}
<1>. USE Names_ DEF Takes
<1>1. \A f \in Integers_ : Takes(f) = {"uint", "int"}  OBVIOUS
<1>2. \A f \in DOMAIN Accepts : Takes(f) = Accepts[f]  OBVIOUS
<1>3. Takes("nil") = {"nil"} /\ Takes("missing") = {"missing"}  OBVIOUS
<1>4. \A f \in {"bool", "true", "false"} : Takes(f) = {"bool"}  OBVIOUS
<1>5. \A f \in {"type", "is_nil", "is_missing", "tag", "enum_optional", "root"} : Takes(f) = Types  OBVIOUS
<1>6. \A f \in {"timestamp", "exttype"} : Takes(f) = {"ext"}  OBVIOUS
<1>7. \A f \in {"data", "data_len", "copy_data", "data_alloc"} : Takes(f) = ByteTypes  BY DEF ByteTypes
<1>8. \A f \in {"bin_data", "bin_size"} : Takes(f) = {"bin"}  OBVIOUS
<1>9. \A f \in {"array_length", "array_at"} : Takes(f) = {"array"}  OBVIOUS
<1>10. \A f \in {"map_count", "map_key_at", "map_value_at", "map", "map_optional", "map_contains"} : Takes(f) = {"map"}
  OBVIOUS
<1>11. \A f \in {"str", "strlen", "check_utf8", "check_utf8_cstr", "copy_utf8", "copy_cstr",
                 "copy_utf8_cstr", "cstr_alloc", "utf8_cstr_alloc", "enum"} : Takes(f) = {"str"}
  OBVIOUS
<1>. QED  BY <1>1, <1>2, <1>3, <1>4, <1>5, <1>6, <1>7, <1>8, <1>9, <1>10, <1>11

(* A node that the function does not take, and one that it cannot use *)
LEMMA TypeCaused ==
    ASSUME NEW call, call.of.type \notin Takes(call.f) \/ Unfit(call)
    PROVE  Caused(call, "type")
BY DEF Caused

(* The answers that a call may give and the errors it may come to *)
LEMMA Refusal ==
    ASSUME NEW call, NEW o, o.error = "type", call.of.type \notin Takes(call.f) \/ Unfit(call)
    PROVE  Answers(call, o)
BY TypeCaused DEF Answers

LEMMA Meaning ==
    ASSUME NEW call, NEW o, o.error = "ok", call.of.type \in Takes(call.f), Means(root, call, o.v)
    PROVE  Answers(call, o)
BY DEF Answers, Right

LEMMA MeansInteger ==
    ASSUME NEW top, NEW call, call.f \in Integers_, NEW r, r.int = call.of.n
    PROVE  Means(top, call, r)
BY Names_ DEF Means, Copying, Allocating

LEMMA MeansReal ==
    ASSUME NEW top, NEW call, call.f \in DOMAIN Accepts, NEW r,
           SaysNumber(call.f, call.of.type, call.of.n, r.real)
    PROVE  Means(top, call, r)
BY Names_ DEF Means, Copying, Allocating

LEMMA IntegerAnswers ==
    ASSUME at \in Held, NEW f \in Integers_
    PROVE  Answers(Call(f, 0), Integer(f, at))
<1>. DEFINE call == Call(f, 0)  o == Integer(f, at)
<1>1. call.f = f /\ call.of = at  BY CallIs
<1>2. IsNumber(at) => at.n \in Int /\ (at.type = "uint" => at.n >= 0)
  <2>1. PICK h \in Nat \ {0} : \/ Lowest["i64"] = 0 /\ Highest["i64"] = 2 * h - 1
                               \/ Lowest["i64"] = -h /\ Highest["i64"] = h - 1
    BY Names_, Limits
  <2>2. Highest["u64"] \in Int
    <3>1. "u64" \in Integers_ /\ 0 \in Int  BY Names_
    <3>. QED  BY <3>1, CastKeeps
  <2>3. /\ at.type = "uint" => at.n \in 0 .. Highest["u64"]
        /\ at.type = "int" => at.n \in Lowest["i64"] .. Highest["i64"]
    BY HeldParsed DEF Parsed
  <2>. QED  BY <2>1, <2>2, <2>3 DEF IsNumber
<1>3. PICK l \in Int, t \in Int : l = Lowest[f] /\ t = Highest[f] /\ l <= 0
  <2>1. PICK h \in Nat \ {0} : \/ Lowest[f] = 0 /\ Highest[f] = 2 * h - 1
                               \/ Lowest[f] = -h /\ Highest[f] = h - 1
    BY Limits
  <2>2. /\ Lowest[f] \in Int /\ Highest[f] \in Int
        /\ Lowest[f] <= 0
    BY <2>1
  <2>. QED  BY <2>2
<1>4. IsNumber(at) => (Cast(f, at.n) = at.n <=> (l <= at.n /\ at.n <= t))  BY <1>2, <1>3, CastKeeps
<1>5. Integer(f, at) = IF IsNumber(at) /\ l <= at.n /\ at.n <= t THEN Ok([int |-> at.n])
                       ELSE Err("type", [int |-> 0])
  <2>1. CASE at.type = "uint"  BY <1>2, <1>3, <1>4, <2>1 DEF Integer, IsNumber
  <2>2. CASE at.type = "int"  BY <1>2, <1>3, <1>4, <2>2 DEF Integer, IsNumber
  <2>3. CASE at.type \notin {"uint", "int"}  BY <2>3 DEF Integer, IsNumber
  <2>. QED  BY <2>1, <2>2, <2>3
<1>6. Takes(call.f) = {"uint", "int"}  BY <1>1, TakesIs
<1>7. CASE IsNumber(at) /\ l <= at.n /\ at.n <= t
  <2>1. o.error = "ok" /\ o.v.int = at.n  BY <1>5, <1>7 DEF Ok
  <2>2. Means(root, call, o.v)  BY <1>1, <2>1, MeansInteger
  <2>. QED  BY <1>1, <1>6, <1>7, <2>1, <2>2, Meaning DEF IsNumber
<1>8. CASE ~(IsNumber(at) /\ l <= at.n /\ at.n <= t)
  <2>1. o.error = "type"  BY <1>5, <1>8 DEF Err
  <2>2. ~(IsNumber(at) /\ InRange(f, at.n))  BY <1>4, <1>8 DEF InRange
  <2>3. call.of.type \notin Takes(call.f) \/ Unfit(call)  BY <1>1, <1>6, <2>2 DEF IsNumber, Unfit
  <2>. QED  BY <2>1, <2>3, Refusal
<1>. QED  BY <1>7, <1>8

-----------------------------------------------------------------------------
(* Floating point *)

LEMMA Significands == \A to \in {"float", "double"} : Significand[to] \in Nat \ {0}
<1>1. Power(3) \in Nat \ {0}  BY Powers
<1>2. Power(7) \div 8 \in Nat \ {0}
  <2>1. PICK B \in Nat \ {0} : B = Base /\ B % 8 = 0  BY Powers, BaseAssumption
  <2>2. PICK q \in Int : B = 8 * q  BY <2>1, Divided
  <2>3. PICK S \in Nat \ {0} : S = Power(6)  BY Powers
  <2>4. Power(7) = S * B  BY <2>1, <2>3 DEF Power
  <2>5. q \in Nat \ {0}  BY <2>1, <2>2
  <2>6. PICK x \in Nat \ {0} : x = S * q  BY <2>5, Products
  <2>7. Power(7) = 8 * x
    <3>1. S * (8 * q) = 8 * (S * q)  OBVIOUS
    <3>. QED  BY <2>2, <2>4, <2>6, <3>1
  <2>8. (8 * x) \div 8 = x  OBVIOUS
  <2>. QED  BY <2>6, <2>7, <2>8
<1>. QED  BY <1>1, <1>2 DEF Significand

(* The last place of a number is among those there are *)
LEMMA UlpIs ==
    ASSUME NEW a \in Nat, a < Power(8), NEW p \in Nat \ {0}
    PROVE  Ulp(a, p) \in Ulps /\ a < p * Ulp(a, p) /\ (Ulp(a, p) = 1 \/ p * Ulp(a, p) <= 2 * a)
<1>. DEFINE S == {u \in Ulps : a < p * u}
<1>1. Ulps \subseteq Nat \ {0}  BY UlpsAssumption
<1>2. S # {}
  <2>1. PICK u \in Ulps : Power(8) <= u  BY UlpsAssumption
  <2>2. PICK P \in Nat : P = Power(8)  BY Powers
  <2>3. u \in Nat /\ a < u  BY <1>1, <2>1, <2>2
  <2>4. p * u >= 1 * u  BY <2>3
  <2>5. PICK x \in Int : x = p * u  BY <2>3, Products
  <2>. QED  BY <2>1, <2>3, <2>4, <2>5
<1>3. PICK u \in S : \A v \in S : u <= v
  <2>1. S \subseteq Nat  BY <1>1
  <2>. HIDE DEF S
  <2>. QED  BY <1>2, <2>1, Least
<1>4. u = 1 \/ p * u <= 2 * a
  <2>. SUFFICES ASSUME u # 1  PROVE p * u <= 2 * a  OBVIOUS
  <2>1. PICK h \in Ulps : u = 2 * h  BY UlpsAssumption
  <2>2. h \in Nat \ {0} /\ u \in Nat  BY <1>1
  <2>3. h \notin S  BY <1>3, <2>1, <2>2
  <2>4. PICK x \in Int : x = p * h  BY <2>2, Products
  <2>5. x <= a  BY <2>3, <2>4
  <2>6. p * u = 2 * x
    <3>1. p * (2 * h) = 2 * (p * h)  BY <2>2
    <3>. QED  BY <2>1, <2>4, <3>1
  <2>. QED  BY <2>5, <2>6
<1>. QED  BY <1>3, <1>4 DEF Ulp

(* What is rounded is nearest *)
LEMMA RoundedUpNearest ==
    ASSUME NEW a \in Nat, a < Power(8), NEW p \in Nat \ {0}
    PROVE  \E u \in Ulps : LET x == RoundedUp(a, p)
                           IN  /\ u \in Nat \ {0} /\ x \in Nat /\ x % u = 0 /\ (-x) % u = 0 /\ x <= p * u
                               /\ u = 1 \/ p * u <= 2 * a
                               /\ 2 * (x - a) <= u /\ 2 * (a - x) <= u
<1>1. PICK u \in Nat \ {0} : u = Ulp(a, p) /\ u \in Ulps /\ a < p * u /\ (u = 1 \/ p * u <= 2 * a)
  BY UlpIs, UlpsAssumption
<1>2. PICK q \in Int, r \in 0 .. (u - 1) : a = u * q + r /\ q = a \div u /\ r = a % u
  <2>1. a = u * (a \div u) + (a % u) /\ a % u \in 0 .. (u - 1) /\ a \div u \in Int  BY Divided, a \in Int
  <2>. QED  BY <2>1
<1>3. q >= 0
  <2>1. PICK x \in Int : x = u * q  BY Products
  <2>2. ~(q <= -1 /\ x <= -u)  BY <1>2, <2>1
  <2>. QED  BY <2>1, <2>2, Downwards
<1>4. q + 1 <= p
  <2>. SUFFICES ASSUME q >= p  PROVE FALSE  BY <1>2
  <2>1. u * q >= u * p  OBVIOUS
  <2>2. u * p = p * u  OBVIOUS
  <2>3. PICK x \in Int, y \in Int : x = u * q /\ y = p * u  BY Products
  <2>. QED  BY <1>1, <1>2, <2>1, <2>2, <2>3
<1>5. PICK m \in {q, q + 1} : /\ RoundedUp(a, p) = m * u
                              /\ m = q => 2 * r <= u
                              /\ m = q + 1 => 2 * r >= u
  <2>1. RoundedUp(a, p) = IF 2 * r < u \/ (2 * r = u /\ q % 2 = 0) THEN q * u ELSE (q + 1) * u
    BY <1>1, <1>2 DEF RoundedUp
  <2>2. CASE 2 * r < u \/ (2 * r = u /\ q % 2 = 0)
    <3>1. RoundedUp(a, p) = q * u /\ 2 * r <= u /\ q # q + 1  BY <2>1, <2>2
    <3>. QED  BY <3>1
  <2>3. CASE ~(2 * r < u \/ (2 * r = u /\ q % 2 = 0))
    <3>1. RoundedUp(a, p) = (q + 1) * u /\ 2 * r >= u /\ q # q + 1  BY <2>1, <2>3
    <3>. QED  BY <3>1
  <2>. QED  BY <2>2, <2>3
<1>6. PICK x \in Int, y \in Int : x = m * u /\ y = u * q  BY <1>2, <1>5, Products
<1>7. m \in Nat /\ m <= p  BY <1>2, <1>3, <1>4, <1>5
<1>8. x \in Nat /\ x <= p * u
  <2>1. m * u <= p * u /\ m * u >= 0  BY <1>7
  <2>. QED  BY <1>6, <2>1
<1>9. x % u = 0 /\ (-x) % u = 0
  <2>1. x = m * u + 0 /\ 0 \in 0 .. (u - 1)  BY <1>6
  <2>2. -x = (-m) * u + 0 /\ -m \in Int  BY <1>6, <1>7
  <2>3. x % u = 0  BY <1>7, <2>1, Quotient
  <2>4. -x \in Int  OBVIOUS
  <2>. QED  BY <2>1, <2>2, <2>3, <2>4, Quotient
<1>10. 2 * (x - a) <= u /\ 2 * (a - x) <= u
  <2>1. CASE m = q
    <3>1. x = y  BY <1>2, <1>6, <2>1
    <3>. QED  BY <1>2, <1>5, <1>6, <2>1, <3>1
  <2>2. CASE m = q + 1
    <3>1. (q + 1) * u = u * q + u  BY <1>2
    <3>2. x = y + u  BY <1>6, <2>2, <3>1
    <3>. QED  BY <1>2, <1>5, <1>6, <2>2, <3>2
  <2>. QED  BY <1>5, <2>1, <2>2
<1>. QED  BY <1>1, <1>5, <1>6, <1>8, <1>9, <1>10

LEMMA RoundedNearest ==
    ASSUME NEW to \in {"float", "double"}, NEW n \in Int, -Power(8) < n, n < Power(8)
    PROVE  Nearest(to, n, Rounded(n, Significand[to]))
<1>1. PICK p \in Nat \ {0} : p = Significand[to]  BY Significands
<1>2. PICK P \in Nat \ {0} : P = Power(8)  BY Powers
<1>3. CASE n >= 0
  <2>1. n \in Nat /\ n < P  BY <1>2, <1>3
  <2>2. PICK u \in Ulps : LET x == RoundedUp(n, p)
                          IN  /\ u \in Nat \ {0} /\ x \in Nat /\ x % u = 0 /\ x <= p * u
                              /\ u = 1 \/ p * u <= 2 * n
                              /\ 2 * (x - n) <= u /\ 2 * (n - x) <= u
    BY <1>2, <2>1, RoundedUpNearest
  <2>3. PICK x \in Nat : x = RoundedUp(n, p)  BY <2>2
  <2>4. Rounded(n, p) = x /\ Magnitude(x) = x /\ Magnitude(n) = n  BY <1>3, <2>3 DEF Rounded, Magnitude
  <2>5. 2 * Magnitude(x - n) <= u
    <3>1. Magnitude(x - n) \in {x - n, n - x}  BY DEF Magnitude
    <3>. QED  BY <2>2, <2>3, <3>1
  <2>. QED  BY <1>1, <2>2, <2>3, <2>4, <2>5 DEF Nearest
<1>4. CASE n < 0
  <2>1. PICK a \in Nat : a = -n /\ a < P  BY <1>2, <1>4
  <2>2. PICK u \in Ulps : LET x == RoundedUp(a, p)
                          IN  /\ u \in Nat \ {0} /\ x \in Nat /\ (-x) % u = 0 /\ x <= p * u
                              /\ u = 1 \/ p * u <= 2 * a
                              /\ 2 * (x - a) <= u /\ 2 * (a - x) <= u
    BY <1>2, <2>1, RoundedUpNearest
  <2>3. PICK x \in Nat : x = RoundedUp(a, p)  BY <2>2
  <2>4. Rounded(n, p) = -x /\ Magnitude(-x) = x /\ Magnitude(n) = a  BY <1>4, <2>1, <2>3 DEF Rounded, Magnitude
  <2>5. 2 * Magnitude((-x) - n) <= u
    <3>1. Magnitude((-x) - n) \in {x - a, a - x}  BY <2>1 DEF Magnitude
    <3>. QED  BY <2>1, <2>2, <2>3, <3>1
  <2>. QED  BY <1>1, <2>2, <2>3, <2>4, <2>5 DEF Nearest
<1>. QED  BY <1>3, <1>4

LEMMA ConvertedSays ==
    ASSUME NEW f \in DOMAIN Accepts, NEW type \in Accepts[f], NEW n,
           type \in {"uint", "int"} => n \in Int /\ -Power(8) < n /\ n < Power(8)
    PROVE  SaysNumber(f, type, n, Converted(f, type, n))
<1>1. AnswersIn[f] \in {"float", "double"}  BY Names_ DEF AnswersIn
<1>2. type \in {"uint", "int", "float", "double"}  BY Names_ DEF Accepts
<1>3. CASE type \in {"uint", "int"}
  <2>1. Converted(f, type, n) = <<"whole", Rounded(n, Significand[AnswersIn[f]])>>  BY <1>3 DEF Converted
  <2>2. Nearest(AnswersIn[f], n, Rounded(n, Significand[AnswersIn[f]]))  BY <1>1, <1>3, RoundedNearest
  <2>3. PICK x : x = Rounded(n, Significand[AnswersIn[f]])  OBVIOUS
  <2>4. <<"whole", x>>[1] = "whole" /\ <<"whole", x>>[2] = x  OBVIOUS
  <2>. QED  BY <1>3, <2>1, <2>2, <2>3, <2>4 DEF SaysNumber
<1>4. CASE type = "float"  BY <1>4 DEF Converted, SaysNumber
<1>5. CASE type = "double"  BY <1>1, <1>5 DEF Converted, SaysNumber
<1>. QED  BY <1>2, <1>3, <1>4, <1>5

LEMMA FloatingAnswers ==
    ASSUME at \in Held, NEW f \in DOMAIN Accepts
    PROVE  Answers(Call(f, 0), Floating(f, at))
<1>. DEFINE call == Call(f, 0)  o == Floating(f, at)
<1>1. call.f = f /\ call.of = at /\ Takes(call.f) = Accepts[f]  BY CallIs, TakesIs
<1>2. CASE at.type \in Accepts[f]
  <2>1. o.error = "ok" /\ o.v.real = Converted(f, at.type, at.n)  BY <1>2 DEF Floating, Ok
  <2>2. at.type \in {"uint", "int"} => at.n \in Int /\ -Power(8) < at.n /\ at.n < Power(8)
    <3>1. PICK h \in Nat \ {0} : /\ Power(8) = 2 * h /\ Lowest["i64"] = -h /\ Highest["i64"] = h - 1
                                 /\ Highest["u64"] = 2 * h - 1
      BY Longest
    <3>2. /\ at.type = "uint" => at.n \in 0 .. Highest["u64"]
          /\ at.type = "int" => at.n \in Lowest["i64"] .. Highest["i64"]
      BY HeldParsed DEF Parsed
    <3>. QED  BY <3>1, <3>2
  <2>3. SaysNumber(f, at.type, at.n, o.v.real)  BY <1>2, <2>1, <2>2, ConvertedSays
  <2>5. Means(root, call, o.v)  BY <1>1, <2>3, MeansReal
  <2>. QED  BY <1>1, <1>2, <2>1, <2>5, Meaning
<1>3. CASE at.type \notin Accepts[f]
  <2>1. o.error = "type"  BY <1>3 DEF Floating, Err
  <2>. QED  BY <1>1, <1>3, <2>1, Refusal
<1>. QED  BY <1>2, <1>3

-----------------------------------------------------------------------------
(* What a node is *)

LEMMA AssertAnswers ==
    ASSUME NEW f \in {"nil", "missing", "true", "false"}
    PROVE  Answers(Call(f, 0), Assert_(f, at))
<1>. DEFINE call == Call(f, 0)  o == Assert_(f, at)
<1>1. call.f = f /\ call.of = at  BY CallIs
<1>2. CASE f \in {"nil", "missing"}
  <2>1. o = IF at.type = f THEN Ok(Null) ELSE Err("type", Null)  BY <1>2 DEF Assert_
  <2>2. Takes(call.f) = {f}  BY <1>1, <1>2, TakesIs
  <2>3. CASE at.type = f
    <3>1. o.error = "ok"  BY <2>1, <2>3 DEF Ok
    <3>2. Means(root, call, o.v)  BY <1>1, <1>2, Names_ DEF Means, Copying, Allocating
    <3>. QED  BY <1>1, <2>2, <2>3, <3>1, <3>2, Meaning
  <2>4. CASE at.type # f
    <3>1. o.error = "type"  BY <2>1, <2>4 DEF Err
    <3>. QED  BY <1>1, <2>2, <2>4, <3>1, Refusal
  <2>. QED  BY <2>3, <2>4
<1>3. CASE f \in {"true", "false"}
  <2>. DEFINE n == IF f = "true" THEN 1 ELSE 0
  <2>1. o = IF at.type = "bool" /\ at.n = n THEN Ok(Null) ELSE Err("type", Null)  BY <1>3 DEF Assert_
  <2>2. Takes(call.f) = {"bool"}  BY <1>1, <1>3, TakesIs
  <2>3. CASE at.type = "bool" /\ at.n = n
    <3>1. o.error = "ok"  BY <2>1, <2>3 DEF Ok
    <3>2. Means(root, call, o.v)  BY <1>1, <1>3, <2>3, Names_ DEF Means, Copying, Allocating
    <3>. QED  BY <1>1, <2>2, <2>3, <3>1, <3>2, Meaning
  <2>4. CASE ~(at.type = "bool" /\ at.n = n)
    <3>1. o.error = "type"  BY <2>1, <2>4 DEF Err
    <3>2. at.type \notin Takes(call.f) \/ Unfit(call)  BY <1>1, <1>3, <2>2, <2>4 DEF Unfit
    <3>. QED  BY <1>1, <3>1, <3>2, Refusal
  <2>. QED  BY <2>3, <2>4
<1>. QED  BY <1>2, <1>3

LEMMA BoolAnswers == Answers(Call("bool", 0), Bool(at))
<1>. DEFINE call == Call("bool", 0)  o == Bool(at)
<1>1. call.f = "bool" /\ call.of = at /\ Takes(call.f) = {"bool"}  BY CallIs, TakesIs
<1>2. CASE at.type = "bool"
  <2>1. o.error = "ok" /\ o.v.bool = (at.n = 1)  BY <1>2 DEF Bool, Ok
  <2>2. Means(root, call, o.v)  BY <1>1, <2>1, Names_ DEF Means, Copying, Allocating
  <2>. QED  BY <1>1, <1>2, <2>1, <2>2, Meaning
<1>3. CASE at.type # "bool"
  <2>1. o.error = "type"  BY <1>3 DEF Bool, Err
  <2>. QED  BY <1>1, <1>3, <2>1, Refusal
<1>. QED  BY <1>2, <1>3

(* The functions that take any node *)
LEMMA TypeAnswers ==
    ASSUME at \in Held
    PROVE  /\ Answers(Call("type", 0), Ok([type |-> at.type]))
           /\ Answers(Call("is_nil", 0), Ok([bool |-> at.type = "nil"]))
           /\ Answers(Call("is_missing", 0), Ok([bool |-> at.type = "missing"]))
<1>1. at.type \in Types  BY HeldParsed DEF Parsed
<1>2. \A f \in {"type", "is_nil", "is_missing"} : Call(f, 0).f = f /\ Call(f, 0).of = at /\ Takes(f) = Types
  BY CallIs, TakesIs
<1>3. \A v : Ok(v).error = "ok" /\ Ok(v).v = v  BY DEF Ok
<1>4. Answers(Call("type", 0), Ok([type |-> at.type]))
  <2>1. Means(root, Call("type", 0), [type |-> at.type])  BY <1>2, Names_ DEF Means, Copying, Allocating
  <2>. QED  BY <1>1, <1>2, <1>3, <2>1, Meaning
<1>5. Answers(Call("is_nil", 0), Ok([bool |-> at.type = "nil"]))
  <2>1. Means(root, Call("is_nil", 0), [bool |-> at.type = "nil"])  BY <1>2, Names_ DEF Means, Copying, Allocating
  <2>. QED  BY <1>1, <1>2, <1>3, <2>1, Meaning
<1>6. Answers(Call("is_missing", 0), Ok([bool |-> at.type = "missing"]))
  <2>1. Means(root, Call("is_missing", 0), [bool |-> at.type = "missing"])  BY <1>2, Names_ DEF Means, Copying, Allocating
  <2>. QED  BY <1>1, <1>2, <1>3, <2>1, Meaning
<1>. QED  BY <1>4, <1>5, <1>6

(* A map has whole pairs *)
LEMMA WholePairs ==
    ASSUME NEW v \in Held
    PROVE  Len(v.items) \in Nat /\ (v.type = "map" => 2 * (Len(v.items) \div 2) = Len(v.items))
<1>1. v.items \in Seq(Nodes) /\ (v.type = "map" => Len(v.items) % 2 = 0)  BY HeldParsed DEF Parsed
<1>2. PICK l \in Nat : l = Len(v.items)  BY <1>1
<1>3. l % 2 = 0 => 2 * (l \div 2) = l  OBVIOUS
<1>. QED  BY <1>1, <1>2, <1>3

LEMMA TagAnswers ==
    ASSUME at \in Held
    PROVE  Answers(Call("tag", 0), TagOf(at))
<1>. DEFINE call == Call("tag", 0)  o == TagOf(at)  tag == o.v.tag
<1>1. call.f = "tag" /\ call.of = at /\ Takes(call.f) = Types  BY CallIs, TakesIs
<1>2. at.type \in Types  BY HeldParsed DEF Parsed
<1>3. o.error = "ok" /\ tag.type = at.type /\ (at.type = "ext" => tag.exttype = at.n)  BY DEF TagOf, Ok
<1>4. tag.n = CASE at.type \in {"missing", "nil"} -> 0
                [] at.type \in ByteTypes -> Len(at.bytes)
                [] at.type = "array"     -> Len(at.items)
                [] at.type = "map"       -> Len(at.items) \div 2
                [] OTHER                 -> at.n
  BY DEF TagOf, Ok
<1>. HIDE DEF tag
<1>5. at.type \in ByteTypes => tag.n = Len(at.bytes)  BY <1>4 DEF ByteTypes
<1>6. at.type = "array" => tag.n = Len(at.items)  BY <1>4 DEF ByteTypes
<1>7. at.type = "map" => 2 * tag.n = Len(at.items)
  <2>1. at.type = "map" => tag.n = Len(at.items) \div 2  BY <1>4 DEF ByteTypes
  <2>. QED  BY <2>1, WholePairs
<1>8. at.type \in {"bool", "uint", "int", "float", "double"} => tag.n = at.n  BY <1>4 DEF ByteTypes
<1>9. Heading(at, tag)  BY <1>3, <1>5, <1>6, <1>7, <1>8 DEF Heading
<1>10. Means(root, call, o.v)  BY <1>1, <1>9, Names_ DEF Means, Copying, Allocating, tag
<1>. QED  BY <1>1, <1>2, <1>3, <1>10, Meaning

LEMMA RootAnswers ==
    ASSUME at \in Held
    PROVE  Answers(Call("root", 0), Found(root))
<1>. DEFINE call == Call("root", 0)
<1>1. call.f = "root" /\ call.of = at /\ Takes(call.f) = Types  BY CallIs, TakesIs
<1>2. at.type \in Types  BY HeldParsed DEF Parsed
<1>3. Found(root).error = "ok" /\ Found(root).v.node = root  BY DEF Found, Ok
<1>4. Means(root, call, Found(root).v)  BY <1>1, <1>3, Names_ DEF Means, Copying, Allocating
<1>. QED  BY <1>1, <1>2, <1>3, <1>4, Meaning

LEMMA TimestampAnswers ==
    ASSUME at \in Held
    PROVE  Answers(Call("timestamp", 0), Timestamp(at))
<1>. DEFINE call == Call("timestamp", 0)  b == at.bytes  o == Timestamp(at)
<1>1. call.f = "timestamp" /\ call.of = at /\ Takes(call.f) = {"ext"}  BY CallIs, TakesIs
<1>2. b \in Bytes_  BY HeldParsed DEF Parsed
<1>3. CASE ~(at.type = "ext" /\ at.n = TimestampType)
  <2>1. o.error = "type"  BY <1>3 DEF Timestamp, Err
  <2>2. at.type \notin Takes(call.f) \/ Unfit(call)  BY <1>1, <1>3 DEF Unfit
  <2>. QED  BY <1>1, <2>1, <2>2, Refusal
<1>4. CASE at.type = "ext" /\ at.n = TimestampType /\ (Len(b) \notin {4, 8, 12} \/ Split(b).nano > MaxNano)
  <2>1. o.error = "invalid"  BY <1>4 DEF Timestamp, Err
  <2>2. ~IsStamp(b)
    <3>1. CASE Len(b) \notin {4, 8, 12}  BY <3>1 DEF IsStamp
    <3>2. CASE Len(b) \in {4, 8, 12}  BY <1>2, <1>4, <3>2, SplitInvalid
    <3>. QED  BY <3>1, <3>2
  <2>3. Caused(call, "invalid")  BY <1>1, <1>4, <2>2 DEF Caused
  <2>. QED  BY <2>1, <2>3 DEF Answers
<1>5. CASE at.type = "ext" /\ at.n = TimestampType /\ Len(b) \in {4, 8, 12} /\ ~(Split(b).nano > MaxNano)
  <2>1. o.error = "ok" /\ o.v.time = Split(b)  BY <1>5 DEF Timestamp, Ok
  <2>2. Stamped(b, Split(b))  BY <1>2, <1>5, SplitStamped
  <2>3. Means(root, call, o.v)  BY <1>1, <1>5, <2>1, <2>2, Names_ DEF Means, Copying, Allocating
  <2>. QED  BY <1>1, <1>5, <2>1, <2>3, Meaning
<1>. QED  BY <1>3, <1>4, <1>5

(* The size of a node, in bytes or in elements *)
LEMMA ExtentAnswers ==
    ASSUME at \in Held, NEW f \in Extents
    PROVE  Answers(Call(f, 0), Extent(f, at))
<1>. DEFINE call == Call(f, 0)  o == Extent(f, at)
<1>1. call.f = f /\ call.of = at  BY CallIs
<1>2. f \in {"exttype", "data_len", "strlen", "bin_size", "array_length", "map_count"}  BY DEF Extents
<1>3. CASE at.type \in Takes(f)
  <2>1. CASE f = "exttype"
    <3>1. o = Ok([int |-> at.n])  BY <1>3, <2>1, TakesIs DEF Extent
    <3>2. Means(root, call, [int |-> at.n])  BY <1>1, <2>1, Names_ DEF Means, Copying, Allocating
    <3>. QED  BY <1>1, <1>3, <3>1, <3>2, Meaning DEF Ok
  <2>2. CASE f \in {"data_len", "strlen", "bin_size"}
    <3>1. o = Ok([int |-> Len(at.bytes)])  BY <1>3, <2>2, TakesIs DEF Extent
    <3>2. Means(root, call, [int |-> Len(at.bytes)])  BY <1>1, <2>2, Names_ DEF Means, Copying, Allocating
    <3>. QED  BY <1>1, <1>3, <3>1, <3>2, Meaning DEF Ok
  <2>3. CASE f = "array_length"
    <3>1. o = Ok([int |-> Len(at.items)])  BY <1>3, <2>3, TakesIs DEF Extent
    <3>2. Means(root, call, [int |-> Len(at.items)])  BY <1>1, <2>3, Names_ DEF Means, Copying, Allocating
    <3>. QED  BY <1>1, <1>3, <3>1, <3>2, Meaning DEF Ok
  <2>4. CASE f = "map_count"
    <3>1. o = Ok([int |-> Len(at.items) \div 2]) /\ at.type = "map"  BY <1>3, <2>4, TakesIs DEF Extent
    <3>2. 2 * (Len(at.items) \div 2) = Len(at.items)  BY <3>1, WholePairs
    <3>3. Means(root, call, [int |-> Len(at.items) \div 2])  BY <1>1, <2>4, <3>2, Names_ DEF Means, Copying, Allocating
    <3>4. o.error = "ok" /\ o.v = [int |-> Len(at.items) \div 2]  BY <3>1 DEF Ok
    <3>. QED  BY <1>1, <1>3, <3>3, <3>4, Meaning
  <2>. QED  BY <1>2, <2>1, <2>2, <2>3, <2>4
<1>4. CASE at.type \notin Takes(f)
  <2>1. o = Err("type", [int |-> 0])  BY <1>2, <1>4, TakesIs DEF Extent
  <2>. QED  BY <1>1, <1>4, <2>1, Refusal DEF Err
<1>. QED  BY <1>3, <1>4

-----------------------------------------------------------------------------
(* Strings and blobs *)

LEMMA BytesAnswers ==
    ASSUME NEW f \in {"str", "data", "bin_data"}
    PROVE  Answers(Call(f, 0), Bytes(f, at))
<1>. DEFINE call == Call(f, 0)  o == Bytes(f, at)
<1>1. call.f = f /\ call.of = at  BY CallIs
<1>2. o = IF at.type \in Takes(f) THEN Ok([bytes |-> at.bytes]) ELSE Err("type", Null)
  <2>1. CASE f = "str"  BY <2>1, TakesIs DEF Bytes
  <2>2. CASE f = "data"  BY <2>2, TakesIs DEF Bytes
  <2>3. CASE f = "bin_data"  BY <2>3, TakesIs DEF Bytes
  <2>. QED  BY <2>1, <2>2, <2>3
<1>3. CASE at.type \in Takes(f)
  <2>1. Means(root, call, [bytes |-> at.bytes])  BY <1>1, Names_ DEF Means, Copying, Allocating
  <2>. QED  BY <1>1, <1>2, <1>3, <2>1, Meaning DEF Ok
<1>4. CASE at.type \notin Takes(f)  BY <1>1, <1>2, <1>4, Refusal DEF Err
<1>. QED  BY <1>3, <1>4

(* The form that is checked is the one that the name asks for *)
LEMMA CheckedFormed ==
    ASSUME NEW f \in {"check_utf8", "check_utf8_cstr"} \cup Copying \cup Allocating, NEW b
    PROVE  Checked(f, b) <=> Formed(f, b)
BY DEF Checked, Formed, OfUtf8, OfCstr, Terminated, Copying, Allocating

LEMMA CheckAnswers ==
    ASSUME NEW f \in {"check_utf8", "check_utf8_cstr"}
    PROVE  Answers(Call(f, 0), CheckUtf8(f, at))
<1>. DEFINE call == Call(f, 0)  o == CheckUtf8(f, at)
<1>1. call.f = f /\ call.of = at /\ Takes(call.f) = {"str"}  BY CallIs, TakesIs
<1>2. Checked(f, at.bytes) <=> Formed(f, at.bytes)  BY CheckedFormed
<1>3. CASE at.type = "str" /\ Formed(f, at.bytes)
  <2>1. o.error = "ok"  BY <1>2, <1>3 DEF CheckUtf8, Ok
  <2>2. Means(root, call, o.v)  BY <1>1, <1>3, Names_ DEF Means, Copying, Allocating
  <2>. QED  BY <1>1, <1>3, <2>1, <2>2, Meaning
<1>4. CASE ~(at.type = "str" /\ Formed(f, at.bytes))
  <2>1. o.error = "type"  BY <1>2, <1>4 DEF CheckUtf8, Err
  <2>2. at.type \notin Takes(call.f) \/ Unfit(call)  BY <1>1, <1>4 DEF Unfit
  <2>. QED  BY <1>1, <2>1, <2>2, Refusal
<1>. QED  BY <1>3, <1>4

LEMMA CopyAnswers ==
    ASSUME at \in Held, NEW f \in Copying \cup Allocating, NEW size \in Int,
           f \in Copying \cap Terminated => size >= 1
    PROVE  /\ Answers(Call(f, size), Copy(f, at, size))
           /\ Copy(f, at, size).error = "ok" =>
                 at.type \in Takes(f) /\ Room(Call(f, size)) <= size /\ Formed(f, at.bytes)
<1>. DEFINE call == Call(f, size)  b == at.bytes  c == Copy(f, at, size)
            room == IF f \in Terminated THEN 1 ELSE 0
            kinds == IF f \in {"copy_data", "data_alloc"} THEN ByteTypes ELSE {"str"}
            whole == b \o (IF f \in Terminated THEN <<NUL>> ELSE << >>)
<1>1. call.f = f /\ call.of = at /\ call.num = size /\ call.by = "none"  BY CallIs
<1>2. b \in Bytes_ /\ Len(b) \in Nat
  <2>1. b \in Bytes_  BY HeldParsed DEF Parsed
  <2>. QED  BY <2>1 DEF Bytes_
<1>3. f \in {"copy_data", "copy_utf8", "copy_cstr", "copy_utf8_cstr", "data_alloc", "cstr_alloc", "utf8_cstr_alloc"}
  BY DEF Copying, Allocating
<1>4. Takes(f) = kinds  BY <1>3, TakesIs
<1>5. f \in Terminated <=> f \in OfCstr  BY <1>3 DEF Terminated, OfCstr
<1>6. room \in {0, 1} /\ Room(call) = Len(b) + room  BY <1>1, <1>5 DEF Room
<1>7. Len(b) <= size - room <=> Room(call) <= size
  <2>. HIDE DEF room, b
  <2>1. PICK r \in Int, l \in Int : r = room /\ l = Len(b)  BY <1>2, <1>6
  <2>2. Room(call) = l + r  BY <1>6, <2>1
  <2>3. l <= size - r <=> l + r <= size  OBVIOUS
  <2>. QED  BY <2>1, <2>2, <2>3
<1>8. Checked(f, b) <=> Formed(f, b)  BY CheckedFormed
<1>9. CASE f \in Terminated \cap Allocating /\ size < 1
  <2>1. c.error = "bug"  BY <1>9 DEF Copy, Err
  <2>2. Caused(call, "bug")  BY <1>1, <1>3, <1>9 DEF Caused, Terminated, Allocating
  <2>. QED  BY <2>1, <2>2 DEF Answers
<1>10. CASE ~(f \in Terminated \cap Allocating /\ size < 1) /\ at.type \notin kinds
  <2>1. c.error = "type"  BY <1>10 DEF Copy, Err
  <2>. QED  BY <1>1, <1>4, <1>10, <2>1, Refusal
<1>11. CASE /\ ~(f \in Terminated \cap Allocating /\ size < 1) /\ at.type \in kinds
            /\ ~(Len(b) <= size - room)
  <2>1. c.error = "too_big"  BY <1>11 DEF Copy, Err
  <2>2. Room(call) > size
    <3>. HIDE DEF room, b, call
    <3>1. PICK r \in Int, l \in Int : r = room /\ l = Len(b)  BY <1>2, <1>6
    <3>2. Room(call) = l + r  BY <1>6, <3>1
    <3>. QED  BY <1>7, <1>11, <3>2
  <2>3. Caused(call, "too_big")  BY <1>1, <1>4, <1>11, <2>2 DEF Caused
  <2>. QED  BY <2>1, <2>3 DEF Answers
<1>12. CASE /\ ~(f \in Terminated \cap Allocating /\ size < 1) /\ at.type \in kinds
            /\ Len(b) <= size - room /\ ~Checked(f, b)
  <2>1. c.error = "type"  BY <1>12 DEF Copy, Err
  <2>2. Unfit(call)  BY <1>1, <1>8, <1>12 DEF Unfit
  <2>. QED  BY <2>1, <2>2, Refusal
<1>13. CASE /\ ~(f \in Terminated \cap Allocating /\ size < 1) /\ at.type \in kinds
            /\ Len(b) <= size - room /\ Checked(f, b)
  <2>1. c = Ok([bytes |-> whole])  BY <1>13 DEF Copy
  <2>2. c.error = "ok" /\ c.v.bytes = whole
    <3>. HIDE DEF c, whole
    <3>. QED  BY <2>1 DEF Ok
  <2>3. /\ Len(whole) <= size
        /\ IF f \in Terminated THEN IsCString(whole, b) ELSE whole = b
    <3>1. CASE f \in Terminated
      <4>1. whole = Append(b, NUL) /\ Len(whole) = Len(b) + 1
        <5>. DEFINE S == [t : {"byte"}, n : 0 .. (Base - 1)]
        <5>1. b \in Seq(S \cup {NUL})
          <6>1. b \in Seq(S)  BY <1>2 DEF Bytes_
          <6>. HIDE DEF S
          <6>. QED  BY <6>1
        <5>. HIDE DEF S
        <5>. QED  BY <3>1, <5>1, AppendIsConcat, AppendProperties
      <4>2. Len(whole) <= size  BY <1>2, <1>13, <3>1, <4>1
      <4>3. IsCString(whole, b)  BY <1>5, <1>8, <1>13, <3>1, <4>1 DEF IsCString, Formed
      <4>. QED  BY <3>1, <4>2, <4>3
    <3>2. CASE f \notin Terminated
      <4>1. whole = b
        <5>. DEFINE S == [t : {"byte"}, n : 0 .. (Base - 1)]
        <5>1. b \in Seq(S)  BY <1>2 DEF Bytes_
        <5>. HIDE DEF S
        <5>. QED  BY <3>2, <5>1, ConcatEmptySeq
      <4>2. Len(whole) <= size  BY <1>2, <1>13, <3>2, <4>1
      <4>. QED  BY <3>2, <4>1, <4>2
    <3>. QED  BY <3>1, <3>2
  <2>4. Means(root, call, c.v)
    <3>1. PICK r : r = c.v  OBVIOUS
    <3>2. Len(r.bytes) <= call.num /\ Formed(call.f, call.of.bytes)  BY <1>1, <1>8, <1>13, <2>2, <2>3, <3>1
    <3>3. IF call.f \in Terminated THEN IsCString(r.bytes, call.of.bytes) ELSE r.bytes = call.of.bytes
      BY <1>1, <2>2, <2>3, <3>1
    <3>4. call.f \in Copying \cup Allocating  BY <1>1
    <3>5. call.f \in {"copy_data", "copy_utf8", "copy_cstr", "copy_utf8_cstr", "data_alloc", "cstr_alloc", "utf8_cstr_alloc"}
      BY <1>1, <1>3
    <3>. HIDE DEF call, c
    <3>6. Means(root, call, r)  BY <3>2, <3>3, <3>4, <3>5, Names_ DEF Means, Copying, Allocating
    <3>. QED  BY <3>1, <3>6
  <2>. QED  BY <1>1, <1>4, <1>7, <1>8, <1>13, <2>2, <2>4, Meaning
<1>14. c.error = "ok" => ~(f \in Terminated \cap Allocating /\ size < 1) /\ at.type \in kinds
                         /\ Len(b) <= size - room /\ Checked(f, b)
  BY DEF Copy, Err
<1>. QED  BY <1>4, <1>7, <1>8, <1>9, <1>10, <1>11, <1>12, <1>13, <1>14

LEMMA AllocAnswers ==
    ASSUME at \in Held, NEW f \in Allocating, NEW size \in Int
    PROVE  \A o \in Allocated(Copy(f, at, size)) : Answers(Call(f, size), o)
<1>. DEFINE call == Call(f, size)  c == Copy(f, at, size)
<1>1. f \in Copying \cup Allocating /\ f \notin Copying  BY DEF Copying, Allocating
<1>2. /\ Answers(call, c)
      /\ c.error = "ok" => at.type \in Takes(f) /\ Room(call) <= size /\ Formed(f, at.bytes)
  BY <1>1, CopyAnswers
<1>3. call.f = f /\ call.of = at /\ call.num = size  BY CallIs
<1>4. c.error = "ok" => Caused(call, "memory")  BY <1>2, <1>3 DEF Caused
<1>5. c.error = "ok" => Answers(call, Err("memory", Null))  BY <1>4 DEF Answers, Err
<1>. QED  BY <1>2, <1>5 DEF Allocated

LEMMA EnumAnswers ==
    ASSUME at \in Held, NEW f \in {"enum", "enum_optional"}
    PROVE  Answers(Call(f, 0), Enum(f, at))
<1>. DEFINE call == Call(f, 0)  n == EnumOptional(at)  o == Enum(f, at)
<1>1. call.f = f /\ call.of = at /\ at.type \in Types  BY CallIs, HeldParsed DEF Parsed
<1>2. Takes("enum") = {"str"} /\ Takes("enum_optional") = Types  BY TakesIs
<1>3. DOMAIN Names = 1 .. Len(Names) /\ Len(Names) \in Nat  BY ArgumentsAssumption
<1>4. CASE Matches(at) = {}
  <2>1. n = Len(Names)  BY <1>4 DEF EnumOptional, Matches
  <2>2. CASE f = "enum"
    <3>1. o.error = "type"  BY <2>1, <2>2 DEF Enum, Err
    <3>. QED  BY <1>1, <1>4, <2>2, <3>1, Refusal DEF Unfit
  <2>3. CASE f = "enum_optional"
    <3>1. o = Ok([int |-> n])  BY <2>3 DEF Enum
    <3>2. o.error = "ok" /\ o.v.int = n  BY <3>1 DEF Ok
    <3>3. Means(root, call, o.v)  BY <1>1, <1>4, <2>1, <2>3, <3>2, Names_ DEF Means, Copying, Allocating
    <3>. QED  BY <1>1, <1>2, <2>3, <3>2, <3>3, Meaning
  <2>. QED  BY <2>2, <2>3
<1>5. CASE Matches(at) # {}
  <2>. DEFINE S == Matches(at)
              first == CHOOSE i \in DOMAIN Names : Names[i] = at.bytes /\ \A j \in DOMAIN Names : Names[j] = at.bytes => i <= j
  <2>1. at.type = "str" /\ n = first - 1  BY <1>5 DEF EnumOptional, Matches
  <2>2. \E i \in S : \A j \in S : i <= j
    <3>1. S \subseteq Nat /\ S # {}  BY <1>3, <1>5 DEF Matches
    <3>. HIDE DEF S
    <3>. QED  BY <3>1, Least
  <2>3. first \in DOMAIN Names /\ Names[first] = at.bytes  BY <2>1, <2>2 DEF Matches
  <2>4. n + 1 = first /\ n # Len(Names)
    <3>. HIDE DEF first, n
    <3>. QED  BY <1>3, <2>1, <2>3
  <2>5. n + 1 \in Matches(at)  BY <2>1, <2>3, <2>4 DEF Matches
  <2>6. o = Ok([int |-> n])  BY <2>4 DEF Enum
  <2>7. o.error = "ok" /\ o.v.int = n  BY <2>6 DEF Ok
  <2>8. Means(root, call, o.v)  BY <1>1, <1>5, <2>5, <2>7, Names_ DEF Means, Copying, Allocating
  <2>9. at.type \in Takes(f)  BY <1>1, <1>2, <2>1
  <2>. QED  BY <1>1, <2>7, <2>8, <2>9, Meaning
<1>. QED  BY <1>4, <1>5

-----------------------------------------------------------------------------
(* Lookups *)

(* A call that looks for a key, as the code can make it *)
KeyCalled(call) ==
    \/ call.by = "int" /\ call.num \in Lowest["i64"] .. Highest["i64"]
    \/ call.by = "uint" /\ call.num \in 0 .. Highest["u64"]
    \/ call.by = "str"

(* The keys are compared as the numbers they are *)
LEMMA KeySame ==
    ASSUME NEW call, KeyCalled(call), NEW key, Parsed(key)
    PROVE  IsKey(call, key) <=> Same(call, key)
<1>1. PICK h \in Nat \ {0} : /\ Power(8) = 2 * h /\ Lowest["i64"] = -h /\ Highest["i64"] = h - 1
                             /\ Highest["u64"] = 2 * h - 1
  BY Longest
<1>2. PICK m \in Nat \ {0} : m = Power(8) /\ m = 2 * h  BY <1>1
<1>3. \A x \in 0 .. (m - 1) : x % m = x
  <2>. SUFFICES ASSUME NEW x \in 0 .. (m - 1)  PROVE x % m = x  OBVIOUS
  <2>1. x = 0 * m + x  OBVIOUS
  <2>. QED  BY <2>1, Quotient
<1>4. key.type = "uint" => key.n \in 0 .. (m - 1)  BY <1>1, <1>2 DEF Parsed
<1>5. key.type = "int" => key.n \in -h .. (h - 1)  BY <1>1, <1>2 DEF Parsed
<1>6. CASE call.by = "int"
  <2>1. PICK num \in Int : num = call.num /\ num \in -h .. (h - 1)  BY <1>1, <1>6 DEF KeyCalled
  <2>2. num >= 0 => num % m = num  BY <1>2, <1>3, <2>1
  <2>3. CASE key.type = "int"  BY <1>6, <2>1, <2>3 DEF IsKey, Same, IsNumber
  <2>4. CASE key.type = "uint"
    <3>1. IsKey(call, key) <=> (num >= 0 /\ key.n = num % m)  BY <1>2, <1>6, <2>1, <2>4 DEF IsKey
    <3>2. Same(call, key) <=> key.n = num  BY <1>6, <2>1, <2>4 DEF Same, IsNumber
    <3>. QED  BY <1>4, <2>2, <2>4, <3>1, <3>2
  <2>5. CASE key.type \notin {"int", "uint"}  BY <1>6, <2>5 DEF IsKey, Same, IsNumber
  <2>. QED  BY <2>3, <2>4, <2>5
<1>7. CASE call.by = "uint"
  <2>1. PICK num \in Int : num = call.num /\ num \in 0 .. (m - 1)  BY <1>1, <1>2, <1>7 DEF KeyCalled
  <2>2. CASE key.type = "uint"  BY <1>7, <2>1, <2>2 DEF IsKey, Same, IsNumber
  <2>3. CASE key.type = "int"
    <3>1. IsKey(call, key) <=> (key.n >= 0 /\ key.n % m = num)  BY <1>2, <1>7, <2>1, <2>3 DEF IsKey
    <3>2. Same(call, key) <=> key.n = num  BY <1>7, <2>1, <2>3 DEF Same, IsNumber
    <3>3. PICK n \in Int : n = key.n /\ n \in -h .. (h - 1)  BY <1>5, <2>3
    <3>4. n >= 0 => n % m = n  BY <1>2, <1>3, <3>3
    <3>. QED  BY <2>1, <3>1, <3>2, <3>3, <3>4
  <2>4. CASE key.type \notin {"int", "uint"}  BY <1>7, <2>4 DEF IsKey, Same, IsNumber
  <2>. QED  BY <2>2, <2>3, <2>4
<1>8. CASE call.by = "str"  BY <1>8 DEF IsKey, Same
<1>. QED  BY <1>6, <1>7, <1>8 DEF KeyCalled

(* The elements of a node *)
LEMMA Elements ==
    ASSUME at \in Held
    PROVE  /\ Len(at.items) \in Nat
           /\ \A i \in 1 .. Len(at.items) : at.items[i] \in Nodes
           /\ \A i \in 1 .. (Len(at.items) \div 2) : 2 * i - 1 \in 1 .. Len(at.items) /\ 2 * i \in 1 .. Len(at.items)
<1>1. at.items \in Seq(Nodes)  BY HeldParsed DEF Parsed
<1>2. PICK l \in Nat : l = Len(at.items)  BY <1>1
<1>3. \A i \in 1 .. (l \div 2) : 2 * i - 1 \in 1 .. l /\ 2 * i \in 1 .. l  OBVIOUS
<1>4. \A i \in 1 .. l : at.items[i] \in Nodes
  <2>1. PICK s \in Seq(Nodes) : s = at.items  BY <1>1
  <2>2. \A i \in 1 .. Len(s) : s[i] \in Nodes  OBVIOUS
  <2>. QED  BY <1>2, <2>1, <2>2
<1>. QED  BY <1>2, <1>3, <1>4

(* What a lookup comes to: the only pair with the key, none, or an error *)
LEMMA LookedUp ==
    ASSUME at \in Held, NEW call, KeyCalled(call), call.of = at
    PROVE  LET o == Lookup(call, at)
           IN  \/ o.error = "type" /\ o.v # Null /\ o.v.node = NilNode /\ at.type # "map"
               \/ /\ at.type = "map"
                  /\ \/ o.error = "data" /\ o.v # Null /\ o.v.node = NilNode /\ Cardinality(Pairs(call)) > 1
                     \/ o.error = "ok" /\ o.v = Null /\ Pairs(call) = {}
                     \/ o.error = "ok" /\ o.v # Null /\ OnlyPair(call, o.v.node) /\ o.v.node \in Held
<1>. DEFINE o == Lookup(call, at)  half == Len(at.items) \div 2  P == Pairs(call)
            found == {i \in 1 .. half : IsKey(call, at.items[2 * i - 1])}
<1>1. \A n : [node |-> n] # Null
  <2>1. \A n : "node" \in DOMAIN [node |-> n]  OBVIOUS
  <2>2. "node" \notin DOMAIN Null  BY DEF Null
  <2>. QED  BY <2>1, <2>2
<1>2. found = P
  <2>1. ASSUME NEW i \in 1 .. half
        PROVE IsKey(call, at.items[2 * i - 1]) <=> Same(call, at.items[2 * i - 1])
    <3>1. at.items[2 * i - 1] \in Nodes  BY Elements
    <3>. QED  BY <3>1, KeySame, NodesAssumption
  <2>. QED  BY <2>1 DEF Pairs
<1>3. IsFiniteSet(P)
  <2>1. PICK n \in Int : n = half
    <3>1. PICK l \in Nat : l = Len(at.items)  BY Elements
    <3>2. l \div 2 \in Int  OBVIOUS
    <3>. QED  BY <3>1, <3>2
  <2>2. IsFiniteSet(1 .. half)  BY <2>1, FS_Interval, 1 \in Int
  <2>3. P \subseteq 1 .. half  BY <1>2
  <2>. QED  BY <2>2, <2>3, FS_Subset
<1>4. Cardinality(P) \in Nat /\ (Cardinality(P) = 0 <=> P = {}) /\ (Cardinality(P) = 1 <=> \E i : P = {i})
  BY <1>3, FS_CardinalityType, FS_EmptySet, FS_Singleton
<1>5. CASE at.type # "map"
  <2>1. o = NotThere("type")  BY <1>5 DEF Lookup
  <2>. QED  BY <1>1, <1>5, <2>1 DEF NotThere, Err
<1>6. CASE at.type = "map" /\ Cardinality(P) > 1
  <2>1. o = NotThere("data")  BY <1>2, <1>6 DEF Lookup
  <2>. QED  BY <1>1, <1>6, <2>1 DEF NotThere, Err
<1>7. CASE at.type = "map" /\ P = {}
  <2>1. ~(Cardinality(P) > 1)  BY <1>4, <1>7
  <2>2. o = Ok(Null)  BY <1>2, <1>7, <2>1 DEF Lookup
  <2>. QED  BY <1>7, <2>2 DEF Ok
<1>8. CASE at.type = "map" /\ Cardinality(P) = 1
  <2>1. PICK i : P = {i}  BY <1>4, <1>8
  <2>2. (CHOOSE j \in P : TRUE) = i  BY <2>1
  <2>3. ~(Cardinality(P) > 1) /\ P # {}  BY <1>8, <2>1
  <2>4. o = Found(at.items[2 * i])  BY <1>2, <1>8, <2>2, <2>3 DEF Lookup
  <2>5. i \in 1 .. half  BY <1>2, <2>1
  <2>6. at.items[2 * i] \in Held  BY <2>5, Elements DEF Held
  <2>7. OnlyPair(call, at.items[2 * i])  BY <2>1 DEF OnlyPair
  <2>. QED  BY <1>1, <1>8, <2>4, <2>6, <2>7 DEF Found, Ok
<1>. QED  BY <1>4, <1>5, <1>6, <1>7, <1>8

(* How many pairs there are *)
LEMMA PairsCounted ==
    ASSUME NEW call
    PROVE  /\ Pairs(call) = {} => Cardinality(Pairs(call)) = 0
           /\ (\E node : OnlyPair(call, node)) => Cardinality(Pairs(call)) = 1 /\ Pairs(call) # {}
<1>1. \A i : Cardinality({i}) = 1  BY FS_Singleton
<1>. QED  BY <1>1, FS_EmptySet DEF OnlyPair

LEMMA MapAnswers ==
    ASSUME at \in Held, NEW call, KeyCalled(call), call.of = at, call.f \in {"map", "map_optional"}
    PROVE  LET o == Wrapped(Lookup(call, at), call.f = "map_optional")
           IN  Answers(call, o) /\ o.v.node \in Held
<1>. DEFINE l == Lookup(call, at)  o == Wrapped(l, call.f = "map_optional")
<1>1. Takes(call.f) = {"map"}  BY TakesIs
<1>2. \A r : OnlyPair(call, r.node) => Means(root, call, r)
  <2>. SUFFICES ASSUME NEW r, OnlyPair(call, r.node)  PROVE Means(root, call, r)  OBVIOUS
  <2>1. Pairs(call) # {}  BY PairsCounted
  <2>. QED  BY <2>1, Names_ DEF Means, Copying, Allocating
<1>3. CASE at.type # "map"
  <2>1. l.error = "type" /\ l.v # Null /\ l.v.node = NilNode  BY <1>3, LookedUp
  <2>2. o = l  BY <2>1 DEF Wrapped
  <2>. QED  BY <1>1, <1>3, <2>1, <2>2, Refusal DEF Held
<1>4. CASE at.type = "map" /\ l.error = "data"
  <2>1. l.v # Null /\ l.v.node = NilNode /\ Cardinality(Pairs(call)) > 1  BY <1>4, LookedUp
  <2>2. o = l  BY <2>1 DEF Wrapped
  <2>3. Cardinality(Pairs(call)) # 1
    <3>1. ~(1 > 1)  OBVIOUS
    <3>. QED  BY <2>1, <3>1
  <2>4. Caused(call, "data")  BY <1>1, <1>4, <2>1, <2>3 DEF Caused
  <2>. QED  BY <1>4, <2>1, <2>2, <2>4 DEF Answers, Held
<1>5. CASE at.type = "map" /\ l.v = Null
  <2>1. Pairs(call) = {}  BY <1>5, LookedUp
  <2>2. CASE call.f = "map"
    <3>1. o = NotThere("data")  BY <1>5, <2>2 DEF Wrapped
    <3>2. Cardinality(Pairs(call)) # 1  BY <2>1, PairsCounted
    <3>3. Caused(call, "data")  BY <1>1, <1>5, <2>2, <3>2 DEF Caused
    <3>. QED  BY <3>1, <3>3 DEF NotThere, Err, Answers, Held
  <2>3. CASE call.f = "map_optional"
    <3>1. o = Found(MissingNode)  BY <1>5, <2>3 DEF Wrapped
    <3>2. o.error = "ok" /\ o.v.node = MissingNode  BY <3>1 DEF Found, Ok
    <3>3. Means(root, call, o.v)  BY <2>1, <2>3, <3>2, Names_ DEF Means, Copying, Allocating
    <3>. QED  BY <1>1, <1>5, <3>2, <3>3, Meaning DEF Held
  <2>. QED  BY <2>2, <2>3
<1>6. CASE at.type = "map" /\ l.error = "ok" /\ l.v # Null
  <2>1. OnlyPair(call, l.v.node) /\ l.v.node \in Held  BY <1>6, LookedUp
  <2>2. o = l  BY <1>6 DEF Wrapped
  <2>. QED  BY <1>1, <1>2, <1>6, <2>1, <2>2, Meaning
<1>. QED  BY <1>3, <1>4, <1>5, <1>6, LookedUp

LEMMA ContainsAnswers ==
    ASSUME at \in Held, NEW call, KeyCalled(call), call.of = at, call.f = "map_contains"
    PROVE  Answers(call, Contained(Lookup(call, at)))
<1>. DEFINE l == Lookup(call, at)  o == Contained(l)
<1>1. Takes(call.f) = {"map"}  BY TakesIs
<1>2. o.error = l.error /\ o.v.bool = (l.error = "ok" /\ l.v # Null)  BY DEF Contained
<1>3. ASSUME o.v.bool = (Cardinality(Pairs(call)) = 1)  PROVE Means(root, call, o.v)
  BY <1>3, Names_ DEF Means, Copying, Allocating
<1>4. CASE at.type # "map"
  <2>1. l.error = "type"  BY <1>4, LookedUp
  <2>. QED  BY <1>1, <1>2, <1>4, <2>1, Refusal
<1>5. CASE at.type = "map" /\ l.error = "data"
  <2>1. Cardinality(Pairs(call)) > 1  BY <1>5, LookedUp
  <2>2. Caused(call, "data")  BY <1>1, <1>5, <2>1 DEF Caused
  <2>. QED  BY <1>2, <1>5, <2>2 DEF Answers
<1>6. CASE at.type = "map" /\ l.error = "ok" /\ l.v = Null
  <2>1. Pairs(call) = {}  BY <1>6, LookedUp
  <2>2. Cardinality(Pairs(call)) = 0  BY <2>1, PairsCounted
  <2>. QED  BY <1>1, <1>2, <1>3, <1>6, <2>2, Meaning
<1>7. CASE at.type = "map" /\ l.error = "ok" /\ l.v # Null
  <2>1. OnlyPair(call, l.v.node)  BY <1>7, LookedUp
  <2>2. Cardinality(Pairs(call)) = 1  BY <2>1, PairsCounted
  <2>. QED  BY <1>1, <1>2, <1>3, <1>7, <2>2, Meaning
<1>. QED  BY <1>4, <1>5, <1>6, <1>7, LookedUp

(* An element at its place *)
LEMMA ArrayAtAnswers ==
    ASSUME at \in Held, NEW i \in Nat
    PROVE  Answers(Call("array_at", i), ArrayAt(at, i)) /\ ArrayAt(at, i).v.node \in Held
<1>. DEFINE call == Call("array_at", i)  o == ArrayAt(at, i)
<1>1. call.f = "array_at" /\ call.of = at /\ call.num = i /\ Takes(call.f) = {"array"}  BY CallIs, TakesIs
<1>2. PICK l \in Nat : l = Len(at.items) /\ \A k \in 1 .. l : at.items[k] \in Nodes  BY Elements
<1>3. CASE at.type # "array"
  <2>1. o = NotThere("type")  BY <1>3 DEF ArrayAt
  <2>2. o.error = "type" /\ o.v.node = NilNode  BY <2>1 DEF NotThere, Err
  <2>. QED  BY <1>1, <1>3, <2>2, Refusal DEF Held
<1>4. CASE at.type = "array" /\ i >= l
  <2>1. o = NotThere("data")  BY <1>2, <1>4 DEF ArrayAt
  <2>2. o.error = "data" /\ o.v.node = NilNode  BY <2>1 DEF NotThere, Err
  <2>3. Caused(call, "data")  BY <1>1, <1>2, <1>4 DEF Caused
  <2>. QED  BY <2>2, <2>3 DEF Answers, Held
<1>5. CASE at.type = "array" /\ i < l
  <2>1. o = Found(at.items[i + 1])  BY <1>2, <1>5 DEF ArrayAt
  <2>2. o.error = "ok" /\ o.v.node = at.items[i + 1]  BY <2>1 DEF Found, Ok
  <2>3. at.items[i + 1] \in Held  BY <1>2, <1>5 DEF Held
  <2>4. Means(root, call, o.v)  BY <1>1, <1>2, <1>5, <2>2, Names_ DEF Means, Copying, Allocating
  <2>. QED  BY <1>1, <1>5, <2>2, <2>3, <2>4, Meaning
<1>. QED  BY <1>2, <1>3, <1>4, <1>5

LEMMA MapAtAnswers ==
    ASSUME at \in Held, NEW i \in Nat, NEW f \in {"map_key_at", "map_value_at"}
    PROVE  LET o == MapAt(at, i, IF f = "map_key_at" THEN 0 ELSE 1)
           IN  Answers(Call(f, i), o) /\ o.v.node \in Held
<1>. DEFINE call == Call(f, i)  offset == IF f = "map_key_at" THEN 0 ELSE 1  o == MapAt(at, i, offset)
<1>1. call.f = f /\ call.of = at /\ call.num = i /\ Takes(call.f) = {"map"}  BY CallIs, TakesIs
<1>2. PICK l \in Nat : l = Len(at.items) /\ \A k \in 1 .. l : at.items[k] \in Nodes  BY Elements
<1>3. CASE at.type # "map"
  <2>1. o = NotThere("type")  BY <1>3 DEF MapAt
  <2>2. o.error = "type" /\ o.v.node = NilNode  BY <2>1 DEF NotThere, Err
  <2>. QED  BY <1>1, <1>3, <2>2, Refusal DEF Held
<1>4. PICK h \in Nat : h = Len(at.items) \div 2
  <2>1. l \div 2 \in Nat  OBVIOUS
  <2>. QED  BY <1>2, <2>1
<1>a. at.type = "map" => 2 * h = l  BY <1>2, <1>4, WholePairs
<1>5. CASE at.type = "map" /\ i >= h
  <2>1. o = NotThere("data")  BY <1>4, <1>5 DEF MapAt
  <2>2. o.error = "data" /\ o.v.node = NilNode  BY <2>1 DEF NotThere, Err
  <2>3. 2 * i >= Len(at.items)  BY <1>2, <1>a, <1>5
  <2>4. Caused(call, "data")  BY <1>1, <1>5, <2>3 DEF Caused
  <2>. QED  BY <2>2, <2>4 DEF Answers, Held
<1>6. CASE at.type = "map" /\ i < h
  <2>1. PICK k \in 1 .. l : k = 2 * i + offset + 1  BY <1>a, <1>6
  <2>2. o = Found(at.items[k])
    <3>1. ~(i >= h)  BY <1>6
    <3>. QED  BY <1>4, <1>6, <2>1, <3>1 DEF MapAt
  <2>3. o.error = "ok" /\ o.v.node = at.items[k]  BY <2>2 DEF Found, Ok
  <2>4. at.items[k] \in Held  BY <1>2 DEF Held
  <2>5. 2 * i < Len(at.items)  BY <1>2, <1>a, <1>6
  <2>6. o.v.node = at.items[IF f = "map_key_at" THEN 2 * i + 1 ELSE 2 * i + 2]  BY <2>1, <2>3
  <2>7. Means(root, call, o.v)
    <3>1. PICK r : r = o.v  OBVIOUS
    <3>. HIDE DEF o
    <3>2. CASE f = "map_key_at"  BY <1>1, <2>5, <2>6, <3>1, <3>2, Names_ DEF Means, Copying, Allocating
    <3>3. CASE f = "map_value_at"  BY <1>1, <2>5, <2>6, <3>1, <3>3, Names_ DEF Means, Copying, Allocating
    <3>. QED  BY <3>2, <3>3
  <2>. QED  BY <1>1, <1>6, <2>3, <2>4, <2>7, Meaning
<1>7. i >= h \/ i < h  OBVIOUS
<1>. QED  BY <1>3, <1>5, <1>6, <1>7

LEMMA KeyCallsAre ==
    ASSUME NEW f, NEW call \in KeyCalls(f)
    PROVE  KeyCalled(call) /\ call.of = at /\ call.f = f
<1>1. CASE call \in {KeyCall(f, "int", n, << >>) : n \in Keys \cap (Lowest["i64"] .. Highest["i64"])}
  BY <1>1 DEF KeyCall, KeyCalled
<1>2. CASE call \in {KeyCall(f, "uint", n, << >>) : n \in Keys \cap (0 .. Highest["u64"])}
  BY <1>2 DEF KeyCall, KeyCalled
<1>3. CASE call \in {KeyCall(f, "str", 0, Names[i]) : i \in DOMAIN Names}
  BY <1>3 DEF KeyCall, KeyCalled
<1>. QED  BY <1>1, <1>2, <1>3 DEF KeyCalls

-----------------------------------------------------------------------------
(* Steps *)

Inv == root \in Nodes /\ at \in Held

LEMMA InitInv == Init => Inv
BY NodesAssumption DEF Init, Inv, Held

(* A question that leaves the program with its node *)
LEMMA ValueAsked ==
    ASSUME Inv, NEW call, NEW outcomes, NEW neutral, AskValue(call, outcomes, neutral),
           \A o \in outcomes : Answers(call, o)
    PROVE  Inv' /\ Told
<1>1. Told  BY AskedTold DEF AskValue
<1>2. root' = root /\ at' = at  BY DEF AskValue, Ask
<1>. QED  BY <1>1, <1>2 DEF Inv

(* One that gives it another *)
LEMMA NodeAsked ==
    ASSUME Inv, NEW call, NEW o, AskNode(call, o), Answers(call, o), o.v.node \in Held
    PROVE  Inv' /\ Told
<1>1. Ask(call, {o}, [node |-> NilNode]) /\ at' = result'.node  BY DEF AskNode
<1>2. Told  BY <1>1, AskedTold
<1>3. root' = root /\ result'.node \in Held  BY <1>1 DEF Ask, Held
<1>. QED  BY <1>1, <1>2, <1>3 DEF Inv

LEMMA ReadNumberKeeps == ASSUME Inv, ReadInteger \/ ReadFloat  PROVE Inv' /\ Told
<1>1. CASE ReadInteger
  <2>1. PICK f \in Integers_ : AskValue(Call(f, 0), {Integer(f, at)}, [int |-> 0])  BY <1>1 DEF ReadInteger
  <2>2. Answers(Call(f, 0), Integer(f, at))  BY IntegerAnswers DEF Inv
  <2>. QED  BY <2>1, <2>2, ValueAsked
<1>2. CASE ReadFloat
  <2>1. PICK f \in DOMAIN Accepts : AskValue(Call(f, 0), {Floating(f, at)}, [real |-> Zero(f)])  BY <1>2 DEF ReadFloat
  <2>2. Answers(Call(f, 0), Floating(f, at))  BY FloatingAnswers DEF Inv
  <2>. QED  BY <2>1, <2>2, ValueAsked
<1>. QED  BY <1>1, <1>2

LEMMA CheckKeeps == ASSUME Inv, CheckValue \/ ReadBool \/ CheckText  PROVE Inv' /\ Told
<1>1. CASE CheckValue
  <2>1. PICK f \in {"nil", "missing", "true", "false"} : AskValue(Call(f, 0), {Assert_(f, at)}, Null)
    BY <1>1 DEF CheckValue
  <2>2. Answers(Call(f, 0), Assert_(f, at))  BY AssertAnswers
  <2>. QED  BY <2>1, <2>2, ValueAsked
<1>2. CASE ReadBool  BY <1>2, BoolAnswers, ValueAsked DEF ReadBool
<1>3. CASE CheckText
  <2>1. PICK f \in {"check_utf8", "check_utf8_cstr"} : AskValue(Call(f, 0), {CheckUtf8(f, at)}, Null)
    BY <1>3 DEF CheckText
  <2>2. Answers(Call(f, 0), CheckUtf8(f, at))  BY CheckAnswers
  <2>. QED  BY <2>1, <2>2, ValueAsked
<1>. QED  BY <1>1, <1>2, <1>3

LEMMA ReadTypeKeeps == ASSUME Inv, ReadType \/ ReadTag  PROVE Inv' /\ Told
<1>1. at \in Held  BY DEF Inv
<1>2. CASE AskValue(Call("type", 0), {Ok([type |-> at.type])}, [type |-> "nil"])
  BY <1>1, <1>2, TypeAnswers, ValueAsked
<1>3. CASE AskValue(Call("is_nil", 0), {Ok([bool |-> at.type = "nil"])}, [bool |-> TRUE])
  BY <1>1, <1>3, TypeAnswers, ValueAsked
<1>4. CASE AskValue(Call("is_missing", 0), {Ok([bool |-> at.type = "missing"])}, [bool |-> FALSE])
  BY <1>1, <1>4, TypeAnswers, ValueAsked
<1>5. CASE ReadTag  BY <1>1, <1>5, TagAnswers, ValueAsked DEF ReadTag
<1>. QED  BY <1>2, <1>3, <1>4, <1>5 DEF ReadType

LEMMA ReadTimestampKeeps == ASSUME Inv, ReadTimestamp  PROVE Inv' /\ Told
<1>1. Answers(Call("timestamp", 0), Timestamp(at))  BY TimestampAnswers DEF Inv
<1>. QED  BY <1>1, ValueAsked DEF ReadTimestamp

LEMMA ReadExtentKeeps == ASSUME Inv, ReadExtent \/ ReadBytes  PROVE Inv' /\ Told
<1>1. CASE ReadExtent
  <2>1. PICK f \in Extents : AskValue(Call(f, 0), {Extent(f, at)}, [int |-> 0])  BY <1>1 DEF ReadExtent
  <2>2. Answers(Call(f, 0), Extent(f, at))  BY ExtentAnswers DEF Inv
  <2>. QED  BY <2>1, <2>2, ValueAsked
<1>2. CASE ReadBytes
  <2>1. PICK f \in {"str", "data", "bin_data"} : AskValue(Call(f, 0), {Bytes(f, at)}, Null)  BY <1>2 DEF ReadBytes
  <2>2. Answers(Call(f, 0), Bytes(f, at))  BY BytesAnswers
  <2>. QED  BY <2>1, <2>2, ValueAsked
<1>. QED  BY <1>1, <1>2

LEMMA CopyKeeps == ASSUME Inv, CopyText \/ AllocText  PROVE Inv' /\ Told
<1>1. CASE CopyText
  <2>1. PICK f \in Copying, size \in Sizes :
          /\ f \in Terminated => size >= 1
          /\ AskValue(Call(f, size), {Copy(f, at, size)}, Nothing(f))
    BY <1>1 DEF CopyText
  <2>2. size \in Int  BY ArgumentsAssumption
  <2>3. Answers(Call(f, size), Copy(f, at, size))  BY <2>1, <2>2, CopyAnswers DEF Inv
  <2>. QED  BY <2>1, <2>3, ValueAsked
<1>2. CASE AllocText
  <2>1. PICK f \in Allocating, size \in Sizes : AskValue(Call(f, size), Allocated(Copy(f, at, size)), Null)
    BY <1>2 DEF AllocText
  <2>2. size \in Int  BY ArgumentsAssumption
  <2>3. \A o \in Allocated(Copy(f, at, size)) : Answers(Call(f, size), o)  BY <2>2, AllocAnswers DEF Inv
  <2>. QED  BY <2>1, <2>3, ValueAsked
<1>. QED  BY <1>1, <1>2

LEMMA ReadEnumKeeps == ASSUME Inv, ReadEnum  PROVE Inv' /\ Told
<1>1. PICK f \in {"enum", "enum_optional"} : AskValue(Call(f, 0), {Enum(f, at)}, [int |-> Len(Names)])
  BY DEF ReadEnum
<1>2. Answers(Call(f, 0), Enum(f, at))  BY EnumAnswers DEF Inv
<1>. QED  BY <1>1, <1>2, ValueAsked

LEMMA DescendKeeps == ASSUME Inv, Descend  PROVE Inv' /\ Told
<1>1. at \in Held  BY DEF Inv
<1>2. ASSUME NEW i \in 0 .. 2, AskNode(Call("array_at", i), ArrayAt(at, i))  PROVE Inv' /\ Told
  <2>1. Answers(Call("array_at", i), ArrayAt(at, i)) /\ ArrayAt(at, i).v.node \in Held
    BY <1>1, ArrayAtAnswers, i \in Nat
  <2>. QED  BY <1>2, <2>1, NodeAsked
<1>3. ASSUME NEW i \in 0 .. 2, AskNode(Call("map_key_at", i), MapAt(at, i, 0))  PROVE Inv' /\ Told
  <2>1. Answers(Call("map_key_at", i), MapAt(at, i, 0)) /\ MapAt(at, i, 0).v.node \in Held
    BY <1>1, MapAtAnswers, i \in Nat
  <2>. QED  BY <1>3, <2>1, NodeAsked
<1>4. ASSUME NEW i \in 0 .. 2, AskNode(Call("map_value_at", i), MapAt(at, i, 1))  PROVE Inv' /\ Told
  <2>1. Answers(Call("map_value_at", i), MapAt(at, i, 1)) /\ MapAt(at, i, 1).v.node \in Held
    BY <1>1, MapAtAnswers, i \in Nat
  <2>. QED  BY <1>4, <2>1, NodeAsked
<1>. QED  BY <1>2, <1>3, <1>4 DEF Descend

LEMMA MapLookupKeeps == ASSUME Inv, MapLookup  PROVE Inv' /\ Told
<1>. USE DEF Inv
<1>1. ASSUME NEW call \in KeyCalls("map"), AskNode(call, Wrapped(Lookup(call, at), FALSE))
      PROVE  Inv' /\ Told
  <2>1. KeyCalled(call) /\ call.of = at /\ call.f = "map" /\ (call.f = "map_optional") = FALSE  BY KeyCallsAre
  <2>2. LET o == Wrapped(Lookup(call, at), FALSE) IN Answers(call, o) /\ o.v.node \in Held  BY <2>1, MapAnswers
  <2>. QED  BY <1>1, <2>2, NodeAsked
<1>2. ASSUME NEW call \in KeyCalls("map_optional"), AskNode(call, Wrapped(Lookup(call, at), TRUE))
      PROVE  Inv' /\ Told
  <2>1. KeyCalled(call) /\ call.of = at /\ call.f = "map_optional" /\ (call.f = "map_optional") = TRUE  BY KeyCallsAre
  <2>2. LET o == Wrapped(Lookup(call, at), TRUE) IN Answers(call, o) /\ o.v.node \in Held  BY <2>1, MapAnswers
  <2>. QED  BY <1>2, <2>2, NodeAsked
<1>3. ASSUME NEW call \in KeyCalls("map_contains"),
             AskValue(call, {Contained(Lookup(call, at))}, [bool |-> FALSE])
      PROVE  Inv' /\ Told
  <2>1. Answers(call, Contained(Lookup(call, at)))  BY KeyCallsAre, ContainsAnswers
  <2>. QED  BY <1>3, <2>1, ValueAsked
<1>. QED  BY <1>1, <1>2, <1>3 DEF MapLookup

LEMMA RootKeeps == ASSUME Inv, Root  PROVE Inv' /\ Told
<1>1. AskNode(Call("root", 0), Found(root))  BY DEF Root
<1>2. Found(root).v.node \in Held  BY DEF Found, Ok, Inv, Held
<1>3. Answers(Call("root", 0), Found(root))  BY RootAnswers DEF Inv
<1>. QED  BY <1>1, <1>2, <1>3, NodeAsked

LEMMA NextKeeps == ASSUME Inv, Next  PROVE Inv' /\ Told
BY ReadNumberKeeps, CheckKeeps, ReadTypeKeeps, ReadTimestampKeeps, ReadExtentKeeps, CopyKeeps,
   ReadEnumKeeps, DescendKeeps, MapLookupKeeps, RootKeeps DEF Next

LEMMA Invariance == Spec => []Inv
<1>1. Inv /\ [Next]_vars => Inv'
  <2>1. Inv /\ UNCHANGED vars => Inv'  BY DEF Inv, vars
  <2>. QED  BY <2>1, NextKeeps
<1>. QED  BY InitInv, <1>1, PTL DEF Spec

-----------------------------------------------------------------------------
(* Theorems *)

(* While the tree has no error, every node was of a type that its function  *)
(* takes and every answer was what the node means: a number in the type it  *)
(* was asked for or the nearest of a float or double, a tag and a size what *)
(* is there, a time stamp what its bytes were made from, a string whole, of *)
(* its form and terminated, an element the one at its place, and a lookup   *)
(* the only pair with its key, in whichever encoding (node.c:1189-2181).    *)
THEOREM AnswersTrue == Spec => []AnswersAreTrue
<1>1. Init => AnswersAreTrue  BY DEF Init, AnswersAreTrue
<1>2. AnswersAreTrue /\ UNCHANGED vars => AnswersAreTrue'  BY DEF AnswersAreTrue, vars
<1>3. Inv /\ AnswersAreTrue /\ [Next]_vars => AnswersAreTrue'  BY <1>2, NextKeeps DEF Told
<1>. QED  BY Invariance, <1>1, <1>3, PTL DEF Spec

(* An error that a question brings is the one that the node and what was    *)
(* asked of it give cause to: no function refuses what it can answer, for   *)
(* whatever numbers, strings, sizes and maps (node.c:1336-2181).            *)
THEOREM ErrorsCaused == Spec => ErrorsHaveCause
<1>1. Inv /\ [Next]_vars => [error = "ok" /\ error' # "ok" => Caused(asked', error')]_vars
  BY NextKeeps DEF Told
<1>. QED  BY Invariance, <1>1, PTL DEF Spec, ErrorsHaveCause

=============================================================================

-------------------------- MODULE PhaseVector_proofs --------------------------
(***************************************************************************)
(* Proofs about PhaseVector: phases packed into bytes do not disturb each  *)
(* other, and unbind inverts bind byte for byte, for vectors of any        *)
(* dimension and of any width from 1 to 8.                                 *)
(***************************************************************************)
EXTENDS PhaseVector, TLAPS

Bytes == 0 .. 255
(* Bit j of a number                                                       *)
Bit(b, j) == (b \div Pow2[j]) % 2

(* The powers of two of the widths and the offsets in a byte               *)
LEMMA Powers ==
  /\ Pow2[0] = 1 /\ Pow2[1] = 2 /\ Pow2[2] = 4 /\ Pow2[3] = 8 /\ Pow2[4] = 16
  /\ Pow2[5] = 32 /\ Pow2[6] = 64 /\ Pow2[7] = 128 /\ Pow2[8] = 256
BY DEF Pow2

(* Each of them is a positive number.                                      *)
LEMMA PowerType == ASSUME NEW m \in 0 .. 8 PROVE Pow2[m] \in Nat \ {0} /\ Pow2[m] <= 256
BY Powers

(* They multiply as their exponents add.                                   *)
LEMMA PowerOfSum ==
  ASSUME NEW m \in 0 .. 8, NEW n \in 0 .. 8, NEW j \in 0 .. 8, j = m + n
  PROVE  Pow2[j] = Pow2[m] * Pow2[n]
<1>1. CASE m = 0  BY <1>1, Powers
<1>2. CASE m = 1  BY <1>2, Powers
<1>3. CASE m = 2  BY <1>3, Powers
<1>4. CASE m = 3  BY <1>4, Powers
<1>5. CASE m = 4  BY <1>5, Powers
<1>6. CASE m > 4  BY <1>6, Powers
<1> QED BY <1>1, <1>2, <1>3, <1>4, <1>5, <1>6

(* A number put together from quotient and remainder has these.            *)
LEMMA DivSum ==
  ASSUME NEW a \in Nat, NEW d \in Nat \ {0}, NEW l \in 0 .. (d - 1),
         NEW z, z = a * d + l
  PROVE  z \div d = a /\ z % d = l
OBVIOUS

(* And every number is put together like this.                             *)
LEMMA DivOf ==
  ASSUME NEW a \in Nat, NEW d \in Nat \ {0}
  PROVE  a \div d \in Nat /\ a % d \in 0 .. (d - 1) /\ a = (a \div d) * d + (a % d)
OBVIOUS

(* Shifting out the low part, and more.                                    *)
LEMMA HighPart ==
  ASSUME NEW q \in Nat, NEW c \in Nat \ {0}, NEW e \in Nat \ {0}, NEW l \in 0 .. (c - 1)
  PROVE  (q * c + l) \div (c * e) = q \div e
<1>0. PICK z, d : z = q * c + l /\ d = c * e
  OBVIOUS
<1>1. PICK u \in Nat, v \in 0 .. (e - 1) : q = u * e + v /\ u = q \div e
  BY DivOf
<1>2. z = u * d + (v * c + l)
  <2>1. (u * e + v) * c = u * (c * e) + v * c
    OBVIOUS
  <2>2. u * (c * e) \in Nat /\ v * c \in Nat /\ l \in Nat
    OBVIOUS
  <2>3. z = (u * e + v) * c + l
    BY <1>0, <1>1
  <2> QED BY <1>0, <2>1, <2>2, <2>3
<1>3. v * c + l \in 0 .. (d - 1) /\ d \in Nat \ {0}
  <2>1. v * c >= 0 /\ v * c <= (e - 1) * c
    BY <1>1
  <2>2. (e - 1) * c = c * e - c /\ c * e \in Nat /\ c * e > 0 /\ v * c \in Nat
    BY <1>1
  <2> QED BY <1>0, <2>1, <2>2
<1>4. z \div d = u
  BY <1>2, <1>3, DivSum
<1> QED BY <1>0, <1>1, <1>4

(* z is q above its m low bits, which are l.                               *)
Split(z, m, q, l) ==
  m \in 0 .. 8 /\ q \in Nat /\ l \in 0 .. (Pow2[m] - 1) /\ z = q * Pow2[m] + l

(* The bits of a number put together from two.                             *)
LEMMA BitsOfSum ==
  ASSUME NEW z, NEW m, NEW q, NEW l, Split(z, m, q, l), NEW j \in 0 .. 7
  PROVE  Bit(z, j) = IF j < m THEN Bit(l, j) ELSE Bit(q, j - m)
<1>0. m \in 0 .. 8 /\ q \in Nat /\ l \in 0 .. (Pow2[m] - 1) /\ z = q * Pow2[m] + l
  BY DEF Split
<1>1. PICK c \in Nat \ {0} : c = Pow2[m]
  BY <1>0, PowerType
<1>2. PICK d \in Nat \ {0} : d = Pow2[j]
  <2>1. j \in 0 .. 8
    OBVIOUS
  <2> QED BY <2>1, PowerType
<1>3. l \in Nat /\ q \in Nat /\ l \in 0 .. (c - 1) /\ z = q * c + l
  BY <1>0, <1>1
<1>4. CASE j < m
  <2>1. PICK n \in 0 .. 8 : m - j = n + 1
    BY <1>0, <1>4
  <2>2. PICK g \in Nat : g = Pow2[n]
    BY PowerType
  <2>3. n + 1 \in 0 .. 8 /\ j \in 0 .. 8 /\ m = j + (n + 1)
    BY <1>0, <1>4, <2>1
  <2>4. Pow2[n + 1] = 2 * g
    BY <2>2, <2>3, PowerOfSum, Powers
  <2>5. c = d * (2 * g)
    <3>1. Pow2[m] = Pow2[j] * Pow2[n + 1]
      BY <1>0, <2>3, PowerOfSum, Zenon
    <3> QED BY <1>1, <1>2, <2>4, <3>1, Zenon
  <2>6. PICK u \in Nat, v \in 0 .. (d - 1) : l = u * d + v /\ u = l \div d
    BY <1>3, DivOf
  <2>7. PICK w \in Nat : w = 2 * (q * g) + u
    <3>1. q * g \in Nat
      BY <1>3
    <3> QED BY <3>1
  <2>8. z = w * d + v
    <3>1. q * (d * (2 * g)) = (2 * (q * g)) * d
      BY <1>3
    <3>2. PICK h \in Nat : h = 2 * (q * g)
      BY <1>3
    <3>3. (h + u) * d = h * d + u * d
      OBVIOUS
    <3>4. z = h * d + l
      BY <1>3, <2>5, <3>1, <3>2
    <3>5. z = (h * d + u * d) + v
      <4>1. PICK x \in Nat, y \in Nat : x = h * d /\ y = u * d
        <5>1. h * d \in Nat /\ u * d \in Nat
          OBVIOUS
        <5> QED BY <5>1
      <4>2. z = x + l /\ l = y + v
        BY <2>6, <3>4, <4>1
      <4> QED BY <4>1, <4>2
    <3> QED BY <2>7, <3>2, <3>3, <3>5
  <2>9. z \div d = w
    BY <2>8, DivSum
  <2>10. w % 2 = u % 2
    <3>1. PICK h \in Nat : h = q * g
      BY <1>3
    <3> QED BY <2>7, <3>1
  <2>11. Bit(z, j) = Bit(l, j)
    BY <1>2, <2>6, <2>9, <2>10 DEF Bit
  <2> QED BY <1>4, <2>11
<1>5. CASE j >= m
  <2>1. PICK n \in 0 .. 8 : n = j - m
    BY <1>0, <1>5
  <2>2. PICK e \in Nat \ {0} : e = Pow2[n]
    BY PowerType
  <2>3. d = c * e
    <3>1. j \in 0 .. 8 /\ j = m + n
      BY <1>0, <1>5, <2>1
    <3>2. Pow2[j] = Pow2[m] * Pow2[n]
      BY <1>0, <3>1, PowerOfSum, Zenon
    <3> QED BY <1>1, <1>2, <2>2, <3>2, Zenon
  <2>4. z \div d = q \div e
    <3>1. (q * c + l) \div (c * e) = q \div e
      BY <1>3, HighPart, Zenon
    <3> QED BY <1>3, <2>3, <3>1, Zenon
  <2>5. Bit(z, j) = Bit(q, n)
    BY <1>2, <2>2, <2>4 DEF Bit
  <2>6. ~(j < m)
    BY <1>0, <1>5
  <2> QED BY <2>1, <2>5, <2>6, Zenon
<1>6. j < m \/ j >= m
  BY <1>0
<1> QED BY <1>4, <1>5, <1>6

(* A byte is its bits.                                                     *)
LEMMA BitsDetermine ==
  ASSUME NEW a \in Bytes, NEW b \in Bytes, \A j \in 0 .. 7 : Bit(a, j) = Bit(b, j)
  PROVE  a = b
<1>1. ASSUME NEW z \in Bytes, NEW j \in 0 .. 7
      PROVE  z \div Pow2[j] = 2 * (z \div Pow2[j + 1]) + Bit(z, j)
  <2>1. PICK d \in Nat \ {0} : d = Pow2[j]
    <3>1. j \in 0 .. 8
      OBVIOUS
    <3> QED BY <3>1, PowerType
  <2>2. Pow2[j + 1] = d * 2
    <3>1. j + 1 \in 0 .. 8 /\ j \in 0 .. 8 /\ 1 \in 0 .. 8
      OBVIOUS
    <3>2. Pow2[j + 1] = Pow2[j] * Pow2[1]
      BY <3>1, PowerOfSum, Zenon
    <3> QED BY <2>1, <3>2, Powers
  <2>3. z \in Nat
    BY DEF Bytes
  <2>4. PICK u \in Nat, v \in 0 .. (d - 1) : z = u * d + v /\ u = z \div d
    BY <2>3, DivOf
  <2>5. z \div (d * 2) = u \div 2
    <3>1. 2 \in Nat \ {0}
      OBVIOUS
    <3>2. (u * d + v) \div (d * 2) = u \div 2
      BY <3>1, HighPart, Zenon
    <3> QED BY <2>4, <3>2, Zenon
  <2>6. u = 2 * (u \div 2) + (u % 2)
    OBVIOUS
  <2> QED BY <2>1, <2>2, <2>4, <2>5, <2>6 DEF Bit
<1>2. \A z \in Bytes : z \div Pow2[8] = 0 /\ z \div Pow2[0] = z
  BY Powers DEF Bytes
<1>3. ASSUME NEW j \in 0 .. 7, NEW n, n = j + 1, a \div Pow2[n] = b \div Pow2[n]
      PROVE  a \div Pow2[j] = b \div Pow2[j]
  BY <1>1, <1>3
<1> DEFINE Same(j) == a \div Pow2[j] = b \div Pow2[j]
<1>4. \A j \in 0 .. 7 : Same(j + 1) => Same(j)
  BY <1>3
<1>5. Same(8)
  BY <1>2
<1> HIDE DEF Same
<1>6. Same(0)
  <2>1. /\ (Same(1) => Same(0)) /\ (Same(2) => Same(1)) /\ (Same(3) => Same(2))
        /\ (Same(4) => Same(3)) /\ (Same(5) => Same(4)) /\ (Same(6) => Same(5))
        /\ (Same(7) => Same(6)) /\ (Same(8) => Same(7))
    BY <1>4
  <2> QED BY <1>5, <2>1
<1> QED BY <1>2, <1>6 DEF Same

(* A number of n bits has no others.                                       *)
LEMMA NoHighBits ==
  ASSUME NEW n \in 0 .. 8, NEW z \in 0 .. (Pow2[n] - 1), NEW j \in 0 .. 7, j >= n
  PROVE  Bit(z, j) = 0
<1>1. Pow2[n] \in Nat \ {0}
  BY PowerType
<1>2. Split(z, n, 0, z)
  BY <1>1 DEF Split
<1>3. Bit(z, j) = Bit(0, j - n)
  BY <1>2, BitsOfSum
<1>4. \A i1 \in 0 .. 8 : Bit(0, i1) = 0
  BY PowerType DEF Bit
<1> QED BY <1>3, <1>4

(* The three parts of a byte have 8 bits together.                         *)
LEMMA PowersOfByte ==
  ASSUME NEW off \in 0 .. 8, NEW n \in 0 .. 8, NEW m \in 0 .. 8, m = 8 - off - n
  PROVE  (Pow2[m] * Pow2[n]) * Pow2[off] = 256
<1>1. PICK g \in 0 .. 8 : g = m + n
  OBVIOUS
<1>2. Pow2[g] = Pow2[m] * Pow2[n]
  BY <1>1, PowerOfSum, Zenon
<1>3. 8 = g + off /\ 8 \in 0 .. 8
  BY <1>1
<1>4. Pow2[8] = Pow2[g] * Pow2[off]
  BY <1>3, PowerOfSum, Zenon
<1> QED BY <1>2, <1>4, Powers

(* A byte in three parts, the field from bit off on in the middle.         *)
LEMMA Parts3 ==
  ASSUME NEW off \in 0 .. 7, NEW n \in 1 .. 8, off + n <= 8, NEW b \in Bytes
  PROVE  LET f == Field(b, off, n)
         IN  /\ f \in 0 .. (Pow2[n] - 1)
             /\ \E q, r, l : /\ Split(b, off, q, l) /\ Split(q, n, r, f)
                             /\ r < Pow2[8 - off - n]
<1>1. PICK c \in Nat \ {0} : c = Pow2[off]
  BY PowerType
<1>2. PICK d \in Nat \ {0} : d = Pow2[n]
  BY PowerType
<1>3. PICK m \in 0 .. 8 : m = 8 - off - n
  OBVIOUS
<1>4. PICK e \in Nat \ {0} : e = Pow2[m]
  BY PowerType
<1>5. b \in Nat /\ b < 256
  BY DEF Bytes
<1>6. PICK q \in Nat, l \in 0 .. (c - 1) : b = q * c + l /\ q = b \div c
  BY <1>5, DivOf
<1>7. PICK r \in Nat, f \in 0 .. (d - 1) : q = r * d + f /\ f = q % d
  BY DivOf
<1>8. f = Field(b, off, n)
  BY <1>1, <1>2, <1>6, <1>7 DEF Field
<1>9. (e * d) * c = 256
  <2>1. off \in 0 .. 8 /\ n \in 0 .. 8
    OBVIOUS
  <2>2. (Pow2[m] * Pow2[n]) * Pow2[off] = 256
    BY <1>3, <2>1, PowersOfByte
  <2> QED BY <1>1, <1>2, <1>4, <2>2, Zenon
<1>10. r <= e - 1
  <2>0. SUFFICES ASSUME r >= e PROVE FALSE
    OBVIOUS
  <2>1. r * d >= e * d
    BY <2>0
  <2>2. q >= e * d /\ e * d \in Nat
    BY <1>7, <2>1
  <2>3. q * c >= (e * d) * c
    BY <2>2
  <2> QED BY <1>5, <1>6, <1>9, <2>3
<1>11. Split(b, off, q, l) /\ Split(q, n, r, f) /\ r < Pow2[8 - off - n]
  <2>1. Split(b, off, q, l)
    BY <1>1, <1>6 DEF Split
  <2>2. Split(q, n, r, f)
    BY <1>2, <1>7 DEF Split
  <2>3. r < e
    BY <1>10
  <2> QED BY <1>3, <1>4, <2>1, <2>2, <2>3, Zenon
<1>12. f \in 0 .. (Pow2[n] - 1)
  BY <1>2
<1> QED BY <1>8, <1>11, <1>12, Zenon

(* The bits of a field, and of a byte with a field replaced.               *)
LEMMA FieldBits ==
  ASSUME NEW off \in 0 .. 7, NEW n \in 1 .. 8, off + n <= 8, NEW b \in Bytes
  PROVE  /\ Field(b, off, n) \in 0 .. (Pow2[n] - 1)
         /\ \A j \in 0 .. (n - 1) : Bit(Field(b, off, n), j) = Bit(b, off + j)
<1> DEFINE f == Field(b, off, n)
<1>1. PICK q, r, l : /\ f \in 0 .. (Pow2[n] - 1)
                     /\ Split(b, off, q, l) /\ Split(q, n, r, f)
  BY Parts3, Zenon
<1> HIDE DEF f
<1>2. ASSUME NEW j \in 0 .. (n - 1) PROVE Bit(f, j) = Bit(b, off + j)
  <2>1. j \in 0 .. 7 /\ n \in 0 .. 8 /\ off \in 0 .. 8 /\ j < n
    OBVIOUS
  <2>2. PICK h \in 0 .. 7 : h = off + j
    OBVIOUS
  <2>3. Bit(q, j) = Bit(f, j)
    BY <1>1, <2>1, BitsOfSum
  <2>4. Bit(b, h) = IF h < off THEN Bit(l, h) ELSE Bit(q, h - off)
    BY <1>1, <2>1, BitsOfSum
  <2>5. ~(h < off) /\ h - off = j
    BY <2>2
  <2> QED BY <2>2, <2>3, <2>4, <2>5
<1> QED BY <1>1, <1>2 DEF f

(* To write a field sets its bits and no other of the byte.                *)
LEMMA WithFieldBits ==
  ASSUME NEW off \in 0 .. 7, NEW n \in 1 .. 8, off + n <= 8, NEW b \in Bytes,
         NEW p \in 0 .. (Pow2[n] - 1)
  PROVE  /\ WithField(b, off, n, p) \in Bytes
         /\ \A j \in 0 .. 7 : Bit(WithField(b, off, n, p), j) =
              IF off <= j /\ j < off + n THEN Bit(p, j - off) ELSE Bit(b, j)
<1> DEFINE f == Field(b, off, n)
<1>1. PICK q, r, l : /\ f \in 0 .. (Pow2[n] - 1)
                     /\ Split(b, off, q, l) /\ Split(q, n, r, f)
                     /\ r < Pow2[8 - off - n]
  BY Parts3, Zenon
<1>2. WithField(b, off, n, p) = b + (p - f) * Pow2[off]
  BY DEF WithField
<1> HIDE DEF f
<1>3. PICK c \in Nat \ {0}, d \in Nat \ {0} : c = Pow2[off] /\ d = Pow2[n]
  <2>1. off \in 0 .. 8 /\ n \in 0 .. 8
    OBVIOUS
  <2> QED BY <2>1, PowerType
<1>4. PICK m \in 0 .. 8 : m = 8 - off - n
  OBVIOUS
<1>5. PICK e \in Nat \ {0} : e = Pow2[m]
  BY PowerType
<1>6. /\ l \in 0 .. (c - 1) /\ r \in 0 .. (e - 1) /\ f \in 0 .. (d - 1) /\ p \in 0 .. (d - 1)
      /\ q \in Nat /\ b = q * c + l /\ q = r * d + f
  BY <1>1, <1>3, <1>4, <1>5 DEF Split
<1>7. PICK s \in Nat : s = r * d + p
  <2>1. r * d \in Nat
    BY <1>6
  <2> QED BY <1>6, <2>1
<1>8. PICK new \in Nat : new = s * c + l
  <2>1. s * c \in Nat
    OBVIOUS
  <2> QED BY <1>6, <2>1
<1>9. WithField(b, off, n, p) = new
  <2>1. s = q + (p - f)
    <3>1. r * d \in Nat
      BY <1>6
    <3> QED BY <1>6, <1>7, <3>1
  <2>2. s * c = q * c + (p - f) * c
    <3>1. PICK g \in Int : g = p - f
      BY <1>6
    <3>2. (q + g) * c = q * c + g * c
      BY <1>6
    <3> QED BY <2>1, <3>1, <3>2
  <2>3. q * c \in Nat /\ (p - f) * c \in Int /\ l \in Nat
    BY <1>6
  <2> QED BY <1>2, <1>3, <1>6, <1>8, <2>2, <2>3
<1>10. new \in Bytes
  <2>1. (e * d) * c = 256
    <3>1. off \in 0 .. 8 /\ n \in 0 .. 8
      OBVIOUS
    <3>2. (Pow2[m] * Pow2[n]) * Pow2[off] = 256
      BY <1>4, <3>1, PowersOfByte
    <3> QED BY <1>3, <1>5, <3>2, Zenon
  <2>2. r * d <= (e - 1) * d /\ (e - 1) * d = e * d - d /\ e * d \in Nat /\ r * d \in Nat
    BY <1>6
  <2>3. s <= e * d - 1
    BY <1>6, <1>7, <2>2
  <2>4. s * c <= (e * d - 1) * c /\ (e * d - 1) * c = (e * d) * c - c
    BY <2>2, <2>3
  <2>5. s * c \in Nat
    OBVIOUS
  <2> QED BY <1>6, <1>8, <2>1, <2>4, <2>5 DEF Bytes
<1>11. ASSUME NEW j \in 0 .. 7
       PROVE  Bit(new, j) = IF off <= j /\ j < off + n THEN Bit(p, j - off) ELSE Bit(b, j)
  <2>0. Split(new, off, s, l) /\ Split(s, n, r, p)
    BY <1>1, <1>3, <1>6, <1>7, <1>8 DEF Split
  <2>1. Bit(new, j) = IF j < off THEN Bit(l, j) ELSE Bit(s, j - off)
    BY <2>0, BitsOfSum
  <2>2. Bit(b, j) = IF j < off THEN Bit(l, j) ELSE Bit(q, j - off)
    BY <1>1, BitsOfSum
  <2>3. CASE j < off
    BY <2>1, <2>2, <2>3
  <2>4. CASE off <= j
    <3>1. PICK i1 \in 0 .. 7 : i1 = j - off
      BY <2>4
    <3>2. Bit(s, i1) = IF i1 < n THEN Bit(p, i1) ELSE Bit(r, i1 - n)
      BY <2>0, BitsOfSum
    <3>3. Bit(q, i1) = IF i1 < n THEN Bit(f, i1) ELSE Bit(r, i1 - n)
      BY <1>1, BitsOfSum
    <3> QED BY <2>1, <2>2, <2>4, <3>1, <3>2, <3>3
  <2> QED BY <2>3, <2>4
<1> QED BY <1>9, <1>10, <1>11

-----------------------------------------------------------------------------
(* Bits of a vector of bytes                                               *)

(* The low bits of a number                                                *)
LEMMA LowBits ==
  ASSUME NEW p, NEW m, NEW h, NEW l, Split(p, m, h, l), NEW j \in 0 .. 7, j < m
  PROVE  Bit(p, j) = Bit(l, j)
<1>1. Bit(p, j) = IF j < m THEN Bit(l, j) ELSE Bit(h, j - m)
  BY BitsOfSum
<1> QED BY <1>1, Zenon

(* and the high ones                                                       *)
LEMMA HighBits ==
  ASSUME NEW p, NEW m \in 0 .. 8, NEW h, NEW l, Split(p, m, h, l), NEW j \in 0 .. 7,
         NEW r \in 0 .. 7, j = m + r
  PROVE  Bit(p, j) = Bit(h, r)
<1>1. Bit(p, j) = IF j < m THEN Bit(l, j) ELSE Bit(h, j - m)
  BY BitsOfSum
<1>2. ~(j < m) /\ j - m = r
  OBVIOUS
<1> QED BY <1>1, <1>2, Zenon

(* Bit g of a vector of bytes, and how many there are                      *)
BitAt(x, g) == Bit(x[g \div 8 + 1], g % 8)
BitsNeeded(dim, k) == 8 * BytesNeeded(dim, k)

(* Phase n takes the k bits from n * k on, which the vector has.           *)
LEMMA SlotInBytes ==
  ASSUME NEW k \in 2 .. 8, NEW dim \in Nat, NEW n \in Slots(dim, k)
  PROVE  /\ n \in Nat /\ BytesNeeded(dim, k) \in Nat
         /\ n * k \in Nat /\ n * k + k <= BitsNeeded(dim, k)
<1>1. CASE k = 2  BY <1>1 DEF Slots, BytesNeeded, BitsNeeded
<1>2. CASE k = 3  BY <1>2 DEF Slots, BytesNeeded, BitsNeeded
<1>3. CASE k = 4  BY <1>3 DEF Slots, BytesNeeded, BitsNeeded
<1>4. CASE k = 5  BY <1>4 DEF Slots, BytesNeeded, BitsNeeded
<1>5. CASE k = 6  BY <1>5 DEF Slots, BytesNeeded, BitsNeeded
<1>6. CASE k = 7  BY <1>6 DEF Slots, BytesNeeded, BitsNeeded
<1>7. CASE k = 8  BY <1>7 DEF Slots, BytesNeeded, BitsNeeded
<1> QED BY <1>1, <1>2, <1>3, <1>4, <1>5, <1>6, <1>7

(* The bytes have room for dim phases.                                     *)
LEMMA DimInSlots ==
  ASSUME NEW k \in 1 .. 8, NEW dim \in Nat
  PROVE  0 .. (dim - 1) \subseteq Slots(dim, k) /\ Slots(dim, k) \subseteq Nat
<1>0. CASE k = 1  BY <1>0 DEF Slots
<1>1. CASE k = 2  BY <1>1 DEF Slots, BytesNeeded
<1>2. CASE k = 3  BY <1>2 DEF Slots, BytesNeeded
<1>3. CASE k = 4  BY <1>3 DEF Slots, BytesNeeded
<1>4. CASE k = 5  BY <1>4 DEF Slots, BytesNeeded
<1>5. CASE k = 6  BY <1>5 DEF Slots, BytesNeeded
<1>6. CASE k = 7  BY <1>6 DEF Slots, BytesNeeded
<1>7. CASE k = 8  BY <1>7 DEF Slots, BytesNeeded
<1> QED BY <1>0, <1>1, <1>2, <1>3, <1>4, <1>5, <1>6, <1>7

(* Two phases have no bit in common.                                       *)
LEMMA PlacesDiffer ==
  ASSUME NEW k \in 2 .. 8, NEW m \in Nat, NEW n \in Nat, m < n
  PROVE  m * k \in Nat /\ m * k + k <= n * k
<1>1. CASE k = 2  BY <1>1
<1>2. CASE k = 3  BY <1>2
<1>3. CASE k = 4  BY <1>3
<1>4. CASE k = 5  BY <1>4
<1>5. CASE k = 6  BY <1>5
<1>6. CASE k = 7  BY <1>6
<1>7. CASE k = 8  BY <1>7
<1> QED BY <1>1, <1>2, <1>3, <1>4, <1>5, <1>6, <1>7

(* Every bit below dim * k belongs to one of the dim phases.               *)
LEMMA SlotOfBit ==
  ASSUME NEW k \in 2 .. 8, NEW dim \in Nat, NEW g \in Nat, g < dim * k
  PROVE  \E s \in 0 .. (dim - 1), j \in 0 .. (k - 1) : g = s * k + j
<1>1. PICK s \in Nat, j \in 0 .. (k - 1) : g = s * k + j
  <2>1. k \in Nat \ {0}
    OBVIOUS
  <2> QED BY <2>1, DivOf
<1>2. s < dim
  <2> SUFFICES ASSUME dim <= s PROVE FALSE
    OBVIOUS
  <2>1. dim = s \/ dim * k + k <= s * k
    BY PlacesDiffer
  <2>2. dim * k \in Nat /\ s * k \in Nat
    OBVIOUS
  <2> QED BY <1>1, <2>1, <2>2
<1> QED BY <1>1, <1>2

(* The byte and the place in it of a bit                                   *)
LEMMA Remainder ==
  ASSUME NEW g \in Nat, NEW c \in Nat, NEW r \in 0 .. 7, g = 8 * c + r
  PROVE  g \div 8 = c /\ g % 8 = r
OBVIOUS

(* What is read of phase n is the number whose bits are at its place.      *)
LEMMA ReadsBits ==
  ASSUME NEW k \in 2 .. 8, NEW dim \in Nat, NEW n \in Slots(dim, k),
         NEW x \in [1 .. BytesNeeded(dim, k) -> Bytes]
  PROVE  /\ UnpackPhase(x, n, k) \in 0 .. (Pow2[k] - 1)
         /\ \A j \in 0 .. (k - 1) : Bit(UnpackPhase(x, n, k), j) = BitAt(x, n * k + j)
<1>1. PICK bytes \in Nat : bytes = BytesNeeded(dim, k)
  BY SlotInBytes
<1>2. PICK o \in Nat : o = n * k /\ o + k <= 8 * bytes
  BY <1>1, SlotInBytes DEF BitsNeeded
<1>0. o + k <= 8 * bytes
  BY <1>2
<1>3. PICK q \in Nat, off \in 0 .. 7 : q = o \div 8 /\ off = o % 8 /\ o = 8 * q + off
  OBVIOUS
<1>8. o = 8 * q + off
  BY <1>3
<1>4. ByteOf(n, k) = q + 1 /\ BitOf(n, k) = off
  BY <1>2, <1>3 DEF ByteOf, BitOf
<1>5. q + 1 \in 1 .. bytes /\ x[q + 1] \in Bytes /\ x \in [1 .. bytes -> Bytes]
  <2>1. q + 1 \in 1 .. bytes
    BY <1>0, <1>8
  <2> QED BY <1>1, <2>1
<1> DEFINE v == UnpackPhase(x, n, k)
           Reads == /\ v \in 0 .. (Pow2[k] - 1)
                    /\ \A j \in 0 .. (k - 1) : Bit(v, j) = BitAt(x, o + j)
<1>6. ASSUME off + k <= 8 PROVE Reads
  <2>1. v = Field(x[q + 1], off, k)
    BY <1>4, <1>6 DEF UnpackPhase
  <2>2. /\ v \in 0 .. (Pow2[k] - 1)
        /\ \A j \in 0 .. (k - 1) : Bit(v, j) = Bit(x[q + 1], off + j)
    <3>1. k \in 1 .. 8
      OBVIOUS
    <3> QED BY <1>5, <1>6, <2>1, <3>1, FieldBits
  <2> HIDE DEF v
  <2>3. ASSUME NEW j \in 0 .. (k - 1) PROVE Bit(v, j) = BitAt(x, o + j)
    <3>1. (o + j) \div 8 = q /\ (o + j) % 8 = off + j
      BY <1>3, <1>6, Remainder
    <3> QED BY <2>2, <3>1 DEF BitAt
  <2> QED BY <2>2, <2>3
<1>7. ASSUME off + k > 8 PROVE Reads
  <2>1. PICK low \in 1 .. 7, high \in 1 .. 7 : low = 8 - off /\ high = k - low
    BY <1>7
  <2>2. q + 2 \in 1 .. bytes /\ x[q + 2] \in Bytes
    <3>1. q + 2 \in 1 .. bytes
      BY <1>0, <1>7, <1>8
    <3> QED BY <1>5, <3>1
  <2> DEFINE l == Field(x[q + 1], off, low)
             h == Field(x[q + 2], 0, high)
  <2>3. v = l + h * Pow2[low]
    <3>1. ~(off + k <= 8) /\ (q + 1) + 1 = q + 2
      BY <1>7
    <3> QED BY <1>4, <2>1, <3>1 DEF UnpackPhase
  <2>4. /\ l \in 0 .. (Pow2[low] - 1)
        /\ \A j \in 0 .. (low - 1) : Bit(l, j) = Bit(x[q + 1], off + j)
    <3>1. off + low <= 8 /\ low \in 1 .. 8
      BY <2>1
    <3> QED BY <1>5, <3>1, FieldBits
  <2>5. /\ h \in 0 .. (Pow2[high] - 1)
        /\ \A j \in 0 .. (high - 1) : Bit(h, j) = Bit(x[q + 2], 0 + j)
    <3>1. 0 + high <= 8 /\ high \in 1 .. 8 /\ 0 \in 0 .. 7
      BY <2>1
    <3> QED BY <2>2, <3>1, FieldBits
  <2> HIDE DEF l, h, v
  <2>6. PICK c \in Nat \ {0}, e \in Nat \ {0} : c = Pow2[low] /\ e = Pow2[high]
    <3>1. low \in 0 .. 8 /\ high \in 0 .. 8
      OBVIOUS
    <3> QED BY <3>1, PowerType
  <2>7. Pow2[k] = e * c
    <3>1. low \in 0 .. 8 /\ high \in 0 .. 8 /\ k \in 0 .. 8 /\ k = high + low
      BY <2>1
    <3>2. Pow2[k] = Pow2[high] * Pow2[low]
      BY <3>1, PowerOfSum, Zenon
    <3> QED BY <2>6, <3>2
  <2>8. v = h * c + l /\ l \in 0 .. (c - 1) /\ h \in 0 .. (e - 1)
    <3>1. h * c \in Nat /\ l \in Nat
      BY <2>4, <2>5, <2>6
    <3> QED BY <2>3, <2>4, <2>5, <2>6, <3>1
  <2>9. v \in 0 .. (Pow2[k] - 1)
    <3>1. h * c <= (e - 1) * c /\ (e - 1) * c = e * c - c /\ h * c \in Nat /\ e * c \in Nat
      BY <2>8
    <3> QED BY <2>7, <2>8, <3>1
  <2>10. Split(v, low, h, l)
    BY <2>6, <2>8 DEF Split
  <2>11. ASSUME NEW j \in 0 .. (k - 1) PROVE Bit(v, j) = BitAt(x, o + j)
    <3>0. j \in 0 .. 7
      OBVIOUS
    <3>1. Bit(v, j) = IF j < low THEN Bit(l, j) ELSE Bit(h, j - low)
      BY <2>10, <3>0, BitsOfSum
    <3>2. CASE j < low
      <4>1. (o + j) \div 8 = q /\ (o + j) % 8 = off + j
        BY <1>3, <2>1, <3>2, Remainder
      <4>2. Bit(l, j) = Bit(x[q + 1], off + j)
        BY <2>4, <3>2
      <4> QED BY <3>1, <3>2, <4>1, <4>2 DEF BitAt
    <3>3. CASE j >= low
      <4>1. (o + j) \div 8 = q + 1 /\ (o + j) % 8 = off + j - 8
        BY <1>3, <2>1, <3>3, Remainder
      <4>2. PICK i1 \in 0 .. (high - 1) : i1 = j - low /\ i1 = off + j - 8 /\ 0 + i1 = i1
        BY <2>1, <3>3
      <4>3. Bit(h, i1) = Bit(x[q + 2], i1)
        BY <2>5, <4>2
      <4>4. BitAt(x, o + j) = Bit(x[q + 2], i1)
        <5>1. (q + 1) + 1 = q + 2
          OBVIOUS
        <5> QED BY <4>1, <4>2, <5>1 DEF BitAt
      <4> QED BY <2>1, <3>1, <3>3, <4>2, <4>3, <4>4
    <3> QED BY <2>1, <3>2, <3>3
  <2> QED BY <2>9, <2>11
<1>9. Reads
  <2> HIDE DEF Reads
  <2> QED BY <1>6, <1>7
<1> HIDE DEF v
<1>10. \A j : n * k + j = o + j
  BY <1>2
<1> QED BY <1>9, <1>10, Zenon DEF v

(* To write phase n sets the bits at its place and no other.               *)
LEMMA WritesBits ==
  ASSUME NEW k \in 2 .. 8, NEW dim \in Nat, NEW n \in Slots(dim, k),
         NEW x \in [1 .. BytesNeeded(dim, k) -> Bytes], NEW p \in 0 .. (Pow2[k] - 1)
  PROVE  /\ PackPhase(x, n, p, k) \in [1 .. BytesNeeded(dim, k) -> Bytes]
         /\ \A g \in 0 .. (BitsNeeded(dim, k) - 1) :
              BitAt(PackPhase(x, n, p, k), g) =
                IF n * k <= g /\ g < n * k + k THEN Bit(p, g - n * k) ELSE BitAt(x, g)
<1>1. PICK bytes \in Nat : bytes = BytesNeeded(dim, k)
  BY SlotInBytes
<1>2. PICK o \in Nat : o = n * k /\ o + k <= 8 * bytes
  BY <1>1, SlotInBytes DEF BitsNeeded
<1>0. o + k <= 8 * bytes
  BY <1>2
<1>3. PICK q \in Nat, off \in 0 .. 7 : q = o \div 8 /\ off = o % 8 /\ o = 8 * q + off
  OBVIOUS
<1>8. o = 8 * q + off
  BY <1>3
<1>4. ByteOf(n, k) = q + 1 /\ BitOf(n, k) = off
  BY <1>2, <1>3 DEF ByteOf, BitOf
<1>5. q + 1 \in 1 .. bytes /\ x[q + 1] \in Bytes /\ x \in [1 .. bytes -> Bytes]
  <2>1. q + 1 \in 1 .. bytes
    BY <1>0, <1>8
  <2> QED BY <1>1, <2>1
<1> DEFINE y == PackPhase(x, n, p, k)
<1>6. CASE off + k <= 8
  <2> DEFINE b == x[q + 1]
             new == WithField(b, off, k, p)
  <2>1. y = [x EXCEPT ![q + 1] = new]
    BY <1>4, <1>6 DEF PackPhase
  <2>2. /\ new \in Bytes
        /\ \A j \in 0 .. 7 :
             Bit(new, j) = IF off <= j /\ j < off + k THEN Bit(p, j - off) ELSE Bit(b, j)
    <3>1. k \in 1 .. 8
      OBVIOUS
    <3> QED BY <1>5, <1>6, <3>1, WithFieldBits
  <2> HIDE DEF new, y
  <2>3. y \in [1 .. bytes -> Bytes]
    BY <1>5, <2>1, <2>2
  <2>4. ASSUME NEW g \in 0 .. (8 * bytes - 1)
        PROVE  BitAt(y, g) = IF o <= g /\ g < o + k THEN Bit(p, g - o) ELSE BitAt(x, g)
    <3>1. PICK c \in 0 .. (bytes - 1), j \in 0 .. 7 : c = g \div 8 /\ j = g % 8 /\ g = 8 * c + j
      OBVIOUS
    <3>2. BitAt(y, g) = Bit(y[c + 1], j) /\ BitAt(x, g) = Bit(x[c + 1], j)
      BY <3>1 DEF BitAt
    <3>3. CASE c # q
      <4>1. y[c + 1] = x[c + 1]
        BY <1>5, <2>1, <3>1, <3>3
      <4>2. ~(o <= g /\ g < o + k)
        BY <1>3, <1>6, <3>1, <3>3
      <4> QED BY <3>2, <4>1, <4>2
    <3>4. CASE c = q
      <4>1. y[c + 1] = new
        BY <1>5, <2>1, <3>4
      <4>2. (o <= g /\ g < o + k) <=> (off <= j /\ j < off + k)
        BY <1>3, <1>6, <3>1, <3>4
      <4>3. g - o = j - off
        BY <1>3, <3>1, <3>4
      <4> QED BY <2>2, <3>2, <3>4, <4>1, <4>2, <4>3
    <3> QED BY <3>3, <3>4
  <2> QED BY <1>1, <1>2, <2>3, <2>4 DEF BitsNeeded, y
<1>7. CASE off + k > 8
  <2>1. PICK low \in 1 .. 7, high \in 1 .. 7 : low = 8 - off /\ high = k - low
    BY <1>7
  <2>2. q + 2 \in 1 .. bytes /\ x[q + 2] \in Bytes
    <3>1. q + 2 \in 1 .. bytes
      BY <1>0, <1>7, <1>8
    <3> QED BY <1>5, <3>1
  <2>3. PICK c \in Nat \ {0}, e \in Nat \ {0} : c = Pow2[low] /\ e = Pow2[high]
    <3>1. low \in 0 .. 8 /\ high \in 0 .. 8
      OBVIOUS
    <3> QED BY <3>1, PowerType
  <2>4. Pow2[k] = e * c
    <3>1. low \in 0 .. 8 /\ high \in 0 .. 8 /\ k \in 0 .. 8 /\ k = high + low
      BY <2>1
    <3>2. Pow2[k] = Pow2[high] * Pow2[low]
      BY <3>1, PowerOfSum, Zenon
    <3> QED BY <2>3, <3>2
  <2>5. p \in Nat /\ p < e * c
    <3>1. e * c \in Nat
      OBVIOUS
    <3> QED BY <2>4, <3>1
  <2>6. PICK h \in Nat, l \in 0 .. (c - 1) :
          h = p \div c /\ l = p % c /\ p = h * c + l
    BY <2>5, DivOf
  <2>7. h \in 0 .. (e - 1)
    <3> SUFFICES ASSUME h >= e PROVE FALSE
      OBVIOUS
    <3>1. h * c >= e * c /\ h * c \in Nat /\ e * c \in Nat
      OBVIOUS
    <3> QED BY <2>5, <2>6, <3>1
  <2> DEFINE b1 == x[q + 1]
             b2 == x[q + 2]
             new1 == WithField(b1, off, low, l)
             new2 == WithField(b2, 0, high, h)
  <2>8. y = [x EXCEPT ![q + 1] = new1, ![q + 2] = new2]
    <3>1. ~(off + k <= 8) /\ (q + 1) + 1 = q + 2 /\ q + 1 # q + 2
      BY <1>7
    <3>2. y = [x EXCEPT ![q + 1] = WithField(@, off, low, p % Pow2[low]),
                        ![q + 2] = WithField(@, 0, high, p \div Pow2[low])]
      BY <1>4, <2>1, <3>1 DEF PackPhase
    <3> QED BY <1>5, <2>2, <2>3, <2>6, <3>1, <3>2
  <2>9. /\ new1 \in Bytes
        /\ \A j \in 0 .. 7 :
             Bit(new1, j) = IF off <= j /\ j < off + low THEN Bit(l, j - off) ELSE Bit(b1, j)
    <3>1. off + low <= 8 /\ low \in 1 .. 8 /\ l \in 0 .. (Pow2[low] - 1)
      BY <2>1, <2>3
    <3> QED BY <1>5, <3>1, WithFieldBits
  <2>10. /\ new2 \in Bytes
         /\ \A j \in 0 .. 7 :
              Bit(new2, j) = IF 0 <= j /\ j < 0 + high THEN Bit(h, j - 0) ELSE Bit(b2, j)
    <3>1. 0 + high <= 8 /\ high \in 1 .. 8 /\ 0 \in 0 .. 7 /\ h \in 0 .. (Pow2[high] - 1)
      BY <2>1, <2>3, <2>7
    <3> QED BY <2>2, <3>1, WithFieldBits
  <2> HIDE DEF new1, new2, y
  <2>11. y \in [1 .. bytes -> Bytes]
    BY <1>5, <2>2, <2>8, <2>9, <2>10
  <2>12. Split(p, low, h, l)
    BY <2>3, <2>6 DEF Split
  <2>13. ASSUME NEW g \in 0 .. (8 * bytes - 1)
         PROVE  BitAt(y, g) = IF o <= g /\ g < o + k THEN Bit(p, g - o) ELSE BitAt(x, g)
    <3>1. PICK a \in 0 .. (bytes - 1), j \in 0 .. 7 : a = g \div 8 /\ j = g % 8 /\ g = 8 * a + j
      OBVIOUS
    <3>2. BitAt(y, g) = Bit(y[a + 1], j) /\ BitAt(x, g) = Bit(x[a + 1], j)
      BY <3>1 DEF BitAt
    <3>3. CASE a # q /\ a # q + 1
      <4>1. a + 1 \in 1 .. bytes /\ a + 1 # q + 1 /\ a + 1 # q + 2
        BY <3>3
      <4>3. y[a + 1] = x[a + 1]
        BY <1>5, <2>8, <4>1
      <4>2. ~(o <= g /\ g < o + k)
        BY <1>3, <3>1, <3>3
      <4> QED BY <3>2, <4>2, <4>3
    <3>4. CASE a = q
      <4>1. y[a + 1] = new1 /\ x[a + 1] = b1
        <5>1. a + 1 = q + 1 /\ q + 1 # q + 2
          BY <3>4
        <5> QED BY <1>5, <2>2, <2>8, <5>1
      <4>2. CASE off <= j
        <5>1. o <= g /\ g < o + k /\ off <= j /\ j < off + low
          BY <1>3, <1>7, <2>1, <3>1, <3>4, <4>2
        <5>2. PICK i1 \in 0 .. 7 : i1 = g - o /\ i1 = j - off /\ i1 < low
          BY <1>3, <2>1, <3>1, <3>4, <4>2
        <5>3. Bit(p, i1) = Bit(l, i1)
          BY <2>12, <5>2, LowBits
        <5>4. Bit(new1, j) = Bit(l, i1)
          BY <2>9, <5>1, <5>2
        <5> QED BY <3>2, <4>1, <5>1, <5>2, <5>3, <5>4
      <4>3. CASE ~(off <= j)
        <5>1. ~(o <= g)
          BY <1>3, <3>1, <3>4, <4>3
        <5> QED BY <2>9, <3>2, <4>1, <4>3, <5>1
      <4> QED BY <4>2, <4>3
    <3>5. CASE a = q + 1
      <4>1. y[a + 1] = new2 /\ x[a + 1] = b2
        <5>1. (q + 1) + 1 = q + 2
          OBVIOUS
        <5> QED BY <1>5, <2>2, <2>8, <3>5, <5>1
      <4>2. CASE j < high
        <5>1. o <= g /\ g < o + k
          BY <1>3, <2>1, <3>1, <3>5, <4>2
        <5>2. PICK i1 \in 0 .. 7 : i1 = g - o /\ i1 - low = j /\ ~(i1 < low)
          BY <1>3, <2>1, <3>1, <3>5, <4>2
        <5>3. Bit(p, i1) = Bit(h, j)
          <6>1. low \in 0 .. 8 /\ j \in 0 .. 7 /\ i1 = low + j
            BY <5>2
          <6> QED BY <2>12, <6>1, HighBits
        <5>4. Bit(new2, j) = Bit(h, j)
          <6>1. 0 <= j /\ j < 0 + high /\ j - 0 = j
            BY <4>2
          <6> QED BY <2>10, <6>1
        <5> QED BY <3>2, <4>1, <5>1, <5>2, <5>3, <5>4
      <4>3. CASE ~(j < high)
        <5>1. ~(g < o + k) /\ ~(j < 0 + high)
          BY <1>3, <2>1, <3>1, <3>5, <4>3
        <5> QED BY <2>10, <3>2, <4>1, <5>1
      <4> QED BY <4>2, <4>3
    <3> QED BY <3>3, <3>4, <3>5
  <2> QED BY <1>1, <1>2, <2>11, <2>13 DEF BitsNeeded, y
<1> QED BY <1>6, <1>7

-----------------------------------------------------------------------------
(* A number of k bits is these bits.                                       *)
LEMMA SameNumber ==
  ASSUME NEW k \in 2 .. 8, NEW a \in 0 .. (Pow2[k] - 1), NEW b \in 0 .. (Pow2[k] - 1),
         \A j \in 0 .. (k - 1) : Bit(a, j) = Bit(b, j)
  PROVE  a = b
<1>1. k \in 0 .. 8 /\ Pow2[k] \in Nat /\ Pow2[k] <= 256
  BY PowerType
<1>2. a \in Bytes /\ b \in Bytes
  BY <1>1 DEF Bytes
<1>3. ASSUME NEW j \in 0 .. 7 PROVE Bit(a, j) = Bit(b, j)
  <2>1. CASE j < k
    <3>1. j \in 0 .. (k - 1)
      BY <2>1
    <3> QED BY <3>1
  <2>2. CASE j >= k
    <3>1. Bit(a, j) = 0 /\ Bit(b, j) = 0
      BY <1>1, <2>2, NoHighBits
    <3> QED BY <3>1
  <2> QED BY <2>1, <2>2
<1> QED BY <1>2, <1>3, BitsDetermine

(* The bits of phase s are bits of the vector.                             *)
LEMMA BitsOfSlot ==
  ASSUME NEW k \in 2 .. 8, NEW dim \in Nat, NEW s \in Slots(dim, k), NEW j \in 0 .. (k - 1)
  PROVE  s * k \in Nat /\ s * k + j \in 0 .. (BitsNeeded(dim, k) - 1)
<1>1. /\ s * k \in Nat /\ s * k + k <= BitsNeeded(dim, k)
      /\ BytesNeeded(dim, k) \in Nat
  BY SlotInBytes
<1>2. BitsNeeded(dim, k) \in Nat
  BY <1>1 DEF BitsNeeded
<1>3. PICK o \in Nat : o = s * k
  BY <1>1
<1> QED BY <1>1, <1>2, <1>3

(* The bits from phase s on are zero, also those at the end of the last    *)
(* byte that are too few for a phase.                                      *)
Blank(x, s, dim, k) ==
  k # 1 => \A g \in 0 .. (BitsNeeded(dim, k) - 1) : g >= s * k => BitAt(x, g) = 0

(* put then get: the phase written is read back, every other slot, the     *)
(* padding among them, reads as before, and the vector keeps its shape.    *)
LEMMA PutGet ==
  ASSUME NEW k \in 1 .. 8, NEW dim \in Nat, NEW x, Shaped(x, dim, k),
         NEW n \in Slots(dim, k), NEW p \in Phases(k)
  PROVE  /\ Shaped(Put(x, n, p, k), dim, k)
         /\ \A s \in Slots(dim, k) :
              Get(Put(x, n, p, k), s, k) = IF s = n THEN p ELSE Get(x, s, k)
<1>1. CASE k = 1
  BY <1>1 DEF Shaped, Put, Get, Slots, Phases, Signs
<1>2. CASE k # 1
  <2>1. k \in 2 .. 8 /\ x \in [1 .. BytesNeeded(dim, k) -> Bytes]
    BY <1>2 DEF Shaped, Bytes
  <2>2. p \in 0 .. (Pow2[k] - 1)
    BY <1>2 DEF Phases
  <2> DEFINE y == PackPhase(x, n, p, k)
  <2>3. Put(x, n, p, k) = y
    BY <1>2 DEF Put
  <2>4. \A z, s : Get(z, s, k) = UnpackPhase(z, s, k)
    BY <1>2 DEF Get
  <2>5. /\ y \in [1 .. BytesNeeded(dim, k) -> Bytes]
        /\ \A g \in 0 .. (BitsNeeded(dim, k) - 1) :
             BitAt(y, g) = IF n * k <= g /\ g < n * k + k THEN Bit(p, g - n * k) ELSE BitAt(x, g)
    BY <2>1, <2>2, WritesBits
  <2> HIDE DEF y
  <2>6. Shaped(y, dim, k)
    BY <1>2, <2>5 DEF Shaped, Bytes
  <2>7. ASSUME NEW s \in Slots(dim, k)
        PROVE  UnpackPhase(y, s, k) = IF s = n THEN p ELSE UnpackPhase(x, s, k)
    <3> DEFINE v == UnpackPhase(y, s, k)
               w == UnpackPhase(x, s, k)
    <3>1. /\ v \in 0 .. (Pow2[k] - 1)
          /\ \A j \in 0 .. (k - 1) : Bit(v, j) = BitAt(y, s * k + j)
      BY <2>1, <2>5, ReadsBits
    <3>2. /\ w \in 0 .. (Pow2[k] - 1)
          /\ \A j \in 0 .. (k - 1) : Bit(w, j) = BitAt(x, s * k + j)
      BY <2>1, ReadsBits
    <3> HIDE DEF v, w
    <3>3. PICK o \in Nat, u \in Nat : o = n * k /\ u = s * k
      BY <2>1, SlotInBytes
    <3>4. \A j \in 0 .. (k - 1) : u + j \in 0 .. (BitsNeeded(dim, k) - 1)
      BY <2>1, <3>3, BitsOfSlot
    <3>5. \A j \in 0 .. (k - 1) :
            BitAt(y, u + j) = IF o <= u + j /\ u + j < o + k
                              THEN Bit(p, (u + j) - o) ELSE BitAt(x, u + j)
      BY <2>5, <3>3, <3>4
    <3>6. CASE s = n
      <4>1. ASSUME NEW j \in 0 .. (k - 1) PROVE Bit(v, j) = Bit(p, j)
        <5>1. u = o /\ o <= u + j /\ u + j < o + k /\ (u + j) - o = j
          BY <3>3, <3>6
        <5> QED BY <3>1, <3>3, <3>5, <5>1
      <4> QED BY <2>1, <2>2, <3>1, <3>6, <4>1, SameNumber DEF v
    <3>7. CASE s # n
      <4>1. s \in Nat /\ n \in Nat
        BY <2>1, SlotInBytes
      <4>2. u + k <= o \/ o + k <= u
        BY <2>1, <3>3, <3>7, <4>1, PlacesDiffer
      <4>3. ASSUME NEW j \in 0 .. (k - 1) PROVE Bit(v, j) = Bit(w, j)
        <5>1. ~(o <= u + j /\ u + j < o + k)
          BY <4>2
        <5> QED BY <3>1, <3>2, <3>3, <3>5, <5>1
      <4> QED BY <2>1, <3>1, <3>2, <3>7, <4>3, SameNumber DEF v, w
    <3> QED BY <3>6, <3>7
  <2> QED BY <2>3, <2>4, <2>6, <2>7
<1> QED BY <1>1, <1>2

(* The phases are written in order, so what is behind them stays blank.    *)
LEMMA PutBlank ==
  ASSUME NEW k \in 1 .. 8, NEW dim \in Nat, NEW x, Shaped(x, dim, k),
         NEW n \in Slots(dim, k), NEW p \in Phases(k), Blank(x, n, dim, k)
  PROVE  Blank(Put(x, n, p, k), n + 1, dim, k)
<1> SUFFICES ASSUME k # 1, NEW g \in 0 .. (BitsNeeded(dim, k) - 1), g >= (n + 1) * k
             PROVE  BitAt(Put(x, n, p, k), g) = 0
  BY DEF Blank
<1>1. k \in 2 .. 8 /\ x \in [1 .. BytesNeeded(dim, k) -> Bytes]
  BY DEF Shaped, Bytes
<1>2. p \in 0 .. (Pow2[k] - 1)
  BY DEF Phases
<1>3. BitAt(Put(x, n, p, k), g) =
        IF n * k <= g /\ g < n * k + k THEN Bit(p, g - n * k) ELSE BitAt(x, g)
  BY <1>1, <1>2, WritesBits DEF Put
<1>4. n \in Nat
  BY <1>1, SlotInBytes
<1>5. PICK o \in Nat, u \in Nat : o = n * k /\ u = (n + 1) * k /\ o + k <= u
  <2>1. n < n + 1 /\ n + 1 \in Nat
    BY <1>4
  <2>2. n * k \in Nat /\ (n + 1) * k \in Nat
    BY <1>1, <1>4
  <2> QED BY <1>1, <1>4, <2>1, <2>2, PlacesDiffer
<1>6. g >= o /\ ~(g < o + k)
  BY <1>5
<1>7. BitAt(x, g) = 0
  BY <1>5, <1>6 DEF Blank
<1> QED BY <1>3, <1>5, <1>6, <1>7

(* Two vectors whose phases read the same, and that are zero behind them,  *)
(* are the same bytes.                                                     *)
LEMMA SameSlots ==
  ASSUME NEW k \in 1 .. 8, NEW dim \in Nat, NEW x, NEW y,
         Shaped(x, dim, k), Shaped(y, dim, k),
         Blank(x, dim, dim, k), Blank(y, dim, dim, k),
         \A s \in 0 .. (dim - 1) : Get(x, s, k) = Get(y, s, k)
  PROVE  x = y
<1>1. CASE k = 1
  <2>1. ASSUME NEW e \in 1 .. dim PROVE x[e] = y[e]
    <3>1. e - 1 \in 0 .. (dim - 1) /\ (e - 1) + 1 = e
      OBVIOUS
    <3> QED BY <1>1, <3>1 DEF Get
  <2> QED BY <1>1, <2>1 DEF Shaped
<1>2. CASE k # 1
  <2>1. /\ k \in 2 .. 8
        /\ x \in [1 .. BytesNeeded(dim, k) -> Bytes]
        /\ y \in [1 .. BytesNeeded(dim, k) -> Bytes]
    <3>1. k \in 2 .. 8
      BY <1>2
    <3>2. x \in [1 .. BytesNeeded(dim, k) -> Bytes]
      BY <1>2 DEF Shaped, Bytes
    <3>3. y \in [1 .. BytesNeeded(dim, k) -> Bytes]
      BY <1>2 DEF Shaped, Bytes
    <3> QED BY <3>1, <3>2, <3>3
  <2>2. PICK top \in Nat : top = dim * k
    BY <2>1
  <2>3. ASSUME NEW g \in 0 .. (BitsNeeded(dim, k) - 1) PROVE BitAt(x, g) = BitAt(y, g)
    <3>1. CASE g >= top
      BY <1>2, <2>2, <3>1 DEF Blank
    <3>2. CASE g < top
      <4>1. g \in Nat /\ g < dim * k
        BY <2>2, <3>2
      <4>2. PICK s \in 0 .. (dim - 1), j \in 0 .. (k - 1) : g = s * k + j
        BY <2>1, <4>1, SlotOfBit
      <4>3. s \in Slots(dim, k)
        BY DimInSlots
      <4>4. /\ Bit(UnpackPhase(x, s, k), j) = BitAt(x, s * k + j)
            /\ Bit(UnpackPhase(y, s, k), j) = BitAt(y, s * k + j)
        BY <2>1, <4>3, ReadsBits
      <4>5. UnpackPhase(x, s, k) = UnpackPhase(y, s, k)
        BY <1>2 DEF Get
      <4> QED BY <4>2, <4>4, <4>5
    <3> QED BY <2>2, <3>1, <3>2
  <2>4. PICK bytes \in Nat : bytes = BytesNeeded(dim, k)
    BY <2>1 DEF BytesNeeded
  <2>5. ASSUME NEW e \in 1 .. bytes PROVE x[e] = y[e]
    <3>1. ASSUME NEW j \in 0 .. 7 PROVE Bit(x[e], j) = Bit(y[e], j)
      <4>1. PICK g \in Nat : g = 8 * (e - 1) + j
        OBVIOUS
      <4>2. g \div 8 = e - 1 /\ g % 8 = j /\ (e - 1) + 1 = e
        BY <4>1, Remainder
      <4>3. g \in 0 .. (BitsNeeded(dim, k) - 1)
        BY <2>4, <4>1 DEF BitsNeeded
      <4> QED BY <2>3, <4>2, <4>3 DEF BitAt
    <3>2. x[e] \in Bytes /\ y[e] \in Bytes
      BY <2>1, <2>4
    <3> QED BY <3>1, <3>2, BitsDetermine
  <2>6. x \in [1 .. bytes -> Bytes] /\ y \in [1 .. bytes -> Bytes]
    BY <2>1, <2>4
  <2>7. \A e \in 1 .. bytes : x[e] = y[e]
    BY <2>5
  <2> QED BY <2>6, <2>7
<1> QED BY <1>1, <1>2

(* Every slot of a new vector reads zero, and so does every bit.           *)
LEMMA FreshIsZero ==
  ASSUME NEW k \in 1 .. 8, NEW dim \in Nat
  PROVE  /\ Shaped(Fresh(dim, k), dim, k)
         /\ \A s \in Slots(dim, k) : Get(Fresh(dim, k), s, k) = 0
         /\ Blank(Fresh(dim, k), 0, dim, k)
<1>1. CASE k = 1
  BY <1>1 DEF Shaped, Fresh, Slots, Get, Blank
<1>2. CASE k # 1
  <2> DEFINE x == Fresh(dim, k)
  <2>1. k \in 2 .. 8 /\ BytesNeeded(dim, k) \in Nat
    BY <1>2 DEF BytesNeeded
  <2>2. x = [n \in 1 .. BytesNeeded(dim, k) |-> 0]
    BY <1>2 DEF Fresh
  <2> HIDE DEF x
  <2>3. x \in [1 .. BytesNeeded(dim, k) -> Bytes] /\ Shaped(x, dim, k)
    BY <1>2, <2>2 DEF Shaped, Bytes
  <2>4. \A j \in 0 .. 7 : Bit(0, j) = 0
    <3> TAKE j \in 0 .. 7
    <3>1. j \in 0 .. 8
      OBVIOUS
    <3>2. PICK c \in Nat \ {0} : c = Pow2[j]
      BY <3>1, PowerType
    <3>3. 0 \div c = 0
      OBVIOUS
    <3> QED BY <3>2, <3>3 DEF Bit
  <2>5. ASSUME NEW g \in 0 .. (BitsNeeded(dim, k) - 1) PROVE BitAt(x, g) = 0
    <3>1. PICK c \in Nat, r \in 0 .. 7 : c = g \div 8 /\ r = g % 8 /\ g = 8 * c + r
      OBVIOUS
    <3>2. c + 1 \in 1 .. BytesNeeded(dim, k)
      BY <2>1, <3>1 DEF BitsNeeded
    <3>3. x[c + 1] = 0
      BY <2>2, <3>2
    <3> QED BY <2>4, <3>1, <3>3 DEF BitAt
  <2>6. ASSUME NEW s \in Slots(dim, k) PROVE Get(x, s, k) = 0
    <3> DEFINE v == UnpackPhase(x, s, k)
    <3>1. /\ v \in 0 .. (Pow2[k] - 1)
          /\ \A j \in 0 .. (k - 1) : Bit(v, j) = BitAt(x, s * k + j)
      BY <2>1, <2>3, ReadsBits
    <3> HIDE DEF v
    <3>2. \A j \in 0 .. (k - 1) : BitAt(x, s * k + j) = 0
      BY <2>1, <2>5, BitsOfSlot
    <3>3. 0 \in 0 .. (Pow2[k] - 1)
      <4>1. k \in 0 .. 8
        BY <2>1
      <4> QED BY <4>1, PowerType
    <3>4. \A j \in 0 .. (k - 1) : Bit(v, j) = Bit(0, j)
      <4> TAKE j \in 0 .. (k - 1)
      <4>1. j \in 0 .. 7
        OBVIOUS
      <4> QED BY <2>4, <3>1, <3>2, <4>1
    <3>5. v = 0
      BY <2>1, <3>1, <3>3, <3>4, SameNumber
    <3> QED BY <1>2, <3>5 DEF Get, v
  <2> QED BY <2>3, <2>5, <2>6 DEF Blank, x
<1> QED BY <1>1, <1>2

(* A number below d is its own remainder.                                  *)
LEMMA SmallRemainder ==
  ASSUME NEW d \in Nat \ {0}, NEW z \in 0 .. (d - 1)
  PROVE  z % d = z
<1>1. 0 \in Nat /\ z = 0 * d + z
  OBVIOUS
<1> QED BY <1>1, DivSum

(* Addition and subtraction modulo 2^k, or of signs, are inverse.          *)
LEMMA MinusUndoesPlus ==
  ASSUME NEW k \in 1 .. 8, NEW a \in Phases(k), NEW b \in Phases(k)
  PROVE  Plus(k, a, b) \in Phases(k) /\ Minus(k, Plus(k, a, b), a) = b
<1>1. CASE k = 1  BY <1>1 DEF Phases, Signs, Plus, Minus
<1>2. CASE k # 1
  <2>1. k \in 0 .. 8
    OBVIOUS
  <2>2. PICK N \in Nat \ {0} : N = Pow2[k]
    BY <2>1, PowerType
  <2>3. a \in 0 .. (N - 1) /\ b \in 0 .. (N - 1)
    BY <1>2, <2>2 DEF Phases
  <2>4. Plus(k, a, b) = (a + b) % N /\ \A m : Minus(k, m, a) = (m - a) % N
    BY <1>2, <2>2 DEF Plus, Minus
  <2>5. b % N = b
    BY <2>3, SmallRemainder
  <2>6. CASE a + b < N
    <3>1. (a + b) % N = a + b
      <4>1. a + b \in 0 .. (N - 1)
        BY <2>3, <2>6
      <4> QED BY <4>1, SmallRemainder
    <3>2. (a + b) - a = b
      BY <2>3
    <3> QED BY <1>2, <2>2, <2>3, <2>4, <2>5, <2>6, <3>1, <3>2 DEF Phases
  <2>7. CASE a + b >= N
    <3>1. PICK l \in 0 .. (N - 1) : a + b = N + l
      BY <2>3, <2>7
    <3>2. (a + b) % N = l
      <4>1. a + b = N + l
        BY <2>3, <3>1
      <4>2. (N + l) % N = l
        OBVIOUS
      <4> QED BY <4>1, <4>2
    <3>3. (l - a) % N = b
      <4>1. l - a = b - N
        BY <2>3, <3>1
      <4>2. (b - N) % N = b
        BY <2>3
      <4> QED BY <4>1, <4>2
    <3> QED BY <1>2, <2>2, <2>4, <3>2, <3>3 DEF Phases
  <2> QED BY <2>3, <2>6, <2>7
<1> QED BY <1>1, <1>2

-----------------------------------------------------------------------------
(* A drawn vector: phases up to its dimension, zero bits after.            *)
Drawn(x, dim, k) ==
  /\ Shaped(x, dim, k)
  /\ \A s \in Slots(dim, k) :
       IF s < dim THEN Get(x, s, k) \in Phases(k) ELSE Get(x, s, k) = 0
  /\ Blank(x, dim, dim, k)

Bound == \A s \in Slots(Dim, K) : Get(bound, s, K) = IF s < Dim THEN Sum(s) ELSE 0

(* The inductive invariant: what PhasesKept says of the vector in the      *)
(* making, that the operands of bind are drawn vectors of one size, and    *)
(* what the finished vectors hold.  At widths that do not divide 8 bits    *)
(* are left over behind the last slot: they are zero too.                  *)
IInv ==
  /\ asked \in [role : Requests, value : Requests]
  /\ job \in DOMAIN Next2 \cup {"Ok", "InvalidK", "DimMismatch", "KMismatch"}
  /\ PhasesKept
  /\ job \in DOMAIN Next2 /\ Accepted(Asked) => Blank(out, i, Dim, K)
  /\ job = "value" => asked.role.k \in 1 .. 8 /\ Drawn(role, asked.role.dim, asked.role.k)
  /\ job \in {"bind", "unbind", "Ok"} =>
       /\ K \in 1 .. 8
       /\ Drawn(role, Dim, K)
       /\ Drawn(value, Dim, K)
  /\ job = "Ok" =>
       /\ Shaped(recovered, Dim, K)
       /\ \A s \in Slots(Dim, K) :
            Get(recovered, s, K) = IF s < Dim THEN Difference(s) ELSE 0
       /\ Blank(recovered, Dim, Dim, K)

(* A request has a dimension, and what is accepted a width and samples.    *)
LEMMA RequestTypes ==
  ASSUME NEW r \in Requests
  PROVE  /\ r.dim \in Nat
         /\ Accepted(r) => r.k \in 1 .. 8 /\ Samples[r.k] \subseteq Phases(r.k)
<1>1. /\ \/ (r.how = "seed" /\ r.k \in SeedWidths)
         \/ (r.how = "key" /\ r.k \in KeyWidths)
      /\ r.dim \in 0 .. MaxDim[r.k]
  BY DEF Requests, RequestsOf
<1>2. r.dim \in Nat
  BY <1>1, SampleAssumption
<1>3. ASSUME Accepted(r) PROVE r.k \in 1 .. 8 /\ r.k \in Widths
  <2>1. CASE r.how = "seed" /\ r.k \in SeedWidths
    <3>1. r.k \in Supported
      BY <2>1, <1>3 DEF Accepted
    <3> QED BY <2>1, <3>1 DEF Supported, Widths
  <2>2. CASE r.how = "key" /\ r.k \in KeyWidths
    BY <2>2, WidthAssumption DEF Widths
  <2> QED BY <1>1, <2>1, <2>2
<1> QED BY <1>2, <1>3, SampleAssumption

(* The same of the request that the model is at                            *)
LEMMA KDim ==
  ASSUME asked \in [role : Requests, value : Requests]
  PROVE  /\ Dim \in Nat
         /\ Accepted(Asked) => K \in 1 .. 8 /\ Samples[K] \subseteq Phases(K)
<1>1. Asked \in Requests  BY DEF Asked
<1> QED BY <1>1, RequestTypes DEF K, Dim

(* One element is put: the slots below i keep what they hold, slot i gets  *)
(* p, the slots above stay zero.                                           *)
LEMMA ElementPut ==
  ASSUME IInv, job \in DOMAIN Next2, NEW p \in Phases(K), Element(p)
  PROVE  /\ i' \in 0 .. Dim /\ i' = i + 1
         /\ Shaped(out', Dim, K)
         /\ \A s \in Slots(Dim, K) :
              Get(out', s, K) = IF s = i THEN p ELSE Get(out, s, K)
         /\ \A s \in Slots(Dim, K) : s \in Nat /\ (s > i => Get(out, s, K) = 0)
         /\ Blank(out', i', Dim, K)
<1>1. Dim \in Nat /\ K \in 1 .. 8 /\ Accepted(Asked) /\ i < Dim /\ i' = i + 1 /\ out' = Put(out, i, p, K)
  BY KDim DEF IInv, Element
<1>2. i \in 0 .. Dim /\ Shaped(out, Dim, K)
  BY <1>1, KDim DEF IInv, PhasesKept
<1>3. i \in Slots(Dim, K) /\ \A s \in Slots(Dim, K) : s \in Nat
  BY <1>1, <1>2, DimInSlots
<1>4. \A s \in Slots(Dim, K) : s > i => Get(out, s, K) = 0
  BY <1>1, <1>2, <1>3, KDim DEF IInv, PhasesKept
<1>5. /\ Shaped(out', Dim, K)
      /\ \A s \in Slots(Dim, K) : Get(out', s, K) = IF s = i THEN p ELSE Get(out, s, K)
  BY <1>1, <1>2, <1>3, PutGet
<1>6. Blank(out', i', Dim, K)
  <2>1. Blank(out, i, Dim, K)
    BY <1>1 DEF IInv
  <2> QED BY <1>1, <1>2, <1>3, <2>1, PutBlank
<1> QED BY <1>1, <1>2, <1>3, <1>4, <1>5, <1>6

(* One element of any loop keeps the invariant.                            *)
LEMMA ElementKeeps ==
  ASSUME IInv, job \in DOMAIN Next2, NEW p \in Phases(K), Element(p),
         job \in Drawing => p \in Samples[K],
         job = "bind" => p = Sum(i),
         job = "unbind" => p = Difference(i)
  PROVE  IInv'
<1>1. /\ K' = K /\ Dim' = Dim /\ Asked' = Asked /\ job' = job /\ asked' = asked
      /\ role' = role /\ value' = value /\ bound' = bound /\ recovered' = recovered
      /\ K \in 1 .. 8 /\ Accepted(Asked) /\ Accepted(Asked)'
  BY KDim DEF IInv, Element, Asked, K, Dim
<1>2. \A s : Sum(s)' = Sum(s) /\ Difference(s)' = Difference(s)
  BY <1>1 DEF Sum, Difference
<1>3. i \in Nat /\ Dim \in Nat
  BY <1>1, KDim DEF IInv, PhasesKept
<1>4. \A s \in Slots(Dim, K) : s >= i' => Get(out', s, K) = 0
  BY <1>3, ElementPut
<1>5. ASSUME NEW s \in 0 .. (i' - 1)
      PROVE  /\ job \in Drawing => Get(out', s, K) \in Samples[K]
             /\ job = "bind" => Get(out', s, K) = Sum(s)
             /\ job = "unbind" => Get(out', s, K) = Difference(s)
  <2>1. s \in Slots(Dim, K) /\ s \in 0 .. i
    BY <1>1, <1>3, ElementPut, DimInSlots
  <2>2. Get(out', s, K) = IF s = i THEN p ELSE Get(out, s, K)
    BY <2>1, ElementPut
  <2>3. CASE s = i
    BY <2>2, <2>3
  <2>4. CASE s # i
    <3>1. s \in 0 .. (i - 1)
      BY <1>3, <2>1, <2>4
    <3> QED BY <1>1, <2>2, <2>4, <3>1 DEF IInv, PhasesKept
  <2> QED BY <2>3, <2>4
<1>6. PhasesKept'
  <2>1. Shaped(out', Dim, K) /\ i' \in 0 .. Dim
    BY ElementPut
  <2> QED BY <1>1, <1>2, <1>4, <1>5, <2>1 DEF PhasesKept, IInv
<1>7. Blank(out', i', Dim, K)
  BY ElementPut
<1> QED BY <1>1, <1>2, <1>6, <1>7 DEF IInv

(* A loop that has reached the dimension has filled a whole vector.        *)
LEMMA Filled ==
  ASSUME IInv, job \in DOMAIN Next2, Accepted(Asked), i = Dim
  PROVE  /\ Shaped(out, Dim, K) /\ Blank(out, Dim, Dim, K)
         /\ \A s \in Slots(Dim, K) :
              /\ s >= Dim => Get(out, s, K) = 0
              /\ s < Dim /\ job \in Drawing => Get(out, s, K) \in Phases(K)
              /\ s < Dim /\ job = "bind" => Get(out, s, K) = Sum(s)
              /\ s < Dim /\ job = "unbind" => Get(out, s, K) = Difference(s)
<1>1. Dim \in Nat /\ K \in 1 .. 8 /\ Samples[K] \subseteq Phases(K)
  BY KDim DEF IInv
<1>2. \A s \in Slots(Dim, K) : s \in Nat /\ (s < Dim => s \in 0 .. (i - 1))
  BY <1>1, DimInSlots
<1> QED BY <1>1, <1>2 DEF IInv, PhasesKept

-----------------------------------------------------------------------------
(* The first vector is fresh.                                              *)
LEMMA InitIInv == Init => IInv
<1> SUFFICES ASSUME Init PROVE IInv
  OBVIOUS
<1>1. Dim \in Nat /\ (Accepted(Asked) => K \in 1 .. 8)
  BY KDim DEF Init
<1>2. PhasesKept /\ (Accepted(Asked) => Blank(out, i, Dim, K))
  BY <1>1, FreshIsZero DEF Init, PhasesKept
<1> QED BY <1>2 DEF Init, IInv, Next2

(* The loop of random_role and role_from_key.                              *)
LEMMA DrawKeeps == IInv /\ Draw => IInv'
<1> SUFFICES ASSUME IInv, Draw PROVE IInv'
  OBVIOUS
<1>1. PICK p \in Samples[K] : Element(p)
  BY DEF Draw
<1>2. p \in Phases(K) /\ job \in DOMAIN Next2 /\ job # "bind" /\ job # "unbind"
  BY <1>1, KDim DEF IInv, Draw, Element, Drawing, Next2
<1> QED BY <1>1, <1>2, ElementKeeps

(* The loop of bind.                                                       *)
LEMMA BindKeeps == IInv /\ BindElement => IInv'
<1> SUFFICES ASSUME IInv, BindElement PROVE IInv'
  OBVIOUS
<1>1. /\ job = "bind" /\ Element(Sum(i)) /\ Accepted(Asked)
      /\ K \in 1 .. 8 /\ i < Dim /\ job \in DOMAIN Next2
  BY KDim DEF IInv, BindElement, Element, Sum, Next2
<1>2. i \in 0 .. Dim /\ Dim \in Nat
  BY <1>1, KDim DEF IInv, PhasesKept
<1>3. i \in Slots(Dim, K)
  BY <1>1, <1>2, DimInSlots
<1>4. Get(role, i, K) \in Phases(K) /\ Get(value, i, K) \in Phases(K)
  BY <1>1, <1>3 DEF IInv, Drawn
<1>5. Sum(i) \in Phases(K)
  BY <1>1, <1>4, MinusUndoesPlus DEF Sum
<1> QED BY <1>1, <1>5, ElementKeeps DEF Drawing

(* Below the dimension the difference is the phase of the value.           *)
LEMMA DifferenceIsValue ==
  ASSUME IInv, job \in {"unbind", "Ok"}, NEW s \in Slots(Dim, K), s < Dim
  PROVE  Difference(s) = Get(value, s, K) /\ Difference(s) \in Phases(K)
<1>1. /\ K \in 1 .. 8 /\ Get(role, s, K) \in Phases(K) /\ Get(value, s, K) \in Phases(K)
      /\ Get(bound, s, K) = Sum(s)
  BY DEF IInv, Drawn, PhasesKept
<1> QED BY <1>1, MinusUndoesPlus DEF Sum, Difference

(* The loop of unbind.                                                     *)
LEMMA UnbindKeeps == IInv /\ UnbindElement => IInv'
<1> SUFFICES ASSUME IInv, UnbindElement PROVE IInv'
  OBVIOUS
<1>1. /\ job = "unbind" /\ Element(Difference(i)) /\ Accepted(Asked)
      /\ K \in 1 .. 8 /\ i < Dim /\ job \in DOMAIN Next2
  BY KDim DEF IInv, UnbindElement, Element, Difference, Next2
<1>2. i \in 0 .. Dim /\ Dim \in Nat
  BY <1>1, KDim DEF IInv, PhasesKept
<1>3. i \in Slots(Dim, K)
  BY <1>1, <1>2, DimInSlots
<1> QED BY <1>1, <1>3, DifferenceIsValue, ElementKeeps DEF Drawing

(* A refused width ends the calls.                                         *)
LEMMA InvalidKeeps == IInv /\ InvalidK => IInv'
<1> SUFFICES ASSUME IInv, InvalidK PROVE IInv'
  OBVIOUS
<1>1. job' = "InvalidK" /\ asked' = asked
  BY DEF InvalidK
<1> QED BY <1>1 DEF IInv, PhasesKept, Next2

(* The next loop begins with a fresh vector of the size it is about.       *)
LEMMA FreshLoop ==
  ASSUME asked' \in [role : Requests, value : Requests],
         i' = 0, K' \in 1 .. 8, out' = Fresh(Dim', K'),
         job' \in {"value", "bind"}
  PROVE  PhasesKept' /\ Blank(out', i', Dim', K')
<1>1. Dim' \in Nat
  <2>1. Asked' \in Requests
    BY DEF Asked
  <2> QED BY <2>1, RequestTypes DEF Dim
<1>2. /\ Shaped(out', Dim', K')
      /\ \A s \in Slots(Dim', K') : Get(out', s, K') = 0
      /\ Blank(out', 0, Dim', K')
  BY <1>1, FreshIsZero
<1> QED BY <1>1, <1>2 DEF PhasesKept

(* The end of each loop: what was filled becomes the result.               *)
LEMMA FinishKeeps == IInv /\ Finish => IInv'
<1> SUFFICES ASSUME IInv, Finish PROVE IInv'
  OBVIOUS
<1>0. /\ job \in DOMAIN Next2 /\ Accepted(Asked) /\ K \in 1 .. 8
      /\ i = Dim /\ asked' = asked /\ i' = 0
      /\ asked \in [role : Requests, value : Requests]
  BY KDim DEF Finish, IInv
<1>1. CASE job = "role"
  <2>1. /\ job' = "value" /\ role' = out /\ out' = Fresh(Dim', K')
        /\ K = asked.role.k /\ Dim = asked.role.dim
    BY <1>0, <1>1 DEF Finish, Next2, Asked, K, Dim
  <2>2. Drawn(role', asked.role.dim, asked.role.k)
    BY <1>0, <1>1, <2>1, Filled, KDim, DimInSlots DEF Drawn, Drawing
  <2>3. PhasesKept' /\ (Accepted(Asked)' => Blank(out', i', Dim', K'))
    <3>1. CASE Accepted(Asked)'
      <4>1. Asked' \in Requests  BY <1>0 DEF Asked
      <4>2. K' \in 1 .. 8  BY <3>1, <4>1, RequestTypes DEF K, Accepted
      <4> QED BY <1>0, <2>1, <4>2, FreshLoop
    <3>2. CASE ~Accepted(Asked)'
      BY <2>1, <3>2 DEF PhasesKept
    <3> QED BY <3>1, <3>2
  <2> QED BY <1>0, <2>1, <2>2, <2>3 DEF IInv, Next2
<1>2. CASE job = "value"
  <2>1. /\ role' = role /\ value' = out
        /\ K = asked.value.k /\ Dim = asked.value.dim
    BY <1>0, <1>2 DEF Finish, Asked, K, Dim
  <2>2. Drawn(out, asked.value.dim, asked.value.k)
    BY <1>0, <1>2, <2>1, Filled, KDim, DimInSlots DEF Drawn, Drawing
  <2>3. CASE Compat(asked.role, asked.value) # "Ok"
    <3>1. job' \in {"DimMismatch", "KMismatch"}
      BY <1>2, <2>3 DEF Finish, Compat
    <3> QED BY <1>0, <3>1 DEF IInv, PhasesKept, Next2
  <2>4. CASE Compat(asked.role, asked.value) = "Ok"
    <3>1. asked.role.k = asked.value.k /\ asked.role.dim = asked.value.dim
      BY <2>4 DEF Compat
    <3>2. /\ job' = "bind" /\ out' = Fresh(Dim', K')
          /\ K' = asked.role.k /\ Dim' = asked.role.dim
      BY <1>0, <1>2, <2>4 DEF Finish, Next2, Asked, K, Dim
    <3>3. PhasesKept' /\ Blank(out', i', Dim', K')
      BY <1>0, <2>1, <3>1, <3>2, FreshLoop
    <3>4. Drawn(role', Dim', K') /\ Drawn(value', Dim', K')
      BY <1>2, <2>1, <2>2, <3>1, <3>2 DEF IInv
    <3> QED BY <1>0, <2>1, <3>1, <3>2, <3>3, <3>4 DEF IInv, Next2
  <2> QED BY <2>3, <2>4
<1>3. CASE job \in {"bind", "unbind"}
  <2>1. /\ role' = role /\ value' = value /\ K' = K /\ Dim' = Dim
        /\ out' = Fresh(Dim, K)
        /\ job = "bind" => job' = "unbind" /\ bound' = out
        /\ job = "unbind" => job' = "Ok" /\ bound' = bound /\ recovered' = out
    BY <1>0, <1>3 DEF Finish, Next2, Asked, K, Dim
  <2>2. Dim \in Nat /\ \A s \in Slots(Dim, K) : s \in Nat
    BY <1>0, KDim, DimInSlots
  <2>3. /\ Shaped(out', Dim, K) /\ Blank(out', 0, Dim, K)
        /\ \A s \in Slots(Dim, K) : Get(out', s, K) = 0
    BY <1>0, <2>1, <2>2, FreshIsZero
  <2>4. \A s : Sum(s)' = Sum(s)
    BY <2>1 DEF Sum
  <2>5. /\ Shaped(bound', Dim, K)
        /\ \A s \in Slots(Dim, K) : Get(bound', s, K) = IF s < Dim THEN Sum(s) ELSE 0
    <3>1. CASE job = "bind"
      BY <1>0, <2>1, <2>2, <3>1, Filled
    <3>2. CASE job = "unbind"
      BY <2>1, <3>2 DEF IInv, PhasesKept
    <3> QED BY <1>3, <3>1, <3>2
  <2>6. PhasesKept'
    BY <1>0, <1>3, <2>1, <2>2, <2>3, <2>4, <2>5 DEF PhasesKept, Next2
  <2>7. ASSUME job = "unbind"
        PROVE  /\ Shaped(recovered', Dim, K) /\ Blank(recovered', Dim, Dim, K)
               /\ \A s \in Slots(Dim, K) :
                    Get(recovered', s, K) = IF s < Dim THEN Difference(s)' ELSE 0
    <3>1. \A s : Difference(s)' = Difference(s)
      BY <2>1, <2>7 DEF Difference
    <3> QED BY <1>0, <2>1, <2>2, <2>7, <3>1, Filled
  <2> QED BY <1>0, <1>3, <2>1, <2>3, <2>6, <2>7 DEF IInv, Next2
<1> QED BY <1>0, <1>1, <1>2, <1>3 DEF Next2

(* A step of something else.                                               *)
LEMMA StutterKeeps == IInv /\ UNCHANGED vars => IInv'
<1> SUFFICES ASSUME IInv, UNCHANGED vars PROVE IInv'
  OBVIOUS
<1>1. /\ asked' = asked /\ job' = job /\ i' = i /\ out' = out /\ role' = role
      /\ value' = value /\ bound' = bound /\ recovered' = recovered
  BY DEF vars
<1>2. K' = K /\ Dim' = Dim /\ Accepted(Asked)' = Accepted(Asked)
  BY <1>1 DEF Asked, K, Dim, Accepted
<1>3. \A s : Sum(s)' = Sum(s) /\ Difference(s)' = Difference(s)
  BY <1>1, <1>2 DEF Sum, Difference
<1> QED BY <1>1, <1>2, <1>3 DEF IInv, PhasesKept

(* What the loops keep                                                     *)
LEMMA Invariance == Spec => []IInv
<1>1. IInv /\ [Next]_vars => IInv'
  BY InvalidKeeps, DrawKeeps, BindKeeps, UnbindKeeps, FinishKeeps, StutterKeeps DEF Next
<1> QED BY <1>1, InitIInv, PTL DEF Spec

(* No loop disturbs a phase it has written, a neighbour or the padding.    *)
THEOREM PackingKeepsPhases == Spec => []PhasesKept
<1>1. IInv => PhasesKept
  BY DEF IInv
<1> QED BY <1>1, Invariance, PTL

(* unbind inverts bind byte for byte, for any dimension and width.         *)
THEOREM UnbindInvertsBind == Spec => []UnbindRestoresValue
<1>1. IInv => UnbindRestoresValue
  <2> SUFFICES ASSUME IInv, job = "Ok" PROVE recovered = value
    BY DEF UnbindRestoresValue
  <2>1. K \in 1 .. 8 /\ Dim \in Nat /\ Shaped(recovered, Dim, K) /\ Shaped(value, Dim, K)
    BY KDim DEF IInv, Drawn
  <2>2. ASSUME NEW s \in 0 .. (Dim - 1)
        PROVE  Get(recovered, s, K) = Get(value, s, K)
    <3>1. s \in Slots(Dim, K) /\ s < Dim
      BY <2>1, DimInSlots
    <3> QED BY <3>1, DifferenceIsValue DEF IInv
  <2>3. Blank(recovered, Dim, Dim, K) /\ Blank(value, Dim, Dim, K)
    BY DEF IInv, Drawn
  <2> QED BY <2>1, <2>2, <2>3, SameSlots
<1> QED BY <1>1, Invariance, PTL
-----------------------------------------------------------------------------
(* Two similarities are equal when they add up the same cosines.           *)
LEMMA SameCosines ==
  ASSUME NEW k, NEW dim \in Nat, NEW w, NEW x, NEW y, NEW z,
         \A n \in 0 .. (dim - 1) :
           PhaseCosine(k, Get(w, n, k), Get(x, n, k)) =
             PhaseCosine(k, Get(y, n, k), Get(z, n, k))
  PROVE  Cosine(w, x, dim, k) = Cosine(y, z, dim, k)
<1> DEFINE L(f, n) == IF n = 0 THEN 0
                      ELSE f[n - 1] + PhaseCosine(k, Get(w, n - 1, k), Get(x, n - 1, k))
           R(f, n) == IF n = 0 THEN 0
                      ELSE f[n - 1] + PhaseCosine(k, Get(y, n - 1, k), Get(z, n - 1, k))
           left  == CHOOSE f : f = [n \in 0 .. dim |-> L(f, n)]
           right == CHOOSE f : f = [n \in 0 .. dim |-> R(f, n)]
<1>1. \A f, n : n \in 0 .. dim => L(f, n) = R(f, n)
  <2> TAKE f, n
  <2> SUFFICES ASSUME n \in 0 .. dim, n # 0 PROVE L(f, n) = R(f, n)
    OBVIOUS
  <2>1. n - 1 \in 0 .. (dim - 1)
    OBVIOUS
  <2>2. PhaseCosine(k, Get(w, n - 1, k), Get(x, n - 1, k)) =
          PhaseCosine(k, Get(y, n - 1, k), Get(z, n - 1, k))
    BY <2>1
  <2> QED BY <2>2, Zenon
<1>2. left = right
  <2> HIDE DEF L, R
  <2>1. \A f : [n \in 0 .. dim |-> L(f, n)] = [n \in 0 .. dim |-> R(f, n)]
    BY <1>1
  <2> QED BY <2>1, Zenon
<1>3. /\ Cosine(w, x, dim, k) = IF dim = 0 /\ k = 1 THEN <<0, 1>> ELSE <<left[dim], dim>>
      /\ Cosine(y, z, dim, k) = IF dim = 0 /\ k = 1 THEN <<0, 1>> ELSE <<right[dim], dim>>
  BY Zenon DEF Cosine
<1> HIDE DEF left, right
<1> QED BY <1>2, <1>3

(* Binding turns every vector of phases by the same angles, so the cosine  *)
(* of a bound vector to its role is that of the value to the identity.     *)
THEOREM BindingKeepsSimilarity == Spec => []BindKeepsSimilarity
<1>1. IInv => BindKeepsSimilarity
  <2> DEFINE identity == IF K = 1 THEN [n \in 1 .. Dim |-> 1] ELSE Fresh(Dim, K)
  <2> SUFFICES ASSUME IInv, job = "Ok"
               PROVE  Cosine(bound, role, Dim, K) = Cosine(value, identity, Dim, K)
    BY DEF BindKeepsSimilarity
  <2>1. K \in 1 .. 8 /\ Dim \in Nat
    BY KDim DEF IInv
  <2>2. ASSUME NEW n \in 0 .. (Dim - 1)
        PROVE  PhaseCosine(K, Get(bound, n, K), Get(role, n, K)) =
                 PhaseCosine(K, Get(value, n, K), Get(identity, n, K))
    <3> DEFINE r == Get(role, n, K)
               v == Get(value, n, K)
               b == Get(bound, n, K)
               e == Get(identity, n, K)
    <3>1. n \in Slots(Dim, K) /\ n < Dim
      BY <2>1, DimInSlots
    <3>2. r \in Phases(K) /\ v \in Phases(K) /\ b = Plus(K, r, v)
      BY <3>1 DEF IInv, Drawn, PhasesKept, Sum
    <3>3. Minus(K, b, r) = v
      BY <2>1, <3>2, MinusUndoesPlus
    <3>4. e = IF K = 1 THEN 1 ELSE 0
      <4>1. CASE K = 1
        <5>1. n + 1 \in 1 .. Dim /\ identity = [j \in 1 .. Dim |-> 1]
          BY <2>1, <4>1
        <5> QED BY <4>1, <5>1 DEF Get
      <4>2. CASE K # 1
        <5>1. identity = Fresh(Dim, K)
          BY <4>2
        <5>2. Get(Fresh(Dim, K), n, K) = 0
          BY <2>1, <3>1, FreshIsZero
        <5> QED BY <4>2, <5>1, <5>2
      <4> QED BY <4>1, <4>2
    <3> HIDE DEF r, v, b, e, identity
    <3>5. CASE K = 1
      <4>1. r \in {1, -1} /\ v \in {1, -1} /\ b * r = v /\ v * e = v
        BY <3>2, <3>3, <3>4, <3>5 DEF Phases, Signs, Minus
      <4>2. b * r * Unit = v * e * Unit
        BY <4>1
      <4> QED BY <3>5, <4>2 DEF PhaseCosine, r, v, b, e
    <3>6. CASE K # 1
      <4>1. (b - r) % Pow2[K] = v
        BY <3>3, <3>6 DEF Minus
      <4>2. (v - e) % Pow2[K] = v
        <5>1. PICK N \in Nat \ {0} : N = Pow2[K]
          <6>1. K \in 0 .. 8
            BY <2>1
          <6> QED BY <6>1, PowerType
        <5>2. v \in 0 .. (N - 1) /\ v - e = v
          BY <3>2, <3>4, <3>6, <5>1 DEF Phases
        <5> QED BY <5>1, <5>2, SmallRemainder
      <4> QED BY <3>6, <4>1, <4>2 DEF PhaseCosine, r, v, b, e
    <3> QED BY <3>5, <3>6
  <2> HIDE DEF identity
  <2> QED BY <2>1, <2>2, SameCosines
<1> QED BY <1>1, Invariance, PTL
=============================================================================

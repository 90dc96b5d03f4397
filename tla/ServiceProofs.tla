--------------------------- MODULE ServiceProofs ---------------------------
(* For any items, calls and sizes: what elCommon.c encodes it decodes, a     *)
(* read returns its item, a write changes its item only, and rhApp dies of   *)
(* unknown items, of answers longer than a message and of writes behind the  *)
(* memory alone.                                                             *)
EXTENDS Service, TLAPS

(***************************************************************************)
(* Numbers.                                                                *)
(***************************************************************************)

(* The base is a number of more than 4 values. *)
LEMMA BaseFacts ==
  /\ Base \in Nat /\ Base > 4 /\ Half \in Nat /\ Half > 2 /\ Base = 2 * Half
  /\ Weight[1] = 1 /\ Weight[2] = Base /\ Weight[3] = Base * Base
  /\ Weight[4] = Base * Base * Base
  /\ DataBuf \in Nat /\ MemLen \in Nat
<1>1. /\ Half \in Nat /\ Half > 2 /\ Base = 2 * Half /\ DataBuf \in Nat /\ MemLen \in Nat
  BY ServiceAssumption
<1>2. Base \in Nat /\ Base > 4
  BY <1>1
<1>3. /\ Weight[1] = 1 /\ Weight[2] = Base /\ Weight[3] = Base * Base
      /\ Weight[4] = Base * Base * Base
  BY DEF Weight
<1> QED
  BY <1>1, <1>2, <1>3

(* Quotient and remainder. *)
LEMMA DivMod ==
  ASSUME NEW n \in Nat, NEW d \in Nat, d > 0
  PROVE  n \div d \in Nat /\ n % d \in Nat /\ n % d < d /\ n = (n \div d) * d + (n % d)
  OBVIOUS

(* They are the only ones. *)
LEMMA DivUnique ==
  ASSUME NEW n \in Nat, NEW d \in Nat, d > 0, NEW q \in Nat, NEW r \in Nat, r < d,
         n = q * d + r
  PROVE  n \div d = q
  OBVIOUS

(* Dividing twice is dividing by the product. *)
LEMMA DivTwice ==
  ASSUME NEW n \in Nat, NEW d \in Nat, d > 0, NEW b \in Nat, b > 0
  PROVE  n \div (d * b) = (n \div d) \div b
<1> DEFINE q == n \div d
           r == n % d
           p == q \div b
           t == q % b
<1>1. q \in Nat /\ r \in Nat /\ r < d /\ n = q * d + r
  BY DivMod
<1>2. p \in Nat /\ t \in Nat /\ t < b /\ q = p * b + t
  BY <1>1, DivMod
<1> HIDE DEF q, r, p, t
<1>3. n = p * (d * b) + (t * d + r)
  BY <1>1, <1>2
<1>4. t * d + r \in Nat /\ t * d + r < d * b
  <2>1. t <= b - 1
    BY <1>2
  <2>2. t * d <= (b - 1) * d
    BY <2>1, <1>2
  <2>3. (b - 1) * d = d * b - d
    OBVIOUS
  <2>4. t * d \in Nat /\ d * b \in Nat
    BY <1>2
  <2> QED
    BY <1>1, <2>2, <2>3, <2>4
<1>5. d * b \in Nat /\ d * b > 0
  OBVIOUS
<1>6. n \div (d * b) = p
  BY <1>2, <1>3, <1>4, <1>5, DivUnique
<1> QED
  BY <1>6 DEF p, q

(* A number smaller than a product has a small quotient. *)
LEMMA SmallQuotient ==
  ASSUME NEW n \in Nat, NEW d \in Nat, d > 0, NEW b \in Nat, n < b * d
  PROVE  n \div d < b
<1> DEFINE q == n \div d
           r == n % d
<1>1. q \in Nat /\ r \in Nat /\ n = q * d + r
  BY DivMod
<1> HIDE DEF q, r
<1>2. ASSUME q >= b PROVE FALSE
  <2>1. q * d >= b * d
    BY <1>1, <1>2
  <2> QED
    BY <1>1, <2>1
<1> QED
  BY <1>1, <1>2 DEF q

(* A number from its digits. *)
LEMMA Horner ==
  ASSUME NEW b \in Nat, NEW w \in Nat, NEW x \in Nat, NEW y \in Nat, NEW z \in Nat
  PROVE  /\ (x * b + y) * b + z = z + y * b + x * (b * b) + 0 * (b * b * b)
         /\ ((w * b + x) * b + y) * b + z = z + y * b + x * (b * b) + w * (b * b * b)
<1>1. (x * b + y) * b = x * (b * b) + y * b
  OBVIOUS
<1>2. ((w * b + x) * b + y) * b = w * (b * b * b) + x * (b * b) + y * b
  <2>1. (w * b + x) * b = w * (b * b) + x * b
    OBVIOUS
  <2>2. (w * (b * b) + x * b + y) * b = w * (b * b * b) + x * (b * b) + y * b
    OBVIOUS
  <2> QED
    BY <2>1, <2>2
<1>3. /\ b * b \in Nat /\ b * b * b \in Nat /\ x * (b * b) \in Nat /\ y * b \in Nat
      /\ w * (b * b * b) \in Nat /\ 0 * (b * b * b) = 0
  OBVIOUS
<1> QED
  BY <1>1, <1>2, <1>3

(* What xdr_add_uint writes. *)
LEMMA AddUint ==
  ASSUME NEW k \in 1 .. 4, NEW n \in Nat
  PROVE  /\ xdr_add_uint(n, k) \in Seq(Octet) /\ Len(xdr_add_uint(n, k)) = k
         /\ \A j \in 1 .. 4 : ByteOf(xdr_add_uint(n, k), j) =
              IF j <= k THEN (n \div Weight[j]) % Base ELSE 0
<1> DEFINE s == xdr_add_uint(n, k)
<1>1. \A j \in 1 .. 4 : Weight[j] \in Nat /\ Weight[j] > 0
  <2>1. Base * Base \in Nat /\ Base * Base > 0
    BY BaseFacts
  <2>2. Base * Base * Base \in Nat /\ Base * Base * Base > 0
    BY BaseFacts, <2>1
  <2> QED
    BY BaseFacts, <2>1, <2>2
<1>2. \A j \in 1 .. 4 : (n \div Weight[j]) % Base \in Octet
  <2> SUFFICES ASSUME NEW j \in 1 .. 4 PROVE (n \div Weight[j]) % Base \in Octet
    OBVIOUS
  <2>1. n \div Weight[j] \in Nat
    BY <1>1, DivMod
  <2>2. (n \div Weight[j]) % Base \in Nat /\ (n \div Weight[j]) % Base < Base
    BY <2>1, BaseFacts, DivMod
  <2> QED
    BY <2>2, BaseFacts DEF Octet
<1>3. \A i \in 1 .. k : k + 1 - i \in 1 .. 4
  OBVIOUS
<1>4. s = [i \in 1 .. k |-> (n \div Weight[k + 1 - i]) % Base]
  BY DEF xdr_add_uint
<1> HIDE DEF s
<1>5. s \in [1 .. k -> Octet]
  BY <1>2, <1>3, <1>4
<1>6. s \in Seq(Octet) /\ Len(s) = k
  BY <1>5
<1>7. ASSUME NEW j \in 1 .. 4
      PROVE  ByteOf(s, j) = IF j <= k THEN (n \div Weight[j]) % Base ELSE 0
  <2>1. CASE j <= k
    <3>1. k + 1 - j \in 1 .. k /\ k + 1 - (k + 1 - j) = j
      BY <2>1
    <3>2. s[k + 1 - j] = (n \div Weight[k + 1 - (k + 1 - j)]) % Base
      BY <1>4, <3>1
    <3> QED
      BY <1>6, <2>1, <3>1, <3>2 DEF ByteOf
  <2>2. CASE ~(j <= k)
    BY <1>6, <2>2 DEF ByteOf
  <2> QED
    BY <2>1, <2>2
<1> QED
  BY <1>6, <1>7 DEF s

(* A number of k bytes is read as it was written. *)
LEMMA UintRoundTrip ==
  ASSUME NEW k \in 1 .. 4, NEW n \in UInt(k)
  PROVE  xdr_get_uint(xdr_add_uint(n, k)) = n
<1> DEFINE B == Base
           n2 == n \div B
           n3 == n2 \div B
           n4 == n3 \div B
<1>1. n \in Nat /\ n < B * Weight[k]
  <2>1. Weight[k] \in Nat
    BY BaseFacts
  <2> QED
    BY BaseFacts, <2>1 DEF UInt
<1>2. B \in Nat /\ B > 0 /\ B * B \in Nat /\ B * B > 0 /\ B * B * B \in Nat
  BY BaseFacts
<1>3. n2 \in Nat /\ (n % B) \in Nat /\ n = n2 * B + (n % B)
  BY <1>1, <1>2, DivMod
<1>4. n3 \in Nat /\ (n2 % B) \in Nat /\ n2 = n3 * B + (n2 % B)
  BY <1>2, <1>3, DivMod
<1>5. n4 \in Nat /\ (n3 % B) \in Nat /\ n3 = n4 * B + (n3 % B)
  BY <1>2, <1>4, DivMod
<1>6. /\ n \div Weight[1] = n /\ n \div Weight[2] = n2 /\ n \div Weight[3] = n3
      /\ n \div Weight[4] = n4
  <2>1. n \div 1 = n
    BY <1>1
  <2>2. n \div (B * B) = n3
    BY <1>1, <1>2, DivTwice
  <2>3. n \div ((B * B) * B) = n4
    BY <1>1, <1>2, <2>2, DivTwice
  <2> QED
    BY <2>1, <2>2, <2>3, BaseFacts
<1>7. \A j \in 1 .. 4 : ByteOf(xdr_add_uint(n, k), j) =
        IF j <= k THEN (n \div Weight[j]) % B ELSE 0
  BY <1>1, AddUint
<1> DEFINE b(j) == ByteOf(xdr_add_uint(n, k), j)
<1>8. /\ b(1) = (n % B)
      /\ b(2) = IF k >= 2 THEN (n2 % B) ELSE 0
      /\ b(3) = IF k >= 3 THEN (n3 % B) ELSE 0
      /\ b(4) = IF k >= 4 THEN (n4 % B) ELSE 0
  BY <1>6, <1>7
<1>9. xdr_get_uint(xdr_add_uint(n, k)) = b(1) + b(2) * B + b(3) * (B * B) + b(4) * (B * B * B)
  <2>1. xdr_get_uint(xdr_add_uint(n, k)) =
          b(1) * Weight[1] + b(2) * Weight[2] + b(3) * Weight[3] + b(4) * Weight[4]
    BY DEF xdr_get_uint
  <2>2. b(1) * 1 = b(1)
    BY <1>8, <1>3
  <2> QED
    BY <2>1, <2>2, BaseFacts
<1>10. /\ k = 1 => n < B
       /\ k = 2 => n2 < B
       /\ k = 3 => n3 < B
       /\ k = 4 => n4 < B
  <2>1. k = 1 => n < B
    BY <1>1, BaseFacts
  <2>2. k = 2 => n \div B < B
    BY <1>1, <1>2, BaseFacts, SmallQuotient
  <2>3. k = 3 => n \div (B * B) < B
    BY <1>1, <1>2, BaseFacts, SmallQuotient
  <2>4. k = 4 => n \div (B * B * B) < B
    <3>1. B * B * B > 0
      BY <1>2
    <3> QED
      BY <1>1, <1>2, <3>1, BaseFacts, SmallQuotient
  <2> QED
    BY <1>6, <2>1, <2>2, <2>3, <2>4, BaseFacts
<1> HIDE DEF n2, n3, n4, b
<1>11. \A x \in Nat : x < B => x % B = x
  BY <1>2
<1>12. CASE k = 1
  <2>1. b(1) = n /\ b(2) = 0 /\ b(3) = 0 /\ b(4) = 0
    BY <1>1, <1>8, <1>10, <1>11, <1>12
  <2> QED
    BY <1>1, <1>2, <1>9, <2>1
<1>13. CASE k = 2
  <2>1. b(1) = (n % B) /\ b(2) = n2 /\ b(3) = 0 /\ b(4) = 0
    BY <1>3, <1>8, <1>10, <1>11, <1>13
  <2> QED
    BY <1>2, <1>3, <1>9, <2>1
<1>14. CASE k = 3
  <2>1. b(1) = (n % B) /\ b(2) = (n2 % B) /\ b(3) = n3 /\ b(4) = 0
    BY <1>4, <1>8, <1>10, <1>11, <1>14
  <2>2. n = (n3 * B + (n2 % B)) * B + (n % B)
    BY <1>3, <1>4
  <2>3. (n3 * B + (n2 % B)) * B + (n % B) = (n % B) + (n2 % B) * B + n3 * (B * B) + 0 * (B * B * B)
    BY <1>2, <1>3, <1>4, Horner
  <2> QED
    BY <1>9, <2>1, <2>2, <2>3
<1>15. CASE k = 4
  <2>1. b(1) = (n % B) /\ b(2) = (n2 % B) /\ b(3) = (n3 % B) /\ b(4) = n4
    BY <1>5, <1>8, <1>10, <1>11, <1>15
  <2>2. n = ((n4 * B + (n3 % B)) * B + (n2 % B)) * B + (n % B)
    BY <1>3, <1>4, <1>5
  <2>3. ((n4 * B + (n3 % B)) * B + (n2 % B)) * B + (n % B)
          = (n % B) + (n2 % B) * B + (n3 % B) * (B * B) + n4 * (B * B * B)
    BY <1>2, <1>3, <1>4, <1>5, Horner
  <2> QED
    BY <1>9, <2>1, <2>2, <2>3
<1> QED
  BY <1>12, <1>13, <1>14, <1>15

(***************************************************************************)
(* Strings in a buffer.                                                    *)
(***************************************************************************)

(* Two strings together. *)
LEMMA Together ==
  ASSUME NEW a \in Seq(Int), NEW x \in Seq(Int)
  PROVE  a \o x \in Seq(Int) /\ Len(a \o x) = Len(a) + Len(x)
  OBVIOUS

(* x stands in buf from byte from on *)
Occurs(buf, from, x) ==
  /\ from + Len(x) - 1 <= Len(buf)
  /\ \A i \in 1 .. Len(x) : buf[from + i - 1] = x[i]

(* What stands there is what is copied out. *)
LEMMA BytesOut ==
  ASSUME NEW buf \in Seq(Int), NEW from \in Nat \ {0}, NEW x \in Seq(Int), Occurs(buf, from, x)
  PROVE  Bytes(buf, from, Len(x)) = x
<1>1. Len(x) \in Nat /\ Len(buf) \in Nat /\ x = [i \in 1 .. Len(x) |-> x[i]]
  OBVIOUS
<1>2. ASSUME NEW i \in 1 .. Len(x)
      PROVE  (IF from + i - 1 <= Len(buf) THEN buf[from + i - 1] ELSE 0) = x[i]
  BY <1>1 DEF Occurs
<1> QED
  BY <1>1, <1>2 DEF Bytes

(* A string stands in itself, and behind what it is appended to. *)
LEMMA OccursIn ==
  ASSUME NEW a \in Seq(Int), NEW x \in Seq(Int)
  PROVE  /\ Occurs(x, 1, x)
         /\ Occurs(a \o x, 1, a)
         /\ Occurs(a \o x, Len(a) + 1, x)
<1>1. /\ Len(a) \in Nat /\ Len(x) \in Nat /\ Len(a \o x) = Len(a) + Len(x)
      /\ \A i \in 1 .. Len(a) : (a \o x)[i] = a[i]
      /\ \A i \in 1 .. Len(x) : (a \o x)[Len(a) + i] = x[i]
  OBVIOUS
<1>2. Occurs(x, 1, x)
  BY <1>1 DEF Occurs
<1>3. Occurs(a \o x, 1, a)
  BY <1>1 DEF Occurs
<1>4. Occurs(a \o x, Len(a) + 1, x)
  BY <1>1 DEF Occurs
<1> QED
  BY <1>2, <1>3, <1>4

(* Where two strings stand together, each stands. *)
LEMMA OccursParts ==
  ASSUME NEW buf \in Seq(Int), NEW from \in Nat \ {0}, NEW a \in Seq(Int), NEW x \in Seq(Int),
         Occurs(buf, from, a \o x)
  PROVE  Occurs(buf, from, a) /\ Occurs(buf, from + Len(a), x)
<1>1. /\ Len(a) \in Nat /\ Len(x) \in Nat /\ Len(buf) \in Nat /\ Len(a \o x) = Len(a) + Len(x)
      /\ \A i \in 1 .. Len(a) : (a \o x)[i] = a[i]
      /\ \A i \in 1 .. Len(x) : (a \o x)[Len(a) + i] = x[i]
  OBVIOUS
<1>2. Occurs(buf, from, a)
  <2>1. ASSUME NEW i \in 1 .. Len(a) PROVE buf[from + i - 1] = a[i]
    <3>1. i \in 1 .. Len(a \o x)
      BY <1>1
    <3>2. buf[from + i - 1] = (a \o x)[i]
      BY <3>1 DEF Occurs
    <3> QED
      BY <1>1, <3>2
  <2>2. from + Len(a) - 1 <= Len(buf)
    BY <1>1 DEF Occurs
  <2> QED
    BY <2>1, <2>2 DEF Occurs
<1>3. ASSUME NEW i \in 1 .. Len(x) PROVE buf[from + Len(a) + i - 1] = x[i]
  <2>1. Len(a) + i \in 1 .. Len(a \o x) /\ from + (Len(a) + i) - 1 = from + Len(a) + i - 1
    BY <1>1
  <2>2. buf[from + (Len(a) + i) - 1] = (a \o x)[Len(a) + i]
    BY <2>1 DEF Occurs
  <2> QED
    BY <1>1, <2>1, <2>2
<1>4. Occurs(buf, from + Len(a), x)
  BY <1>1, <1>3 DEF Occurs
<1> QED
  BY <1>2, <1>4

(* Bytes are numbers. *)
LEMMA OctetsAreNumbers ==
  ASSUME NEW x \in Seq(Octet)
  PROVE  x \in Seq(Int)
<1>1. Octet \subseteq Int
  BY BaseFacts DEF Octet
<1>2. Len(x) \in Nat /\ x \in [1 .. Len(x) -> Octet]
  OBVIOUS
<1>3. x \in [1 .. Len(x) -> Int]
  BY <1>1, <1>2
<1> QED
  BY <1>2, <1>3

(* A number is read from where it stands. *)
LEMMA UintRead ==
  ASSUME NEW buf \in Seq(Int), NEW from \in Nat \ {0}, NEW k \in 1 .. 4, NEW n \in UInt(k),
         Occurs(buf, from, xdr_add_uint(n, k))
  PROVE  xdr_get_uint(Bytes(buf, from, k)) = n
<1>1. n \in Nat
  BY BaseFacts DEF UInt
<1>2. xdr_add_uint(n, k) \in Seq(Int) /\ Len(xdr_add_uint(n, k)) = k
  BY <1>1, AddUint, OctetsAreNumbers
<1>3. Bytes(buf, from, k) = xdr_add_uint(n, k)
  BY <1>2, BytesOut
<1> QED
  BY <1>3, UintRoundTrip

(* A length takes the bytes it needs. *)
LEMMA LengthBytes ==
  ASSUME NEW n \in UInt(4)
  PROVE  nBytes(n) \in 1 .. 4 /\ n \in UInt(nBytes(n))
<1>1. Weight[1] \in Nat /\ Weight[2] \in Nat /\ Weight[3] \in Nat /\ Weight[4] \in Nat
  BY BaseFacts
<1>2. n \in Nat /\ n < Base * Weight[4]
  BY <1>1, BaseFacts DEF UInt
<1>3. Base * Weight[1] = Weight[2] /\ Base * Weight[2] = Weight[3] /\ Base * Weight[3] = Weight[4]
  BY BaseFacts
<1>4. ASSUME NEW k \in 1 .. 4, n < Base * Weight[k] PROVE n \in UInt(k)
  <2>1. Base * Weight[k] \in Nat
    BY <1>1, BaseFacts
  <2> QED
    BY <1>2, <1>4, <2>1 DEF UInt
<1> QED
  BY <1>1, <1>2, <1>3, <1>4 DEF nBytes

(* What xdr_add_variantlen writes is a string of numbers. *)
LEMMA VariantlenTyped ==
  ASSUME NEW n \in UInt(4)
  PROVE  xdr_add_variantlen(n) \in Seq(Int) /\ Len(xdr_add_variantlen(n)) \in Nat \ {0}
<1>1. n \in Nat
  BY BaseFacts DEF UInt
<1>2. nBytes(n) \in 1 .. 4
  BY LengthBytes
<1>3. xdr_add_uint(n, nBytes(n)) \in Seq(Int)
  BY <1>1, <1>2, AddUint, OctetsAreNumbers
<1>4. <<Half + nBytes(n)>> \in Seq(Int) /\ <<n>> \in Seq(Int)
  BY <1>1, <1>2, BaseFacts
<1> QED
  BY <1>3, <1>4 DEF xdr_add_variantlen

(* A length is read as it was written, in one byte or in several. *)
LEMMA LengthRead ==
  ASSUME NEW buf \in Seq(Int), NEW from \in Nat \ {0}, NEW n \in UInt(4),
         Occurs(buf, from, xdr_add_variantlen(n))
  PROVE  /\ xdr_get_variantlen(buf, from).len = n
         /\ xdr_get_variantlen(buf, from).pos = Len(xdr_add_variantlen(n))
<1> DEFINE first == Bytes(buf, from, 1)[1]
           k == nBytes(n)
           u == xdr_add_uint(n, k)
<1>1. n \in Nat /\ k \in 1 .. 4 /\ n \in UInt(k)
  BY LengthBytes, BaseFacts DEF UInt
<1>2. u \in Seq(Int) /\ Len(u) = k
  BY <1>1, AddUint, OctetsAreNumbers
<1>3. CASE n < Half
  <2>1. xdr_add_variantlen(n) = <<n>>
    BY <1>3 DEF xdr_add_variantlen
  <2>2. <<n>> \in Seq(Int) /\ Len(<<n>>) = 1
    BY <1>1
  <2>3. Bytes(buf, from, 1) = <<n>>
    BY <2>1, <2>2, BytesOut
  <2>4. first = n
    BY <2>3
  <2>5. xdr_get_variantlen(buf, from) = [len |-> n, pos |-> 1]
    BY <1>3, <2>4 DEF xdr_get_variantlen
  <2> QED
    BY <2>1, <2>2, <2>5
<1>4. CASE ~(n < Half)
  <2> DEFINE h == <<Half + k>>
  <2>1. xdr_add_variantlen(n) = h \o u
    BY <1>4 DEF xdr_add_variantlen
  <2>2. h \in Seq(Int) /\ Len(h) = 1 /\ h[1] = Half + k
    BY <1>1, BaseFacts
  <2> HIDE DEF h, u, k
  <2>3. Occurs(buf, from, h) /\ Occurs(buf, from + 1, u)
    <3>1. Occurs(buf, from, h \o u)
      BY <2>1
    <3>2. Occurs(buf, from, h) /\ Occurs(buf, from + Len(h), u)
      BY <1>2, <2>2, <3>1, OccursParts
    <3> QED
      BY <2>2, <3>2
  <2>4. Bytes(buf, from, 1) = h
    BY <2>2, <2>3, BytesOut
  <2>5. first = Half + k
    BY <2>2, <2>4
  <2>6. ~(first < Half) /\ first - Half = k
    BY <1>1, <2>5, BaseFacts
  <2>7. from + 1 \in Nat \ {0}
    OBVIOUS
  <2>8. xdr_get_uint(Bytes(buf, from + 1, k)) = n
    BY <1>1, <2>3, <2>7, UintRead DEF u
  <2>9. xdr_get_variantlen(buf, from) =
          [len |-> xdr_get_uint(Bytes(buf, from + 1, first - Half)), pos |-> 1 + (first - Half)]
    BY <2>6 DEF xdr_get_variantlen
  <2>10. Len(h \o u) = 1 + k
    BY <1>2, <2>2, Together
  <2> HIDE DEF first
  <2> QED
    BY <2>1, <2>6, <2>8, <2>9, <2>10
<1> QED
  BY <1>3, <1>4

(* A string is read as it was written, unless it is too long. *)
LEMMA StringRead ==
  ASSUME NEW buf \in Seq(Int), NEW from \in Nat \ {0}, NEW data \in Seq(Int),
         Len(data) \in UInt(4), NEW len \in Nat,
         Occurs(buf, from, xdr_add_OCTET_STRING(data))
  PROVE  xdr_get_OCTET_STRING(buf, from, len) = IF Len(data) > len THEN <<>> ELSE data
<1> DEFINE n == Len(data)
           a == xdr_add_variantlen(n)
           v == xdr_get_variantlen(buf, from)
<1>1. a \in Seq(Int) /\ Len(a) \in Nat \ {0}
  BY VariantlenTyped
<1>2. xdr_add_OCTET_STRING(data) = a \o data
  BY DEF xdr_add_OCTET_STRING
<1> HIDE DEF a
<1>3. Occurs(buf, from, a) /\ Occurs(buf, from + Len(a), data)
  BY <1>1, <1>2, OccursParts
<1>4. v.len = n /\ v.pos = Len(a)
  BY <1>3, LengthRead DEF a
<1>5. from + Len(a) \in Nat \ {0}
  BY <1>1
<1>6. Bytes(buf, from + Len(a), n) = data
  BY <1>3, <1>5, BytesOut
<1>7. xdr_get_OCTET_STRING(buf, from, len) =
        IF v.len > len THEN <<>> ELSE Bytes(buf, from + v.pos, v.len)
  BY DEF xdr_get_OCTET_STRING
<1> HIDE DEF v
<1> QED
  BY <1>4, <1>6, <1>7

(* A string that is written is one of numbers. *)
LEMMA StringTyped ==
  ASSUME NEW data \in Seq(Int), Len(data) \in UInt(4)
  PROVE  xdr_add_OCTET_STRING(data) \in Seq(Int)
  BY VariantlenTyped DEF xdr_add_OCTET_STRING

(* nPn and id are read from the beginning of a request. *)
LEMMA AddressRead ==
  ASSUME NEW c \in Calls, NEW buf \in Seq(Int), Occurs(buf, 1, Address(c))
  PROVE  /\ xdr_get_uint(Bytes(buf, 1, 2)) = c.pn
         /\ xdr_get_uint(Bytes(buf, 3, 4)) = c.id
<1> DEFINE p == xdr_add_uint(c.pn, 2)
           i == xdr_add_uint(c.id, 4)
<1>1. c.pn \in UInt(2) /\ c.id \in UInt(4)
  BY ServiceAssumption
<1>2. c.pn \in Nat /\ c.id \in Nat
  BY <1>1, BaseFacts DEF UInt
<1>3. p \in Seq(Int) /\ Len(p) = 2 /\ i \in Seq(Int) /\ Len(i) = 4
  BY <1>2, AddUint, OctetsAreNumbers
<1>4. Address(c) = p \o i
  BY DEF Address
<1> HIDE DEF p, i
<1>5. Occurs(buf, 1, p) /\ Occurs(buf, 3, i)
  <2>1. Occurs(buf, 1, p) /\ Occurs(buf, 1 + Len(p), i)
    <3>1. Occurs(buf, 1, p \o i) /\ 1 \in Nat \ {0}
      BY <1>4
    <3> QED
      BY <1>3, <3>1, OccursParts
  <2> QED
    BY <1>3, <2>1
<1> QED
  BY <1>1, <1>5, UintRead DEF p, i

(* The address of a request takes six bytes. *)
LEMMA AddressTyped ==
  ASSUME NEW c \in Calls
  PROVE  Address(c) \in Seq(Int) /\ Len(Address(c)) = 6
<1>1. c.pn \in Nat /\ c.id \in Nat
  BY ServiceAssumption, BaseFacts DEF UInt
<1> DEFINE p == xdr_add_uint(c.pn, 2)
           i == xdr_add_uint(c.id, 4)
<1>2. p \in Seq(Int) /\ Len(p) = 2 /\ i \in Seq(Int) /\ Len(i) = 4
  BY <1>1, AddUint, OctetsAreNumbers
<1>3. Address(c) = p \o i
  BY DEF Address
<1> HIDE DEF p, i
<1>4. p \o i \in Seq(Int) /\ Len(p \o i) = Len(p) + Len(i)
  BY <1>2, Together
<1> QED
  BY <1>2, <1>3, <1>4

(***************************************************************************)
(* The handlers.                                                           *)
(***************************************************************************)

Memory == [0 .. (MemLen - 1) -> Octet]

(* What a call is made of. *)
LEMMA CallFacts ==
  ASSUME NEW c \in Calls
  PROVE  /\ c.op \in {"read", "write"}
         /\ c.op = "read" => c.size \in Nat
         /\ c.op = "write" => c.data \in Seq(Octet) /\ c.data \in Seq(Int) /\ Len(c.data) \in UInt(4)
<1>1. /\ c.op \in {"read", "write"}
      /\ c.op = "read" => c.size \in UInt(4)
      /\ c.op = "write" => c.data \in Seq(Octet) /\ Len(c.data) \in UInt(4)
  BY ServiceAssumption
<1>2. UInt(4) \subseteq Nat
  BY BaseFacts DEF UInt
<1> QED
  BY <1>1, <1>2, OctetsAreNumbers

(* Items lie in the memory, and apart from each other. *)
LEMMA ItemFacts ==
  ASSUME NEW k \in DOMAIN Item
  PROVE  /\ Item[k].start \in Nat /\ Item[k].len \in Nat /\ Item[k].len \in UInt(4)
         /\ Item[k].start + Item[k].len <= MemLen
         /\ \A j \in DOMAIN Item : \/ j = k
                                   \/ Item[j].start + Item[j].len <= Item[k].start
                                   \/ Item[k].start + Item[k].len <= Item[j].start
<1>1. /\ Item[k].start \in Nat /\ Item[k].len \in UInt(4)
      /\ Item[k].start + Item[k].len <= MemLen
  BY ServiceAssumption
<1>2. UInt(4) \subseteq Nat
  BY BaseFacts DEF UInt
<1> QED
  BY <1>1, <1>2, ServiceAssumption

(* The handlers look up what the call names. *)
LEMMA AskedIsCall ==
  ASSUME ServiceTypes, RequestInv, Open
  PROVE  /\ Known(Asked) <=> Known(call)
         /\ ItemOf(Asked) = ItemOf(call)
         /\ msg.iop = call.op
<1>1. call \in Calls /\ call.op \in {"read", "write"}
  BY CallFacts DEF ServiceTypes
<1>2. Address(call) \in Seq(Int) /\ Len(Address(call)) = 6
  BY <1>1, AddressTyped
<1>3. msg = [iop |-> call.op, value |-> IF call.op = "read" THEN Address(call)
                                        ELSE Address(call) \o xdr_add_OCTET_STRING(call.data)]
  BY DEF RequestInv
<1>4. msg.value \in Seq(Int) /\ Occurs(msg.value, 1, Address(call))
  <2>1. CASE call.op = "read"
    <3>1. msg.value = Address(call)
      BY <1>3, <2>1
    <3> QED
      BY <1>2, <3>1, OccursIn
  <2>2. CASE call.op = "write"
    <3>1. msg.value = Address(call) \o xdr_add_OCTET_STRING(call.data)
      BY <1>3, <2>2
    <3>2. xdr_add_OCTET_STRING(call.data) \in Seq(Int)
      BY <1>1, <2>2, CallFacts, StringTyped
    <3> QED
      BY <1>2, <3>1, <3>2, OccursIn, Together
  <2> QED
    BY <1>1, <2>1, <2>2
<1>5. Asked.pn = call.pn /\ Asked.id = call.id
  BY <1>1, <1>4, AddressRead DEF Asked
<1> QED
  BY <1>3, <1>5 DEF Known, ItemOf

(* The data of a write arrive as they were sent, or not at all. *)
LEMMA DataArrive ==
  ASSUME ServiceTypes, RequestInv, Open, call.op = "write"
  PROVE  xdr_get_OCTET_STRING(msg.value, 7, DataBuf) =
           IF Len(call.data) > DataBuf THEN <<>> ELSE call.data
<1> DEFINE d == xdr_add_OCTET_STRING(call.data)
<1>1. /\ call \in Calls /\ call.data \in Seq(Int) /\ Len(call.data) \in UInt(4)
  BY CallFacts DEF ServiceTypes
<1>2. Address(call) \in Seq(Int) /\ Len(Address(call)) = 6 /\ d \in Seq(Int)
  BY <1>1, AddressTyped, StringTyped
<1>3. msg.value = Address(call) \o d
  BY DEF RequestInv
<1> HIDE DEF d
<1>4. msg.value \in Seq(Int) /\ Occurs(msg.value, Len(Address(call)) + 1, d)
  BY <1>2, <1>3, OccursIn, Together
<1>5. Occurs(msg.value, 7, d) /\ 7 \in Nat \ {0} /\ DataBuf \in Nat
  BY <1>2, <1>4, BaseFacts
<1> DEFINE b == msg.value
           x == call.data
<1>6. /\ b \in Seq(Int) /\ x \in Seq(Int) /\ Len(x) \in UInt(4)
      /\ Occurs(b, 7, xdr_add_OCTET_STRING(x))
  BY <1>1, <1>4, <1>5 DEF d
<1> HIDE DEF b, x
<1>7. xdr_get_OCTET_STRING(b, 7, DataBuf) = IF Len(x) > DataBuf THEN <<>> ELSE x
  BY <1>5, <1>6, StringRead
<1> QED
  BY <1>7 DEF b, x

(* smallcpy changes the bytes it is given and no others. *)
LEMMA CopyIn ==
  ASSUME mem \in Memory, NEW item, item.start \in Nat, NEW data \in Seq(Octet),
         mem' = MemWith(item, data)
  PROVE  /\ mem' \in Memory
         /\ \A x \in 0 .. (MemLen - 1) :
              /\ x < item.start => mem'[x] = mem[x]
              /\ x >= item.start + Len(data) => mem'[x] = mem[x]
         /\ \A i \in 1 .. Len(data) :
              item.start + i - 1 < MemLen => mem'[item.start + i - 1] = data[i]
<1>0. Len(data) \in Nat /\ DOMAIN mem = 0 .. (MemLen - 1) /\ MemLen \in Nat
  BY BaseFacts DEF Memory
<1>1. mem' = [x \in 0 .. (MemLen - 1) |-> IF x - item.start \in 0 .. (Len(data) - 1)
                                          THEN data[x - item.start + 1] ELSE mem[x]]
  BY <1>0 DEF MemWith
<1>2. ASSUME NEW x \in 0 .. (MemLen - 1)
      PROVE  /\ mem'[x] \in Octet
             /\ x < item.start => mem'[x] = mem[x]
             /\ x >= item.start + Len(data) => mem'[x] = mem[x]
  <2>1. mem'[x] = IF x - item.start \in 0 .. (Len(data) - 1)
                  THEN data[x - item.start + 1] ELSE mem[x]
    BY <1>1
  <2>2. x - item.start \in 0 .. (Len(data) - 1) =>
          x - item.start + 1 \in 1 .. Len(data) /\ ~(x < item.start) /\ ~(x >= item.start + Len(data))
    BY <1>0
  <2>3. x - item.start \in 0 .. (Len(data) - 1) => data[x - item.start + 1] \in Octet
    BY <2>2
  <2>4. mem[x] \in Octet
    BY DEF Memory
  <2> QED
    BY <2>1, <2>2, <2>3, <2>4
<1>3. ASSUME NEW i \in 1 .. Len(data), item.start + i - 1 < MemLen
      PROVE  mem'[item.start + i - 1] = data[i]
  <2> DEFINE x == item.start + i - 1
  <2>1. x \in 0 .. (MemLen - 1) /\ x - item.start \in 0 .. (Len(data) - 1) /\ x - item.start + 1 = i
    BY <1>0, <1>3
  <2> HIDE DEF x
  <2>2. mem'[x] = data[x - item.start + 1]
    BY <1>1, <2>1
  <2> QED
    BY <2>1, <2>2 DEF x
<1>4. mem' \in Memory
  BY <1>1, <1>2 DEF Memory
<1> QED
  BY <1>2, <1>3, <1>4

Meanings == {f \in [DOMAIN Item -> Seq(Octet)] : \A k \in DOMAIN Item : Len(f[k]) = Item[k].len}

(* What an item should hold after a write is its bytes, the first replaced. *)
LEMMA MeantNext ==
  ASSUME meant \in Meanings, NEW k \in DOMAIN Item, NEW data \in Seq(Octet),
         meant' = MeantWith(k, data)
  PROVE  /\ meant' \in Meanings
         /\ \A j \in DOMAIN Item : j # k => meant'[j] = meant[j]
         /\ \A i \in 1 .. Item[k].len :
              meant'[k][i] = IF i <= Len(data) THEN data[i] ELSE meant[k][i]
<1> DEFINE n == Item[k].len
           f == [i \in DOMAIN meant[k] |-> IF i <= Len(data) THEN data[i] ELSE meant[k][i]]
<1>1. n \in Nat /\ meant[k] \in Seq(Octet) /\ Len(meant[k]) = n /\ DOMAIN meant[k] = 1 .. n
  BY ItemFacts DEF Meanings
<1>2. \A i \in 1 .. n : (IF i <= Len(data) THEN data[i] ELSE meant[k][i]) \in Octet
  BY <1>1
<1>3. f \in [1 .. n -> Octet]
  BY <1>1, <1>2
<1>4. f \in Seq(Octet) /\ Len(f) = n
  BY <1>1, <1>3
<1>5. meant' = [meant EXCEPT ![k] = f]
  BY DEF MeantWith
<1>6. \A i \in 1 .. n : f[i] = IF i <= Len(data) THEN data[i] ELSE meant[k][i]
  BY <1>1
<1> HIDE DEF f, n
<1>7. meant \in [DOMAIN Item -> Seq(Octet)] /\ \A j \in DOMAIN Item : Len(meant[j]) = Item[j].len
  BY DEF Meanings
<1>8. meant'[k] = f /\ \A j \in DOMAIN Item : j # k => meant'[j] = meant[j]
  BY <1>5, <1>7
<1>9. meant' \in [DOMAIN Item -> Seq(Octet)]
  BY <1>4, <1>5, <1>7
<1>10. \A j \in DOMAIN Item : Len(meant'[j]) = Item[j].len
  BY <1>4, <1>7, <1>8 DEF n
<1> QED
  BY <1>6, <1>8, <1>9, <1>10 DEF Meanings, n

(* An item holds what it should. *)
Right(k) == \A i \in 1 .. Item[k].len : mem[Item[k].start + i - 1] = meant[k][i]

(* It is the same to compare byte by byte. *)
LEMMA RightItem ==
  ASSUME meant \in Meanings, NEW k \in DOMAIN Item
  PROVE  Right(k) <=> MemAt(Item[k], Item[k].len) = meant[k]
<1>1. Item[k].len \in Nat /\ meant[k] \in Seq(Octet) /\ Len(meant[k]) = Item[k].len
  BY ItemFacts DEF Meanings
<1>2. meant[k] = [i \in 1 .. Item[k].len |-> meant[k][i]]
  BY <1>1
<1>3. MemAt(Item[k], Item[k].len) = [i \in 1 .. Item[k].len |-> mem[Item[k].start + i - 1]]
  BY DEF MemAt
<1> QED
  BY <1>2, <1>3 DEF Right

(* The same after a step. *)
LEMMA RightNext ==
  ASSUME meant' \in Meanings, NEW k \in DOMAIN Item
  PROVE  Right(k)' <=> MemAt(Item[k], Item[k].len)' = meant'[k]
<1>1. Item[k].len \in Nat /\ meant'[k] \in Seq(Octet) /\ Len(meant'[k]) = Item[k].len
  BY ItemFacts DEF Meanings
<1>2. meant'[k] = [i \in 1 .. Item[k].len |-> meant'[k][i]]
  BY <1>1
<1>3. MemAt(Item[k], Item[k].len)' = [i \in 1 .. Item[k].len |-> mem'[Item[k].start + i - 1]]
  BY DEF MemAt
<1> QED
  BY <1>2, <1>3 DEF Right

(* A write that is not longer than its item leaves every item as it should. *)
LEMMA WriteKeeps ==
  ASSUME mem \in Memory, meant \in Meanings, NEW k \in DOMAIN Item, NEW data \in Seq(Octet),
         Len(data) <= Item[k].len, mem' = MemWith(Item[k], data), meant' = MeantWith(k, data),
         NEW j \in DOMAIN Item, Right(j)
  PROVE  Right(j)'
<1>1. /\ Item[k].start \in Nat /\ Item[k].len \in Nat /\ Item[k].start + Item[k].len <= MemLen
      /\ Item[j].start \in Nat /\ Item[j].len \in Nat /\ Item[j].start + Item[j].len <= MemLen
      /\ \/ j = k
         \/ Item[j].start + Item[j].len <= Item[k].start
         \/ Item[k].start + Item[k].len <= Item[j].start
      /\ Len(data) \in Nat /\ MemLen \in Nat
  BY ItemFacts, BaseFacts
<1>2. /\ \A x \in 0 .. (MemLen - 1) :
           /\ x < Item[k].start => mem'[x] = mem[x]
           /\ x >= Item[k].start + Len(data) => mem'[x] = mem[x]
      /\ \A i \in 1 .. Len(data) :
           Item[k].start + i - 1 < MemLen => mem'[Item[k].start + i - 1] = data[i]
  BY <1>1, CopyIn
<1>3. /\ j # k => meant'[j] = meant[j]
      /\ \A i \in 1 .. Item[k].len :
           meant'[k][i] = IF i <= Len(data) THEN data[i] ELSE meant[k][i]
  BY MeantNext
<1> SUFFICES ASSUME NEW i \in 1 .. Item[j].len
             PROVE  mem'[Item[j].start + i - 1] = meant'[j][i]
  BY DEF Right
<1> DEFINE x == Item[j].start + i - 1
<1>4. x \in 0 .. (MemLen - 1) /\ mem[x] = meant[j][i]
  BY <1>1 DEF Right
<1>5. CASE j # k
  <2>1. x < Item[k].start \/ x >= Item[k].start + Len(data)
    BY <1>1, <1>5
  <2> HIDE DEF x
  <2>2. mem'[x] = mem[x] /\ meant'[j] = meant[j]
    BY <1>2, <1>3, <1>4, <1>5, <2>1
  <2> QED
    BY <1>4, <2>2 DEF x
<1>6. CASE j = k /\ i <= Len(data)
  <2>1. i \in 1 .. Len(data) /\ x < MemLen
    BY <1>1, <1>4, <1>6
  <2>2. mem'[x] = data[i] /\ meant'[k][i] = data[i]
    BY <1>2, <1>3, <1>6, <2>1
  <2> QED
    BY <1>6, <2>2
<1>7. CASE j = k /\ ~(i <= Len(data))
  <2>1. x >= Item[k].start + Len(data)
    BY <1>1, <1>7
  <2> HIDE DEF x
  <2>2. mem'[x] = mem[x] /\ meant'[k][i] = meant[k][i]
    BY <1>2, <1>3, <1>4, <1>7, <2>1
  <2> QED
    BY <1>4, <1>7, <2>2 DEF x
<1> QED
  BY <1>5, <1>6, <1>7

(***************************************************************************)
(* The steps.                                                              *)
(***************************************************************************)

(* A step that writes nothing leaves the items as they should be. *)
LEMMA NothingWritten ==
  ASSUME UNCHANGED <<mem, overrun, meant>>, ItemsKept
  PROVE  ItemsKept'
  BY DEF ItemsKept, MemAt

(* What a call has written stays while neither it nor the memory changes. *)
LEMMA StillHolds ==
  ASSUME UNCHANGED <<mem, call>>
  PROVE  /\ Holds(call)' <=> Holds(call)
         /\ Known(call)' <=> Known(call)
  BY DEF Holds, ItemOf, Known

(* The invariant is one of the initial states. *)
LEMMA ServiceStart == Init => ServiceInv
<1> SUFFICES ASSUME Init PROVE ServiceInv
  OBVIOUS
<1>1. 0 \in Octet
  BY BaseFacts DEF Octet
<1>2. mem \in [0 .. (MemLen - 1) -> Octet]
  BY <1>1 DEF Init
<1>3. ASSUME NEW k \in DOMAIN Item
      PROVE  /\ meant[k] \in Seq(Octet) /\ Len(meant[k]) = Item[k].len
             /\ MemAt(Item[k], Item[k].len) = meant[k]
  <2>1. /\ Item[k].start \in Nat /\ Item[k].len \in Nat
        /\ Item[k].start + Item[k].len <= MemLen /\ MemLen \in Nat
    BY ItemFacts, BaseFacts
  <2>2. meant[k] = [i \in 1 .. Item[k].len |-> 0]
    BY DEF Init
  <2>3. \A i \in 1 .. Item[k].len : Item[k].start + i - 1 \in 0 .. (MemLen - 1)
    BY <2>1
  <2>4. \A i \in 1 .. Item[k].len : mem[Item[k].start + i - 1] = 0
    BY <2>3 DEF Init
  <2>5. meant[k] \in [1 .. Item[k].len -> Octet]
    BY <1>1, <2>2
  <2>6. meant[k] \in Seq(Octet) /\ Len(meant[k]) = Item[k].len
    BY <2>1, <2>5
  <2> QED
    BY <2>2, <2>4, <2>6 DEF MemAt
<1>4. meant \in [DOMAIN Item -> Seq(Octet)]
  BY <1>3 DEF Init
<1>5. ServiceTypes
  BY <1>2, <1>3, <1>4 DEF ServiceTypes, Init
<1>6. RequestInv /\ AnswerInv /\ ReadIsItem /\ WrittenInv
  BY DEF Init, RequestInv, AnswerInv, ReadIsItem, WrittenInv, WriteIsKept, Returned, Open
<1>7. ItemsKept
  BY <1>3 DEF ItemsKept
<1> QED
  BY <1>5, <1>6, <1>7 DEF ServiceInv, Init

(* A call that is sent is the one that is under way. *)
LEMMA SendStep ==
  ASSUME ServiceInv, NEW c \in Calls, SendRead(c) \/ SendWrite(c)
  PROVE  ServiceInv'
<1>1. /\ pc' = "sent" /\ call' = c /\ ret' = -1 /\ out' = <<>>
      /\ UNCHANGED <<mem, alive, overrun, heap, meant>>
  BY DEF SendRead, SendWrite, Send
<1>2. msg' = [iop   |-> c.op,
              value |-> IF c.op = "read" THEN Address(c)
                        ELSE Address(c) \o xdr_add_OCTET_STRING(c.data)]
  <2>1. CASE SendRead(c)
    BY <2>1 DEF SendRead, Send
  <2>2. CASE SendWrite(c)
    <3>1. /\ c.op = "write"
          /\ msg' = [iop |-> "write", value |-> Address(c) \o xdr_add_OCTET_STRING(c.data)]
      BY <2>2 DEF SendWrite, Send
    <3> QED
      BY <3>1
  <2> QED
    BY <2>1, <2>2
<1>3. ServiceTypes'
  BY <1>1 DEF ServiceInv, ServiceTypes
<1>4. RequestInv'
  BY <1>1, <1>2 DEF RequestInv
<1>5. AnswerInv' /\ ReadIsItem' /\ WrittenInv'
  BY <1>1 DEF AnswerInv, ReadIsItem, WrittenInv, WriteIsKept, Returned
<1>6. ItemsKept'
  BY <1>1, NothingWritten DEF ServiceInv
<1> QED
  BY <1>1, <1>3, <1>4, <1>5, <1>6 DEF ServiceInv

(* The answer to a read is made of the item as it is. *)
LEMMA ReadStep ==
  ASSUME ServiceInv, read_mem_data
  PROVE  ServiceInv'
<1>1. /\ pc = "sent" /\ msg.iop = "read"
      /\ UNCHANGED <<mem, call, msg, ret, out, overrun, heap, meant>>
      /\ alive' \in BOOLEAN /\ pc' \in {"sent", "answered"}
  BY DEF read_mem_data, el_msg_echo, Answer, Die, ServiceInv, ServiceTypes
<1>2. ServiceTypes /\ RequestInv /\ Open
  BY <1>1 DEF ServiceInv, Open
<1>3. /\ Known(Asked) <=> Known(call)
      /\ ItemOf(Asked) = ItemOf(call)
      /\ call.op = "read"
  BY <1>1, <1>2, AskedIsCall
<1>4. ServiceTypes'
  BY <1>1, <1>2 DEF ServiceTypes
<1>5. RequestInv'
  BY <1>1, <1>2 DEF RequestInv, Open
<1>6. ReadIsItem' /\ WrittenInv'
  BY <1>1, <1>3 DEF ReadIsItem, WrittenInv, WriteIsKept, Returned
<1>7. ItemsKept'
  BY <1>1, NothingWritten DEF ServiceInv
<1>8. AnswerInv'
  <2>1. CASE pc' = "sent"
    BY <2>1 DEF AnswerInv
  <2>2. CASE Known(Asked) /\ pc' # "sent"
    <3> DEFINE it == ItemOf(call)
    <3>1. PICK junk \in Stack : Answer(IF it.len > 0 THEN 0 ELSE 1, Copied(it, junk))
      BY <1>1, <1>3, <2>2 DEF read_mem_data, el_msg_echo, Die
    <3>2. held' = MemAt(it, it.len)
      BY <1>3, <2>2 DEF read_mem_data
    <3>3. /\ it.start \in Nat /\ it.len \in Nat /\ it.start + it.len <= MemLen /\ MemLen \in Nat
      BY <1>3, <2>2, ItemFacts, BaseFacts DEF ItemOf, Known
    <3>4. /\ ack' = [errNo |-> IF it.len > 0 THEN 0 ELSE 1,
                     value |-> xdr_add_OCTET_STRING(Copied(it, junk))]
      BY <3>1 DEF Answer
    <3>5. ItemOf(call)' = it /\ Known(call)'
      BY <1>1, <1>3, <2>2 DEF ItemOf, Known
    <3> HIDE DEF it
    <3>6. \A i \in 1 .. it.len : held'[i] = mem[it.start + i - 1]
      BY <3>2 DEF MemAt
    <3>7. held' \in [1 .. it.len -> Octet]
      <4>1. \A i \in 1 .. it.len : it.start + i - 1 \in 0 .. (MemLen - 1)
        BY <3>3
      <4>2. \A i \in 1 .. it.len : mem[it.start + i - 1] \in Octet
        BY <1>2, <4>1 DEF ServiceTypes
      <4> QED
        BY <3>2, <4>2 DEF MemAt
    <3>8. Copied(it, junk) = [i \in 1 .. it.len |-> IF i <= DataBuf THEN held'[i] ELSE junk]
      BY <3>6 DEF Copied
    <3>9. ack'.errNo = (IF it.len > 0 THEN 0 ELSE 1)
      BY <3>4
    <3>10. ack'.value = xdr_add_OCTET_STRING(
                          [i \in 1 .. it.len |-> IF i <= DataBuf THEN held'[i] ELSE junk])
      BY <3>4, <3>8
    <3> QED
      BY <3>1, <3>5, <3>7, <3>9, <3>10 DEF AnswerInv
  <2>3. Known(Asked) \/ pc' = "sent"
    BY <1>1 DEF read_mem_data, Die
  <2> QED
    BY <2>1, <2>2, <2>3
<1> QED
  BY <1>1, <1>4, <1>5, <1>6, <1>7, <1>8 DEF ServiceInv

(* A write puts its data into the item that the call names. *)
LEMMA WriteStep ==
  ASSUME ServiceInv, write_mem_data
  PROVE  ServiceInv'
<1> DEFINE it == ItemOf(call)
           k  == <<call.pn, call.id>>
           d  == call.data
           a  == xdr_get_OCTET_STRING(msg.value, 7, DataBuf)
<1>1. /\ pc = "sent" /\ msg.iop = "write" /\ UNCHANGED <<call, msg, ret, out, held>>
      /\ alive' \in BOOLEAN /\ pc' \in {"sent", "answered"}
  BY DEF write_mem_data, el_msg_echo, Answer, Die, ServiceInv, ServiceTypes
<1>2. ServiceTypes /\ RequestInv /\ Open /\ ItemsKept
  BY <1>1 DEF ServiceInv, Open
<1>3. /\ Known(Asked) <=> Known(call)
      /\ ItemOf(Asked) = it
      /\ call.op = "write"
  BY <1>1, <1>2, AskedIsCall
<1>4. RequestInv'
  BY <1>1, <1>2 DEF RequestInv, Open
<1>5. AnswerInv' /\ ReadIsItem' /\ WriteIsKept'
  BY <1>1, <1>3 DEF AnswerInv, ReadIsItem, WriteIsKept, Returned
<1>6. mem \in Memory /\ meant \in Meanings /\ overrun \in BOOLEAN
  BY <1>2 DEF ServiceTypes, Memory, Meanings
<1>7. d \in Seq(Octet) /\ Len(d) \in Nat /\ DataBuf \in Nat
  BY <1>2, <1>3, CallFacts, BaseFacts DEF ServiceTypes
<1>8. a = IF Len(d) > DataBuf THEN <<>> ELSE d
  BY <1>2, <1>3, DataArrive
<1>9. CASE ~Known(call)
  <2>1. pc' = "sent" /\ UNCHANGED <<mem, overrun, heap, meant>>
    BY <1>1, <1>3, <1>9 DEF write_mem_data, Die
  <2>2. ServiceTypes'
    BY <1>1, <1>2, <2>1 DEF ServiceTypes
  <2>3. ItemsKept'
    BY <1>2, <2>1, NothingWritten
  <2>4. WrittenInv'
    BY <1>5, <2>1 DEF WrittenInv
  <2> QED
    BY <1>4, <1>5, <2>1, <2>2, <2>3, <2>4 DEF ServiceInv
<1>10. CASE Known(call)
  <2>1. k \in DOMAIN Item /\ it = Item[k]
    BY <1>10 DEF Known, ItemOf
  <2>2. it.start \in Nat /\ it.len \in Nat /\ it.start + it.len <= MemLen /\ MemLen \in Nat
    BY <2>1, ItemFacts, BaseFacts
  <2>3. mem' = MemWith(it, a) /\ heap' = (heap \/ it.start + Len(a) > MemLen)
    BY <1>3, <1>10 DEF write_mem_data
  <2>4. IF Len(d) <= DataBuf
        THEN /\ meant' = MeantWith(k, d)
             /\ overrun' = (overrun \/ Len(d) > it.len)
        ELSE UNCHANGED <<meant, overrun>>
    BY <1>3, <1>10 DEF write_mem_data
  <2>5. Known(call)' /\ ItemOf(call)' = it
    BY <1>1, <1>10 DEF Known, ItemOf
  <2> HIDE DEF a, d, k, it
  <2>6. heap \in BOOLEAN /\ overrun \in BOOLEAN /\ (heap => overrun)
    BY <1>2 DEF ServiceTypes, ServiceInv
  <2>7. heap' \in BOOLEAN
    BY <2>3
  <2>8. CASE Len(d) <= DataBuf
    <3>1. a = d /\ mem' = MemWith(it, d) /\ meant' = MeantWith(k, d)
      BY <1>7, <1>8, <2>3, <2>4, <2>8
    <3>2. /\ mem' \in Memory
          /\ \A i \in 1 .. Len(d) : it.start + i - 1 < MemLen => mem'[it.start + i - 1] = d[i]
      BY <1>6, <1>7, <2>2, <3>1, CopyIn
    <3>3. meant' \in Meanings
      BY <1>6, <1>7, <2>1, <3>1, MeantNext
    <3>4. overrun' \in BOOLEAN
      BY <2>4, <2>8
    <3>5. ServiceTypes'
      BY <1>1, <1>2, <2>7, <3>2, <3>3, <3>4 DEF ServiceTypes, Memory, Meanings
    <3>6. ItemsKept'
      <4> SUFFICES ASSUME ~overrun', NEW j \in DOMAIN Item
                   PROVE  MemAt(Item[j], Item[j].len)' = meant'[j]
        BY DEF ItemsKept
      <4>1. ~overrun /\ Len(d) <= Item[k].len
        <5>1. overrun' = (overrun \/ Len(d) > it.len)
          BY <2>4, <2>8
        <5>2. ~overrun /\ ~(Len(d) > it.len)
          BY <5>1, Zenon
        <5> QED
          BY <1>7, <2>1, <2>2, <5>2
      <4>2. Right(j)
        BY <1>2, <1>6, <4>1, RightItem DEF ItemsKept
      <4>3. Right(j)'
        BY <1>6, <1>7, <2>1, <3>1, <4>1, <4>2, WriteKeeps
      <4> QED
        BY <3>3, <4>3, RightNext
    <3>7. Holds(call)'
      BY <1>1, <2>5, <3>2 DEF Holds, d
    <3>8. WrittenInv'
      BY <1>5, <2>5, <3>7 DEF WrittenInv
    <3>9. heap' => overrun'
      <4>1. it.start + Len(d) > MemLen => Len(d) > it.len
        BY <1>7, <2>2
      <4>2. overrun' = (overrun \/ Len(d) > it.len)
        BY <2>4, <2>8
      <4> QED
        BY <2>3, <2>6, <3>1, <4>1, <4>2, Zenon
    <3> QED
      BY <1>4, <1>5, <3>5, <3>6, <3>8, <3>9 DEF ServiceInv
  <2>9. CASE ~(Len(d) <= DataBuf)
    <3>1. a = <<>> /\ UNCHANGED <<meant, overrun>>
      BY <1>7, <1>8, <2>4, <2>9
    <3>2. a \in Seq(Octet) /\ Len(a) = 0
      BY <3>1
    <3>3. /\ mem' \in Memory
          /\ \A x \in 0 .. (MemLen - 1) :
               /\ x < it.start => mem'[x] = mem[x]
               /\ x >= it.start + Len(a) => mem'[x] = mem[x]
      BY <1>6, <2>2, <2>3, <3>2, CopyIn
    <3>4. \A x \in 0 .. (MemLen - 1) : mem'[x] = mem[x]
      BY <2>2, <3>2, <3>3, BaseFacts
    <3>5. UNCHANGED mem
      <4>1. /\ mem  = [x \in 0 .. (MemLen - 1) |-> mem[x]]
            /\ mem' = [x \in 0 .. (MemLen - 1) |-> mem'[x]]
        BY <1>6, <3>3 DEF Memory
      <4>2. [x \in 0 .. (MemLen - 1) |-> mem'[x]] = [x \in 0 .. (MemLen - 1) |-> mem[x]]
        BY <3>4
      <4> QED
        BY <4>1, <4>2
    <3>6. ServiceTypes'
      BY <1>1, <1>2, <2>7, <3>1, <3>5 DEF ServiceTypes
    <3>7. ItemsKept'
      BY <1>2, <3>1, <3>5, NothingWritten
    <3>8. WrittenInv'
      BY <1>1, <1>5, <2>5, <2>9 DEF WrittenInv, d
    <3>9. heap' => overrun'
      <4>1. ~(it.start + Len(a) > MemLen)
        BY <2>2, <3>2
      <4> QED
        BY <2>3, <2>6, <3>1, <4>1, Zenon
    <3> QED
      BY <1>4, <1>5, <3>6, <3>7, <3>8, <3>9 DEF ServiceInv
  <2> QED
    BY <2>8, <2>9
<1> QED
  BY <1>9, <1>10

(* main writes the whole of an item, and none that elAPP writes. *)
LEMMA MainStep ==
  ASSUME ServiceInv, NEW w \in MainWrites, MainWrite(w)
  PROVE  ServiceInv'
<1> DEFINE it == ItemOf(w)
           k  == <<w.pn, w.id>>
           d  == w.data
<1>1. /\ UNCHANGED <<alive, pc, call, msg, ack, ret, out, overrun, heap, held>>
      /\ mem' = MemWith(it, d) /\ meant' = MeantWith(k, d)
  BY DEF MainWrite
<1>2. ServiceTypes /\ ItemsKept /\ RequestInv /\ AnswerInv /\ ReadIsItem
  BY DEF ServiceInv
<1>3. mem \in Memory /\ meant \in Meanings
  BY <1>2 DEF ServiceTypes, Memory, Meanings
<1>4. k \in DOMAIN Item /\ it = Item[k] /\ d \in Seq(Octet) /\ Len(d) = Item[k].len
  BY ServiceAssumption DEF ItemOf
<1>5. it.start \in Nat /\ it.len \in Nat /\ MemLen \in Nat
  BY <1>4, ItemFacts, BaseFacts
<1>6. RequestInv' /\ AnswerInv' /\ ReadIsItem'
  BY <1>1, <1>2 DEF RequestInv, AnswerInv, ReadIsItem, Open, Returned, Known, ItemOf
<1> HIDE DEF it, k, d
<1>7. /\ mem' \in Memory
      /\ \A x \in 0 .. (MemLen - 1) :
           /\ x < it.start => mem'[x] = mem[x]
           /\ x >= it.start + Len(d) => mem'[x] = mem[x]
  BY <1>1, <1>3, <1>4, <1>5, CopyIn
<1>8. meant' \in Meanings
  BY <1>1, <1>3, <1>4, MeantNext
<1>9. ServiceTypes'
  BY <1>1, <1>2, <1>7, <1>8 DEF ServiceTypes, Memory, Meanings
<1>10. ItemsKept'
  <2> SUFFICES ASSUME ~overrun', NEW j \in DOMAIN Item
               PROVE  MemAt(Item[j], Item[j].len)' = meant'[j]
    BY DEF ItemsKept
  <2>1. Right(j)
    BY <1>1, <1>2, <1>3, RightItem DEF ItemsKept
  <2>2. mem' = MemWith(Item[k], d) /\ Len(d) <= Item[k].len
    BY <1>1, <1>4, <1>5
  <2>3. Right(j)'
    BY <1>1, <1>3, <1>4, <2>1, <2>2, WriteKeeps
  <2> QED
    BY <1>8, <2>3, RightNext
<1>11. ASSUME MainApart, WrittenInv PROVE WrittenInv'
  <2>1. Known(call)' <=> Known(call)
    BY <1>1 DEF Known
  <2>2. ASSUME call.op = "write", Known(call), Len(call.data) <= DataBuf, Holds(call)
        PROVE  Holds(call)'
    <3>0. call \in Calls /\ Len(call.data) \in Nat
      BY <1>2, <2>2, CallFacts DEF ServiceTypes
    <3> DEFINE t == ItemOf(call)
    <3>1. t.start + Len(call.data) <= it.start \/ it.start + it.len <= t.start
      BY <1>11, <2>2, <3>0 DEF MainApart, it
    <3>2. t.start \in Nat
      BY <2>2, ItemFacts DEF Known, ItemOf
    <3>3. ItemOf(call)' = t
      BY <1>1 DEF ItemOf
    <3> HIDE DEF t
    <3>4. ASSUME NEW i \in 1 .. Len(call.data), t.start + i - 1 < MemLen
          PROVE  mem'[t.start + i - 1] = call.data[i]
      <4> DEFINE x == t.start + i - 1
      <4>1. x \in 0 .. (MemLen - 1) /\ (x < it.start \/ x >= it.start + Len(d))
        BY <1>4, <1>5, <3>0, <3>1, <3>2, <3>4
      <4>2. mem[x] = call.data[i]
        BY <2>2, <3>4 DEF Holds, t
      <4> HIDE DEF x
      <4>3. mem'[x] = mem[x]
        BY <1>7, <4>1
      <4> QED
        BY <4>2, <4>3 DEF x
    <3> QED
      BY <1>1, <3>3, <3>4 DEF Holds
  <2>3. UNCHANGED <<pc, call, ret>>
    BY <1>1
  <2>4. pc = "answered" /\ call.op = "write" => Known(call)
    BY <1>11 DEF WrittenInv
  <2>5. pc = "answered" /\ call.op = "write" /\ Len(call.data) <= DataBuf => Holds(call)'
    BY <1>11, <2>2, <2>4 DEF WrittenInv
  <2>6. Returned("write") /\ Len(call.data) <= DataBuf => Known(call) /\ Holds(call)'
    BY <1>11, <2>2 DEF WrittenInv, WriteIsKept, Returned
  <2>7. WriteIsKept'
    BY <2>1, <2>3, <2>6 DEF WriteIsKept, Returned
  <2> QED
    BY <2>1, <2>3, <2>4, <2>5, <2>7 DEF WrittenInv
<1> QED
  BY <1>1, <1>6, <1>9, <1>10, <1>11 DEF ServiceInv, MainApart

(* What a read returns is what its answer carries. *)
LEMMA ReadReturnStep ==
  ASSUME ServiceInv, ReadReturn
  PROVE  ServiceInv'
<1> DEFINE it == ItemOf(call)
           z  == call.size
<1>1. /\ pc = "answered" /\ call.op = "read" /\ pc' = "done"
      /\ out' = IF ack.errNo = 0 THEN xdr_get_OCTET_STRING(ack.value, 1, z) ELSE out
      /\ ret' = Len(out')
      /\ UNCHANGED <<mem, alive, call, msg, ack, overrun, heap, held, meant>>
  BY DEF ReadReturn
<1>2. ServiceTypes /\ RequestInv /\ AnswerInv /\ ItemsKept
  BY DEF ServiceInv
<1>3. ServiceTypes'
  BY <1>1, <1>2 DEF ServiceTypes
<1>4. RequestInv' /\ AnswerInv'
  BY <1>1 DEF RequestInv, AnswerInv, Open
<1>5. ItemsKept'
  BY <1>1, <1>2, NothingWritten
<1>6. WrittenInv'
  BY <1>1 DEF WrittenInv, WriteIsKept, Returned
<1>7. ReadIsItem'
  <2>1. /\ Known(call) /\ held \in [1 .. it.len -> Octet]
        /\ ack.errNo = (IF it.len > 0 THEN 0 ELSE 1)
    BY <1>1, <1>2 DEF AnswerInv
  <2>2. PICK junk \in Stack :
          ack.value = xdr_add_OCTET_STRING(
                        [i \in 1 .. it.len |-> IF i <= DataBuf THEN held[i] ELSE junk])
    BY <1>1, <1>2 DEF AnswerInv
  <2> DEFINE s == [i \in 1 .. it.len |-> IF i <= DataBuf THEN held[i] ELSE junk]
             v == ack.value
  <2>3. it.len \in Nat /\ it.len \in UInt(4) /\ z \in Nat
    <3>1. call \in Calls
      BY <1>2 DEF ServiceTypes
    <3>2. z \in Nat
      BY <1>1, <3>1, CallFacts
    <3> QED
      BY <2>1, <3>2, ItemFacts DEF Known, ItemOf
  <2>4. Known(call)' /\ ItemOf(call)' = it /\ call' = call
    BY <1>1, <2>1 DEF Known, ItemOf
  <2>5. out = <<>>
    BY <1>1, <1>2 DEF RequestInv, Open
  <2> HIDE DEF it, z
  <2>6. s \in Seq(Octet) /\ Len(s) = it.len
    <3>1. Stack \subseteq Octet
      BY ServiceAssumption
    <3>2. \A i \in 1 .. it.len : (IF i <= DataBuf THEN held[i] ELSE junk) \in Octet
      BY <2>1, <3>1
    <3>3. s \in [1 .. it.len -> Octet]
      BY <3>2
    <3> QED
      BY <2>3, <3>3
  <2>7. s \in Seq(Int)
    <3> HIDE DEF s
    <3> QED
      BY <2>6, OctetsAreNumbers
  <2>8. \A i \in 1 .. it.len : i <= DataBuf => s[i] = held[i]
    OBVIOUS
  <2>9. v = xdr_add_OCTET_STRING(s)
    BY <2>2
  <2> HIDE DEF s, v
  <2>10. v \in Seq(Int) /\ Occurs(v, 1, xdr_add_OCTET_STRING(s))
    <3>1. xdr_add_OCTET_STRING(s) \in Seq(Int)
      BY <2>3, <2>6, <2>7, StringTyped
    <3> QED
      BY <2>9, <3>1, OccursIn
  <2>11. xdr_get_OCTET_STRING(v, 1, z) = IF it.len > z THEN <<>> ELSE s
    <3>1. Len(s) \in UInt(4) /\ 1 \in Nat \ {0}
      BY <2>3, <2>6
    <3>2. xdr_get_OCTET_STRING(v, 1, z) = IF Len(s) > z THEN <<>> ELSE s
      BY <2>3, <2>7, <2>10, <3>1, StringRead
    <3> QED
      BY <2>6, <3>2
  <2>12. /\ ret' = IF it.len <= z THEN it.len ELSE 0
         /\ \A i \in 1 .. ret' : i <= DataBuf => out'[i] = held[i]
    <3>1. CASE it.len = 0
      <4>1. out' = <<>>
        BY <1>1, <2>1, <2>5, <3>1
      <4> QED
        BY <1>1, <2>3, <3>1, <4>1
    <3>2. CASE it.len > 0
      <4>1. out' = IF it.len > z THEN <<>> ELSE s
        BY <1>1, <2>1, <2>11, <3>2 DEF v
      <4> QED
        BY <1>1, <2>3, <2>6, <2>8, <4>1
    <3> QED
      BY <2>3, <3>1, <3>2
  <2> QED
    BY <1>1, <2>4, <2>12 DEF ReadIsItem, z
<1> QED
  BY <1>1, <1>3, <1>4, <1>5, <1>6, <1>7 DEF ServiceInv

(* Every step keeps the invariant. *)
LEMMA ServiceStep == ServiceInv /\ [Next]_vars => ServiceInv'
<1> SUFFICES ASSUME ServiceInv, [Next]_vars PROVE ServiceInv'
  OBVIOUS
<1>1. CASE \E c \in Calls : SendRead(c) \/ SendWrite(c)
  BY <1>1, SendStep
<1>2. CASE read_mem_data
  BY <1>2, ReadStep
<1>3. CASE write_mem_data
  BY <1>3, WriteStep
<1>4. CASE \E w \in MainWrites : MainWrite(w)
  BY <1>4, MainStep
<1>5. CASE ReadReturn
  BY <1>5, ReadReturnStep
<1>6. ASSUME /\ UNCHANGED <<mem, call, msg, ack, out, overrun, heap, held, meant>>
             /\ alive' \in BOOLEAN
             /\ \/ pc = "answered" /\ call.op = "write" /\ pc' = "done"
                \/ pc \in {"sent", "answered"} /\ pc' = "done" /\ ret' = ret
                \/ pc' = pc /\ ret' = ret
      PROVE  ServiceInv'
  <2>1. ServiceTypes /\ RequestInv /\ AnswerInv /\ ReadIsItem /\ ItemsKept
    BY DEF ServiceInv
  <2>2. ServiceTypes'
    BY <1>6, <2>1 DEF ServiceTypes
  <2>3. RequestInv'
    BY <1>6, <2>1 DEF RequestInv, Open
  <2>4. AnswerInv'
    BY <1>6, <2>1 DEF AnswerInv, Known, ItemOf
  <2>5. ReadIsItem'
    BY <1>6, <2>1 DEF ReadIsItem, RequestInv, Open, Returned, Known, ItemOf
  <2>6. ItemsKept'
    BY <1>6, <2>1, NothingWritten
  <2>7. ASSUME WrittenInv PROVE WrittenInv'
    <3>1. /\ Holds(call)' <=> Holds(call)
          /\ Known(call)' <=> Known(call)
      BY <1>6, StillHolds
    <3>2. Open => ret = -1
      BY <2>1 DEF RequestInv
    <3> QED
      BY <1>6, <2>7, <3>1, <3>2 DEF WrittenInv, WriteIsKept, Returned, Open
  <2> QED
    BY <1>6, <2>2, <2>3, <2>4, <2>5, <2>6, <2>7 DEF ServiceInv, MainApart
<1>7. alive \in BOOLEAN
  BY DEF ServiceInv, ServiceTypes
<1>8. CASE WriteReturn
  BY <1>6, <1>7, <1>8 DEF WriteReturn
<1>9. CASE GiveUp
  BY <1>6, <1>7, <1>9 DEF GiveUp
<1>10. CASE HeapDeath
  BY <1>6, <1>10 DEF HeapDeath, Die
<1>11. CASE UNCHANGED vars
  BY <1>6, <1>7, <1>11 DEF vars
<1> QED
  BY <1>1, <1>2, <1>3, <1>4, <1>5, <1>8, <1>9, <1>10, <1>11 DEF Next

(* The request on its way is that of the call and its answer comes from the *)
(* item the call names, through el_read_data, el_write_data, read_mem_data  *)
(* and write_mem_data, for every byte size, memory layout and set of calls. *)
THEOREM ServiceInvariant == Spec => []ServiceInv
  BY ServiceStart, ServiceStep, PTL DEF Spec

(* el_read_data returns the bytes that read_mem_data found in the item, and *)
(* its length, or 0 when outBuf is too small.                               *)
THEOREM ReadReturnsItem == Spec => []ReadIsItem
<1>1. ServiceInv => ReadIsItem
  BY DEF ServiceInv
<1> QED
  BY <1>1, ServiceInvariant, PTL

(* While no write is longer than its item, write_mem_data and main leave    *)
(* every item as its last write meant it.                                   *)
THEOREM ItemsAreKept == Spec => []ItemsKept
<1>1. ServiceInv => ItemsKept
  BY DEF ServiceInv
<1> QED
  BY <1>1, ServiceInvariant, PTL

(* When main writes none of what elAPP writes, an el_write_data that        *)
(* returned 0 and fitted into dataBuf is in the memory.                     *)
THEOREM WriteStays == MainApart => (Spec => []WriteIsKept)
<1> SUFFICES ASSUME MainApart PROVE Spec => []WriteIsKept
  OBVIOUS
<1>1. ServiceInv => WriteIsKept
  BY DEF ServiceInv, WrittenInv
<1> QED
  BY <1>1, ServiceInvariant, PTL

(* The answer to a write is one byte and fits. *)
LEMMA EmptyFits == ~(Len(xdr_add_OCTET_STRING(<<>>)) > MsgBuf)
<1>1. xdr_add_OCTET_STRING(<<>>) = <<0>> \o <<>>
  BY BaseFacts DEF xdr_add_OCTET_STRING, xdr_add_variantlen
<1>2. Len(xdr_add_OCTET_STRING(<<>>)) = 1
  BY <1>1
<1>3. MsgBuf \in Nat /\ DataBuf \in Nat /\ DataBuf + 5 <= MsgBuf
  BY ServiceAssumption
<1>4. ~(1 > MsgBuf)
  BY <1>3
<1> QED
  BY <1>2, <1>4

(* The answer to a read is as long as its item and the length before it. *)
LEMMA AnswerLength ==
  ASSUME ServiceTypes, Known(call), NEW junk \in Stack
  PROVE  Len(xdr_add_OCTET_STRING(Copied(ItemOf(call), junk)))
           = Len(xdr_add_variantlen(ItemOf(call).len)) + ItemOf(call).len
<1> DEFINE it == ItemOf(call)
           x  == Copied(it, junk)
<1>1. /\ it.start \in Nat /\ it.len \in Nat /\ it.len \in UInt(4)
      /\ it.start + it.len <= MemLen /\ MemLen \in Nat
  BY ItemFacts, BaseFacts DEF ItemOf, Known
<1> HIDE DEF it
<1>2. \A i \in 1 .. it.len : mem[it.start + i - 1] \in Octet
  <2>1. \A i \in 1 .. it.len : it.start + i - 1 \in 0 .. (MemLen - 1)
    BY <1>1
  <2> QED
    BY <2>1 DEF ServiceTypes
<1>3. x \in [1 .. it.len -> Octet]
  BY <1>2, ServiceAssumption DEF Copied
<1>4. x \in Seq(Octet) /\ Len(x) = it.len
  BY <1>1, <1>3
<1> HIDE DEF x
<1>5. x \in Seq(Int)
  BY <1>4, OctetsAreNumbers
<1> DEFINE v == xdr_add_variantlen(it.len)
<1>6. v \in Seq(Int)
  BY <1>1, VariantlenTyped
<1>7. xdr_add_OCTET_STRING(x) = v \o x
  BY <1>4 DEF xdr_add_OCTET_STRING
<1> HIDE DEF v
<1>8. Len(v \o x) = Len(v) + Len(x)
  BY <1>5, <1>6, Together
<1> QED
  BY <1>4, <1>7, <1>8 DEF it, x, v

(* rhApp dies of a call that names an item it has not, of a read whose      *)
(* answer is longer than a message, or after a write that was longer than   *)
(* its item and ran past the end of s_pDataMem, and of nothing else that    *)
(* read_mem_data and write_mem_data are asked.                              *)
THEOREM DeathsByCalls == Spec => DeathsOfCalls
<1> DEFINE Reason == ~Known(call) \/ TooLong(call) \/ (heap /\ overrun)
<1>1. ServiceInv /\ [Next]_vars => [alive /\ ~alive' => Reason]_vars
  <2> SUFFICES ASSUME ServiceInv, [Next]_vars, alive, ~alive' PROVE Reason
    OBVIOUS
  <2>1. read_mem_data \/ write_mem_data \/ HeapDeath
    BY DEF Next, vars, SendRead, SendWrite, Send, MainWrite, ReadReturn, WriteReturn, GiveUp
  <2>2. CASE HeapDeath
    BY <2>2 DEF HeapDeath, ServiceInv
  <2>3. CASE read_mem_data \/ write_mem_data
    <3>1. ServiceTypes /\ RequestInv /\ Open
      BY <2>3 DEF ServiceInv, Open, read_mem_data, write_mem_data
    <3>2. /\ Known(Asked) <=> Known(call)
          /\ ItemOf(Asked) = ItemOf(call)
          /\ msg.iop = call.op
      BY <3>1, AskedIsCall DEF RequestInv
    <3>3. CASE write_mem_data
      <4>1. ~Known(Asked)
        BY <3>3, EmptyFits DEF write_mem_data, el_msg_echo, Answer
      <4> QED
        BY <3>2, <4>1
    <3>4. CASE read_mem_data /\ Known(call)
      <4>1. PICK junk \in Stack : el_msg_echo(IF ItemOf(Asked).len > 0 THEN 0 ELSE 1,
                                             Copied(ItemOf(Asked), junk))
        BY <3>2, <3>4 DEF read_mem_data
      <4>2. Len(xdr_add_OCTET_STRING(Copied(ItemOf(call), junk))) > MsgBuf
        BY <3>2, <4>1 DEF el_msg_echo, Answer
      <4>3. call.op = "read"
        BY <3>2, <3>4 DEF read_mem_data
      <4>4. Len(xdr_add_variantlen(ItemOf(call).len)) + ItemOf(call).len > MsgBuf
        BY <3>1, <3>4, <4>2, AnswerLength
      <4> QED
        BY <4>3, <4>4 DEF TooLong
    <3> QED
      BY <2>3, <3>3, <3>4
  <2> QED
    BY <2>1, <2>2, <2>3
<1> QED
  BY <1>1, ServiceInvariant, PTL DEF Spec, DeathsOfCalls

=============================================================================

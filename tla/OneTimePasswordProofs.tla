------------------------ MODULE OneTimePasswordProofs ------------------------
(***************************************************************************)
(* Proofs about one-time passwords, for every secret, time, hash function  *)
(* and width of machine words.  Powers are a recursive function; what they *)
(* compute is proved by induction, which rests on the least element of a   *)
(* set of natural numbers.                                                 *)
(***************************************************************************)
EXTENDS OneTimePassword, WellFoundedInduction, TLAPS

-----------------------------------------------------------------------------
Less == {ss \in Nat \X Nat : ss[1] < ss[2]}

\* A set of natural numbers has a least element.
LEMMA LeastElement ==
  ASSUME NEW T \in SUBSET Nat, T # {}
  PROVE  \E x \in T : \A y \in T : x <= y
  <1>1. IsWellFoundedOn(Less, Nat)
    BY NatLessThanWellFounded DEF OpToRel, Less
  <1>2. T \subseteq Nat
    OBVIOUS
  <1>3. PICK x \in T : \A y \in T : ~(<<y, x>> \in Less)
    BY <1>1, <1>2, WFMin
  <1>4. ASSUME NEW y \in T PROVE x <= y
    <2>1. x \in Nat /\ y \in Nat /\ <<y, x>> \in Nat \X Nat
      BY <1>2
    <2>2. ~(<<y, x>>[1] < <<y, x>>[2])
      BY <1>3, <2>1 DEF Less
    <2>3. ~(y < x)
      BY <2>2
    <2> QED
      BY <2>1, <2>3
  <1> QED
    BY <1>4

\* A set of numbers up to n has a greatest element.
LEMMA GreatestElement ==
  ASSUME NEW n \in Nat, NEW T \in SUBSET (1..n), T # {}
  PROVE  \E x \in T : \A y \in T : y <= x
  <1> DEFINE U == {n - y : y \in T}
  <1>1. U \in SUBSET Nat /\ U # {}
    <2>1. \A y \in T : n - y \in Nat
      OBVIOUS
    <2> QED
      BY <2>1
  <1> HIDE DEF U
  <1>2. PICK u \in U : \A z \in U : u <= z
    BY <1>1, LeastElement
  <1>3. PICK x \in T : u = n - x
    BY DEF U
  <1>4. ASSUME NEW y \in T PROVE y <= x
    <2>1. u <= n - y
      BY <1>2 DEF U
    <2> QED
      BY <1>3, <2>1
  <1> QED
    BY <1>4

\* Induction, for sets.
LEMMA Induction ==
  ASSUME NEW S \in SUBSET Nat, 0 \in S, \A n \in S : n + 1 \in S
  PROVE  S = Nat
  <1> SUFFICES ASSUME Nat \ S # {} PROVE FALSE
    OBVIOUS
  <1>1. PICK x \in Nat \ S : \A y \in Nat \ S : x <= y
    BY LeastElement
  <1>2. x - 1 \in S /\ (x - 1) + 1 = x
    BY <1>1
  <1> QED
    BY <1>1, <1>2

\* The recursion that defines pow, on an initial segment of the numbers.
PowUpTo(x, m) ==
    {g \in [0..m -> Nat] : \A i \in 0..m : g[i] = IF i = 0 THEN 1 ELSE x * g[i - 1]}

LEMMA PowUpToExists ==
  ASSUME NEW x \in Nat
  PROVE  \A m \in Nat : PowUpTo(x, m) # {}
  <1> DEFINE S == {m \in Nat : PowUpTo(x, m) # {}}
  <1>1. 0 \in S
    <2>1. [i \in 0..0 |-> 1] \in PowUpTo(x, 0)
      BY DEF PowUpTo
    <2> QED
      BY <2>1
  <1>2. ASSUME NEW m \in S PROVE m + 1 \in S
    <2>1. PICK g : g \in PowUpTo(x, m)
      OBVIOUS
    <2> DEFINE h == [i \in 0..(m + 1) |-> IF i = m + 1 THEN x * g[m] ELSE g[i]]
    <2>2. h \in [0..(m + 1) -> Nat]
      <3>1. x * g[m] \in Nat
        BY <2>1 DEF PowUpTo
      <3> QED
        BY <2>1, <3>1 DEF PowUpTo
    <2>3. ASSUME NEW i \in 0..(m + 1)
          PROVE  h[i] = IF i = 0 THEN 1 ELSE x * h[i - 1]
      <3>1. CASE i = m + 1
        BY <2>1, <3>1 DEF PowUpTo
      <3>2. CASE i # m + 1
        BY <2>1, <3>2 DEF PowUpTo
      <3> QED
        BY <3>1, <3>2
    <2> HIDE DEF h
    <2>4. h \in PowUpTo(x, m + 1)
      BY <2>2, <2>3 DEF PowUpTo
    <2> QED
      BY <2>4
  <1> HIDE DEF S
  <1>3. S = Nat
    BY <1>1, <1>2, Induction DEF S
  <1> QED
    BY <1>3 DEF S

LEMMA PowUpToUnique ==
  ASSUME NEW x \in Nat, NEW m \in Nat, NEW n \in Nat, m <= n,
         NEW g \in PowUpTo(x, m), NEW h \in PowUpTo(x, n)
  PROVE  \A i \in 0..m : g[i] = h[i]
  <1> DEFINE S == {i \in Nat : i \in 0..m => g[i] = h[i]}
  <1>1. 0 \in S
    BY DEF PowUpTo
  <1>2. ASSUME NEW i \in S PROVE i + 1 \in S
    <2> SUFFICES ASSUME i + 1 \in 0..m PROVE g[i + 1] = h[i + 1]
      OBVIOUS
    <2>1. g[i] = h[i] /\ (i + 1) - 1 = i /\ i + 1 # 0
      OBVIOUS
    <2>2. g[i + 1] = x * g[i]
      BY <2>1 DEF PowUpTo
    <2>3. h[i + 1] = x * h[i]
      <3>1. i + 1 \in 0..n
        OBVIOUS
      <3> QED
        BY <2>1, <3>1 DEF PowUpTo
    <2> QED
      BY <2>1, <2>2, <2>3
  <1> HIDE DEF S
  <1>3. S = Nat
    BY <1>1, <1>2, Induction DEF S
  <1> QED
    BY <1>3 DEF S

\* The equations of pow.
LEMMA PowEquations ==
  ASSUME NEW x \in Nat
  PROVE  \A y \in Nat : /\ pow(x)[y] \in Nat
                        /\ pow(x)[y] = IF y = 0 THEN 1 ELSE x * pow(x)[y - 1]
  <1> DEFINE Solves(f) == f = [y \in Nat |-> IF y = 0 THEN 1 ELSE x * f[y - 1]]
             part(m)   == CHOOSE g : g \in PowUpTo(x, m)
             limit     == [y \in Nat |-> part(y)[y]]
  <1>1. \A m \in Nat : part(m) \in PowUpTo(x, m)
    BY PowUpToExists
  <1> HIDE DEF part
  <1>2. ASSUME NEW y \in Nat
        PROVE  /\ limit[y] \in Nat
               /\ limit[y] = IF y = 0 THEN 1 ELSE x * limit[y - 1]
    <2>1. CASE y = 0
      BY <1>1, <2>1 DEF PowUpTo
    <2>2. CASE y # 0
      <3>1. y - 1 \in Nat /\ y - 1 <= y
        BY <2>2
      <3>2. part(y - 1)[y - 1] = part(y)[y - 1]
        BY <1>1, <3>1, PowUpToUnique
      <3>3. part(y)[y] = x * part(y)[y - 1] /\ part(y)[y] \in Nat
        BY <1>1, <2>2 DEF PowUpTo
      <3> QED
        BY <2>2, <3>1, <3>2, <3>3
    <2> QED
      BY <2>1, <2>2
  <1>3. limit = [y \in Nat |-> limit[y]]
    OBVIOUS
  <1> HIDE DEF limit
  <1>4. Solves(limit)
    BY <1>2, <1>3
  <1>5. pow(x) = CHOOSE f : Solves(f)
    BY DEF pow
  <1>6. Solves(pow(x))
    BY <1>4, <1>5
  <1>7. \A y \in Nat : pow(x)[y] = IF y = 0 THEN 1 ELSE x * pow(x)[y - 1]
    BY <1>6
  <1> DEFINE S == {y \in Nat : pow(x)[y] \in Nat}
  <1>8. 0 \in S
    BY <1>7
  <1>9. ASSUME NEW y \in S PROVE y + 1 \in S
    <2>1. pow(x)[y + 1] = x * pow(x)[y]
      BY <1>7
    <2> QED
      BY <2>1
  <1> HIDE DEF S
  <1>10. S = Nat
    BY <1>8, <1>9, Induction DEF S
  <1> QED
    BY <1>7, <1>10 DEF S

-----------------------------------------------------------------------------
\* Powers: they grow, a power of two splits into two, a power of ten is one of two
\* times an odd number, and a power of five is beyond that of two.
LEMMA PowersOfTen ==
  \A y \in Nat : /\ pow(10)[y] = pow(2)[y] * pow(5)[y]
                 /\ \E r \in Nat : pow(5)[y] = 2 * r + 1
                 /\ pow(2)[y] > 0
                 /\ pow(5)[y] >= pow(2)[y]
  <1> DEFINE P(y) == /\ pow(10)[y] = pow(2)[y] * pow(5)[y]
                     /\ \E r \in Nat : pow(5)[y] = 2 * r + 1
                     /\ pow(2)[y] > 0
                     /\ pow(5)[y] >= pow(2)[y]
             S == {y \in Nat : P(y)}
  <1>1. 0 \in S
    <2>1. pow(10)[0] = 1 /\ pow(2)[0] = 1 /\ pow(5)[0] = 1
      BY PowEquations
    <2> QED
      BY <2>1
  <1>2. ASSUME NEW y \in S PROVE y + 1 \in S
    <2>1. /\ y + 1 # 0 /\ (y + 1) - 1 = y
          /\ pow(10)[y] \in Nat /\ pow(2)[y] \in Nat /\ pow(5)[y] \in Nat
      BY PowEquations
    <2>2. /\ pow(10)[y + 1] = 10 * pow(10)[y]
          /\ pow(2)[y + 1] = 2 * pow(2)[y]
          /\ pow(5)[y + 1] = 5 * pow(5)[y]
      BY <2>1, PowEquations
    <2> HIDE DEF P
    <2>3. P(y)
      OBVIOUS
    <2>4. PICK r \in Nat : pow(5)[y] = 2 * r + 1
      BY <2>3 DEF P
    <2>5. pow(10)[y + 1] = pow(2)[y + 1] * pow(5)[y + 1]
      <3>1. \A a, b \in Nat : 10 * (a * b) = (2 * a) * (5 * b)
        OBVIOUS
      <3> QED
        BY <2>1, <2>2, <2>3, <3>1 DEF P
    <2>6. 5 * r + 2 \in Nat /\ pow(5)[y + 1] = 2 * (5 * r + 2) + 1
      BY <2>2, <2>4
    <2>7. pow(2)[y + 1] > 0 /\ pow(5)[y + 1] >= pow(2)[y + 1]
      BY <2>1, <2>2, <2>3 DEF P
    <2>8. P(y + 1)
      BY <2>5, <2>6, <2>7 DEF P
    <2> QED
      BY <2>8
  <1> HIDE DEF S
  <1>3. S = Nat
    BY <1>1, <1>2, Induction DEF S
  <1> QED
    BY <1>3 DEF S

LEMMA PowersOfTwo ==
  ASSUME NEW k \in Nat
  PROVE  \A j \in Nat : /\ pow(2)[k + j] = pow(2)[k] * pow(2)[j]
                        /\ pow(10)[k + j] >= pow(10)[k]
  <1> DEFINE S == {j \in Nat : /\ pow(2)[k + j] = pow(2)[k] * pow(2)[j]
                               /\ pow(10)[k + j] >= pow(10)[k]}
  <1>0. \A j \in Nat : pow(2)[j] \in Nat /\ pow(10)[j] \in Nat
    BY PowEquations
  <1>1. 0 \in S
    <2>1. pow(2)[0] = 1 /\ k + 0 = k
      BY PowEquations
    <2> QED
      BY <1>0, <2>1
  <1>2. ASSUME NEW j \in S PROVE j + 1 \in S
    <2>1. /\ k + (j + 1) # 0 /\ (k + (j + 1)) - 1 = k + j
          /\ j + 1 # 0 /\ (j + 1) - 1 = j
          /\ k + j \in Nat /\ k + (j + 1) \in Nat /\ j + 1 \in Nat
      OBVIOUS
    <2>2. /\ pow(2)[k + (j + 1)] = 2 * pow(2)[k + j]
          /\ pow(10)[k + (j + 1)] = 10 * pow(10)[k + j]
          /\ pow(2)[j + 1] = 2 * pow(2)[j]
      BY <2>1, PowEquations
    <2>3. pow(2)[k + j] = pow(2)[k] * pow(2)[j] /\ pow(10)[k + j] >= pow(10)[k]
      OBVIOUS
    <2>4. \A a, b \in Nat : 2 * (a * b) = a * (2 * b)
      OBVIOUS
    <2>5. pow(2)[k + (j + 1)] = pow(2)[k] * pow(2)[j + 1]
      BY <1>0, <2>2, <2>3, <2>4
    <2>6. pow(10)[k + (j + 1)] >= pow(10)[k]
      BY <1>0, <2>1, <2>2, <2>3
    <2> QED
      BY <2>5, <2>6
  <1> HIDE DEF S
  <1>3. S = Nat
    BY <1>1, <1>2, Induction DEF S
  <1> QED
    BY <1>3 DEF S

\* A power of ten that fits an int32 is not changed by the conversion; the only
\* modulus is the power itself.
LEMMA ModulusOfWord ==
  ASSUME NEW d \in Nat, pow(10)[d] < HalfWord
  PROVE  pow(10)[d] \in Nat \ {0} /\ Moduli(d) = {pow(10)[d]}
  <1> DEFINE p == pow(10)[d]
  <1>1. p \in Nat \ {0}
    <2>1. pow(10)[d] = pow(2)[d] * pow(5)[d] /\ pow(2)[d] \in Nat \ {0} /\ pow(5)[d] \in Nat \ {0}
      <3>1. 2 \in Nat /\ 5 \in Nat
        OBVIOUS
      <3>2. pow(2)[d] \in Nat /\ pow(5)[d] \in Nat
        BY <3>1, PowEquations
      <3>3. /\ pow(10)[d] = pow(2)[d] * pow(5)[d]
            /\ pow(2)[d] > 0 /\ pow(5)[d] >= pow(2)[d]
        BY PowersOfTen
      <3> QED
        BY <3>2, <3>3
    <2>2. \A a, b \in Nat \ {0} : a * b \in Nat \ {0}
      OBVIOUS
    <2> QED
      BY <2>1, <2>2
  <1> HIDE DEF p
  <1>2. HalfWord \in Nat \ {0} /\ p < HalfWord /\ HalfWord <= HalfInt /\ HalfInt \in Nat
    BY WidthAssumption DEF p
  <1>3. ToWord(p) = p
    <2>1. (p + HalfWord) % (2 * HalfWord) = p + HalfWord
      BY <1>1, <1>2
    <2> QED
      BY <1>1, <1>2, <2>1 DEF ToWord
  <1>4. p < HalfInt /\ ~(d < 0)
    BY <1>1, <1>2
  <1>5. Moduli(d) = {p}
    BY <1>3, <1>4 DEF Moduli, p
  <1> QED
    BY <1>1, <1>5 DEF p

\* A power of ten that fits an int is not zero when it is cut to an int32: it is
\* too small to have as many factors of two.
LEMMA ModulusNotZero ==
  ASSUME NEW d \in Nat, pow(10)[d] < HalfInt
  PROVE  ToWord(pow(10)[d]) # 0
  <1> SUFFICES ASSUME ToWord(pow(10)[d]) = 0 PROVE FALSE
    OBVIOUS
  <1>1. PICK w \in Nat : HalfWord = pow(2)[w]
    BY WidthAssumption
  <1>2. /\ HalfWord \in Nat \ {0} /\ HalfInt \in Nat \ {0}
        /\ HalfInt <= 2 * HalfWord * HalfWord
    BY WidthAssumption
  <1>3. \A y \in Nat : pow(2)[y] \in Nat /\ pow(5)[y] \in Nat /\ pow(10)[y] \in Nat
    BY PowEquations
  <1>4. pow(2)[w + 1] = 2 * HalfWord
    <2>1. w + 1 # 0 /\ (w + 1) - 1 = w
      OBVIOUS
    <2> QED
      BY <1>1, <2>1, PowEquations
  <1>5. PICK q \in Int : pow(10)[d] = pow(2)[w + 1] * q
    <2> DEFINE p == pow(10)[d]
    <2>1. p \in Nat
      BY <1>3
    <2> HIDE DEF p
    <2>2. (p + HalfWord) % (2 * HalfWord) = HalfWord
      <3>1. ((p + HalfWord) % (2 * HalfWord)) - HalfWord = 0
        BY DEF ToWord, p
      <3>2. (p + HalfWord) % (2 * HalfWord) \in Int
        BY <1>2, <2>1
      <3> QED
        BY <1>2, <3>1, <3>2
    <2>3. PICK q \in Int : p + HalfWord = (2 * HalfWord) * q + HalfWord
      <3>1. 2 * HalfWord \in Nat \ {0} /\ p + HalfWord \in Int
        BY <1>2, <2>1
      <3>2. \A a \in Int, b \in Nat \ {0} : a = b * (a \div b) + (a % b) /\ a \div b \in Int
        OBVIOUS
      <3> QED
        BY <2>2, <3>1, <3>2
    <2>4. p = (2 * HalfWord) * q
      BY <1>2, <2>1, <2>3
    <2> QED
      BY <1>4, <2>4 DEF p
  <1>6. CASE d <= w
    <2>1. PICK j \in Nat : w + 1 = d + (j + 1)
      <3>1. w - d \in Nat /\ w + 1 = d + ((w - d) + 1)
        BY <1>6
      <3> QED
        BY <3>1
    <2>2. pow(2)[w + 1] = pow(2)[d] * (2 * pow(2)[j])
      <3>1. pow(2)[d + (j + 1)] = pow(2)[d] * pow(2)[j + 1]
        BY PowersOfTwo
      <3>2. j + 1 # 0 /\ (j + 1) - 1 = j /\ j + 1 \in Nat
        OBVIOUS
      <3>3. pow(2)[j + 1] = 2 * pow(2)[j]
        BY <3>2, PowEquations
      <3> QED
        BY <2>1, <3>1, <3>3
    <2>3. pow(2)[d] * pow(5)[d] = (pow(2)[d] * (2 * pow(2)[j])) * q
      BY <1>5, <2>2, PowersOfTen
    <2>4. pow(5)[d] = 2 * (pow(2)[j] * q)
      <3> DEFINE a == pow(2)[d]
                 b == pow(5)[d]
                 c == pow(2)[j]
      <3>2. pow(2)[d] \in Nat \ {0}
        BY <1>3, PowersOfTen
      <3>3. pow(5)[d] \in Int /\ pow(2)[j] \in Int /\ q \in Int
        BY <1>3
      <3>4. a * b = (a * (2 * c)) * q /\ a \in Nat \ {0} /\ b \in Int /\ c \in Int
        BY <2>3, <3>2, <3>3
      <3> HIDE DEF a, b, c
      <3>5. b = 2 * (c * q)
        <4>1. a * b = a * (2 * (c * q))
          BY <3>4
        <4>2. 2 * (c * q) \in Int
          BY <3>4
        <4>3. \A x, y \in Int : a * x = a * y => x = y
          BY <3>4
        <4> QED
          BY <3>4, <4>1, <4>2, <4>3
      <3> QED
        BY <3>5 DEF a, b, c
    <2>5. PICK r \in Nat : pow(5)[d] = 2 * r + 1
      BY PowersOfTen
    <2>6. pow(2)[j] * q \in Int
      BY <1>3
    <2> QED
      BY <2>4, <2>5, <2>6
  <1>7. CASE ~(d <= w)
    <2>1. PICK j \in Nat : d = (w + 1) + j
      <3>1. d - (w + 1) \in Nat /\ d = (w + 1) + (d - (w + 1))
        BY <1>7
      <3> QED
        BY <3>1
    <2>2. pow(10)[d] >= pow(10)[w + 1]
      <3>1. w + 1 \in Nat
        OBVIOUS
      <3>2. pow(10)[(w + 1) + j] >= pow(10)[w + 1]
        BY <3>1, PowersOfTwo
      <3> QED
        BY <2>1, <3>2
    <2>3. pow(10)[w + 1] >= (2 * HalfWord) * (2 * HalfWord)
      <3>1. \A a, b \in Nat : b >= a => a * b >= a * a
        OBVIOUS
      <3>2. w + 1 \in Nat
        OBVIOUS
      <3>3. /\ pow(10)[w + 1] = pow(2)[w + 1] * pow(5)[w + 1]
            /\ pow(5)[w + 1] >= pow(2)[w + 1]
        BY <3>2, PowersOfTen
      <3>4. pow(2)[w + 1] \in Nat /\ pow(5)[w + 1] \in Nat
        BY <1>3, <3>2
      <3>5. pow(2)[w + 1] * pow(5)[w + 1] >= pow(2)[w + 1] * pow(2)[w + 1]
        BY <3>1, <3>3, <3>4
      <3> QED
        BY <1>4, <3>3, <3>5
    <2>4. (2 * HalfWord) * (2 * HalfWord) >= 2 * HalfWord * HalfWord
      BY <1>2
    <2> QED
      BY <1>2, <1>3, <2>2, <2>3, <2>4
  <1> QED
    BY <1>6, <1>7

-----------------------------------------------------------------------------
\* The digits of an entry's settings are a number.
LEMMA DigitsAreInt ==
  ASSUME NEW values, ~NoOTPAuth(values)
  PROVE  OTPAuth(values).digits \in Int
  <1>1. CASE Has(values, OTP)
    <2>1. Content(values, OTP) \in DOMAIN Urls
      BY <1>1 DEF NoOTPAuth, ValidUrl
    <2>2. Urls[Content(values, OTP)].digits \in Seq(Int)
      BY <2>1, OtpAssumption
    <2>3. Given(Urls[Content(values, OTP)].digits, 6) \in Int
      BY <2>2 DEF Given
    <2> QED
      BY <1>1, <2>3 DEF OTPAuth, FromUrl
  <1>2. CASE ~Has(values, OTP)
    BY <1>2, OtpAssumption DEF OTPAuth, FromSeed
  <1> QED
    BY <1>1, <1>2

\* A code has the digits its settings ask for, at least one.
LEMMA CodesHaveDigits ==
  ASSUME NEW values, NEW time, NEW o \in CreateOTP(values, time), o.result = "code"
  PROVE  /\ ~NoOTPAuth(values)
         /\ o.code # <<>> /\ Len(o.code) = OTPAuth(values).digits
  <1>1. ~NoOTPAuth(values) /\ o \in Create(OTPAuth(values), time)
    BY DEF CreateOTP, Failed
  <1>2. OTPAuth(values).digits \in Int
    BY <1>1, DigitsAreInt
  <1>3. PICK r, m : o = Format(r, m, OTPAuth(values).digits)
    BY <1>1 DEF Create, Failed
  <1>4. PICK n : OTPAuth(values).digits >= 1 /\ o.code = Decimal(n, OTPAuth(values).digits)
    BY <1>2, <1>3 DEF Format, Failed, DivByZero, Created
  <1> QED
    BY <1>1, <1>2, <1>4 DEF Decimal

\* A code made from ordinary settings is the one of RFC 6238.
THEOREM CodeByRFC ==
  ASSUME NEW values, Ordinary(OTPAuth(values)),
         NEW time, NEW c \in CreateOTP(values, time), c.result = "code"
  PROVE  c.code = TOTP(OTPAuth(values), time)
  <1> DEFINE o == OTPAuth(values)
             r == Hash(o.secret, Message(time, o.period))
  <1>1. ~NoOTPAuth(values) /\ c \in Create(o, time)
    BY DEF CreateOTP, Failed
  <1>2. o.digits \in Nat
    BY <1>1, DigitsAreInt DEF Ordinary
  <1> HIDE DEF o
  <1> DEFINE p == pow(10)[o.digits]
  <1>3. p \in Nat \ {0} /\ Moduli(o.digits) = {p}
    BY <1>2, ModulusOfWord DEF Ordinary, o
  <1>4. Message(time, o.period) = <<time \div o.period>>
    BY DEF Message, Step, Ordinary, o
  <1>5. c = Format(r, p, o.digits)
    BY <1>1, <1>3 DEF Create, Failed
  <1>6. p # 0 /\ ~(p < 0)
    BY <1>3
  <1>7. c = Created(Decimal(r % p, o.digits))
    BY <1>5, <1>6 DEF Format, Failed
  <1> QED
    BY <1>4, <1>7 DEF TOTP, Created, o

\* A code is made without a panic unless ten to the power of the digits is no int.
THEOREM PanicNeedsDigits ==
  ASSUME NEW values, NEW time, NEW c \in CreateOTP(values, time), c.result = "panic"
  PROVE  \/ OTPAuth(values).digits < 0
         \/ pow(10)[OTPAuth(values).digits] >= HalfInt
  <1> DEFINE d == OTPAuth(values).digits
  <1> SUFFICES ASSUME ~(d < 0), ~(pow(10)[d] >= HalfInt) PROVE FALSE
    OBVIOUS
  <1>1. ~NoOTPAuth(values) /\ c \in Create(OTPAuth(values), time)
    BY DEF CreateOTP, Failed
  <1>2. d \in Nat
    BY <1>1, DigitsAreInt
  <1> HIDE DEF d
  <1>3. pow(10)[d] < HalfInt
    BY <1>2, PowEquations, WidthAssumption
  <1>4. ToWord(pow(10)[d]) # 0
    BY <1>2, <1>3, ModulusNotZero
  <1>5. Moduli(d) = {ToWord(pow(10)[d])}
    BY <1>2, <1>3 DEF Moduli
  <1>6. PICK r, m : m # 0 /\ c = Format(r, m, d)
    BY <1>1, <1>4, <1>5 DEF Create, Failed, d
  <1>7. c = Failed \/ \E code : c = Created(code)
    BY <1>6 DEF Format
  <1> QED
    BY <1>7 DEF Failed, Created
=============================================================================

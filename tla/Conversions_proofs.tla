------------------------ MODULE Conversions_proofs ------------------------
EXTENDS Conversions, FiniteSetTheorems, SequenceTheorems, WellFoundedInduction,
        TLAPS

\* Every set of numbers has a least one.
LEMMA LeastNumber ==
    ASSUME NEW S, S \subseteq Nat, S # {}
    PROVE  \E i \in S : \A j \in S : i <= j
<1> DEFINE R == {ss \in Nat \X Nat : ss[1] < ss[2]}
<1>1. IsWellFoundedOn(R, Nat)
    BY NatLessThanWellFounded DEF OpToRel
<1>2. \A i, j \in Nat : j < i => <<j, i>> \in R
    OBVIOUS
<1> HIDE DEF R
<1>3. PICK i \in S : \A j \in S : ~ (<<j, i>> \in R)
    BY <1>1, WFMin
<1>4. ASSUME NEW j \in S
      PROVE  i <= j
    <2>1. i \in Nat /\ j \in Nat
        OBVIOUS
    <2>2. ~(j < i)
        BY <1>2, <1>3, <2>1
    <2> QED
        BY <2>1, <2>2
<1> QED
    BY <1>4

\* Induction over the numbers of a set, for a set given as a term.
LEMMA SetInduction ==
    ASSUME NEW S, 0 \in S, \A n \in Nat : n \in S => n + 1 \in S
    PROVE  Nat \subseteq S
<1> SUFFICES ASSUME Nat \ S # {} PROVE FALSE
    OBVIOUS
<1>1. PICK i \in Nat \ S : \A j \in Nat \ S : i <= j
    BY LeastNumber
<1>2. i # 0 /\ i \in Nat
    OBVIOUS
<1>3. i - 1 \in Nat /\ i = (i - 1) + 1
    BY <1>2
<1>4. i - 1 \in S
    BY <1>1, <1>3
<1> QED
    BY <1>3, <1>4

\* The same from all the smaller numbers.
LEMMA StrongSetInduction ==
    ASSUME NEW S, \A n \in Nat : (\A m \in Nat : m < n => m \in S) => n \in S
    PROVE  Nat \subseteq S
<1> SUFFICES ASSUME Nat \ S # {} PROVE FALSE
    OBVIOUS
<1>1. PICK i \in Nat \ S : \A j \in Nat \ S : i <= j
    BY LeastNumber
<1>2. \A m \in Nat : m < i => m \in S
    BY <1>1
<1> QED
    BY <1>2

-----------------------------------------------------------------------------
\* f gives the worth in base b of every beginning of d.
IsWorth(f, d, b) ==
    f = [i \in 0 .. Len(d) |-> IF i = 0 THEN 0 ELSE b * f[i - 1] + d[i]]

\* There is such a function for the digits of every length.
LEMMA WorthExists ==
    ASSUME NEW b \in Nat
    PROVE  \A n \in Nat : \A d \in Seq(Nat) : Len(d) = n => \E f \in [0 .. n -> Nat] : IsWorth(f, d, b)
<1> DEFINE S == {n \in Nat : \A d \in Seq(Nat) : Len(d) = n => \E f \in [0 .. n -> Nat] : IsWorth(f, d, b)}
<1>1. 0 \in S
    <2> SUFFICES ASSUME NEW d \in Seq(Nat), Len(d) = 0
                 PROVE \E f \in [0 .. 0 -> Nat] : IsWorth(f, d, b)
        OBVIOUS
    <2> DEFINE f == [i \in 0 .. 0 |-> 0]
    <2>1. f \in [0 .. 0 -> Nat]
        OBVIOUS
    <2>2. IsWorth(f, d, b)
        BY DEF IsWorth
    <2> QED
        BY <2>1, <2>2
<1>2. ASSUME NEW n \in Nat, n \in S
      PROVE  n + 1 \in S
    <2> SUFFICES ASSUME NEW d \in Seq(Nat), Len(d) = n + 1
                 PROVE \E f \in [0 .. n + 1 -> Nat] : IsWorth(f, d, b)
        OBVIOUS
    <2> DEFINE e == SubSeq(d, 1, n)
    <2>1. e \in Seq(Nat) /\ Len(e) = n /\ \A i \in 1 .. n : e[i] = d[i]
        OBVIOUS
    <2>2. PICK f \in [0 .. n -> Nat] : IsWorth(f, e, b)
        BY <1>2, <2>1
    <2> HIDE DEF e
    <2>3. \A i \in 0 .. n : f[i] = IF i = 0 THEN 0 ELSE b * f[i - 1] + d[i]
        <3> SUFFICES ASSUME NEW i \in 0 .. n
                     PROVE  f[i] = IF i = 0 THEN 0 ELSE b * f[i - 1] + d[i]
            OBVIOUS
        <3>1. f[i] = IF i = 0 THEN 0 ELSE b * f[i - 1] + e[i]
            BY <2>1, <2>2 DEF IsWorth
        <3> QED
            BY <2>1, <3>1
    <2> DEFINE g == [i \in 0 .. n + 1 |-> IF i <= n THEN f[i] ELSE b * f[n] + d[n + 1]]
    <2>4. g \in [0 .. n + 1 -> Nat]
        <3>1. f[n] \in Nat /\ d[n + 1] \in Nat
            OBVIOUS
        <3>2. b * f[n] \in Nat
            BY <3>1
        <3> QED
            BY <3>1, <3>2
    <2>5. IsWorth(g, d, b)
        <3>1. ASSUME NEW i \in 0 .. n + 1
              PROVE  g[i] = IF i = 0 THEN 0 ELSE b * g[i - 1] + d[i]
            <4>1. CASE i <= n
                BY <2>3, <4>1
            <4>2. CASE i = n + 1
                BY <4>2
            <4> QED
                BY <4>1, <4>2
        <3> QED
            BY <3>1 DEF IsWorth
    <2> QED
        BY <2>4, <2>5
<1> HIDE DEF S
<1>3. Nat \subseteq S
    BY <1>1, <1>2, SetInduction
<1> QED
    BY <1>3 DEF S

\* The values of a prefix are those of the whole.
LEMMA WorthPrefix ==
    ASSUME NEW b \in Nat, NEW d \in Seq(Nat), NEW e \in Seq(Nat),
           Len(d) <= Len(e), \A i \in 1 .. Len(d) : d[i] = e[i]
    PROVE  \A f, g : IsWorth(f, d, b) /\ IsWorth(g, e, b) => f[Len(d)] = g[Len(d)]
<1> SUFFICES ASSUME NEW f, NEW g, IsWorth(f, d, b), IsWorth(g, e, b)
             PROVE  f[Len(d)] = g[Len(d)]
    OBVIOUS
<1>1. Len(d) \in Nat /\ Len(e) \in Nat
    OBVIOUS
<1> DEFINE S == {i \in Nat : i <= Len(d) => f[i] = g[i]}
<1>2. 0 \in S
    BY <1>1 DEF IsWorth
<1>3. ASSUME NEW i \in Nat, i \in S
      PROVE  i + 1 \in S
    <2> SUFFICES ASSUME i + 1 <= Len(d) PROVE f[i + 1] = g[i + 1]
        OBVIOUS
    <2>1. /\ f[i] = g[i] /\ i + 1 # 0 /\ (i + 1) - 1 = i
          /\ i + 1 \in 0 .. Len(d) /\ i + 1 \in 0 .. Len(e) /\ i + 1 \in 1 .. Len(d)
        BY <1>1, <1>3
    <2>2. f[i + 1] = b * f[i] + d[i + 1]
        BY <2>1 DEF IsWorth
    <2>3. g[i + 1] = b * g[i] + e[i + 1]
        BY <2>1 DEF IsWorth
    <2> QED
        BY <2>1, <2>2, <2>3
<1> HIDE DEF S
<1>4. Nat \subseteq S
    BY <1>2, <1>3, SetInduction
<1> QED
    BY <1>1, <1>4 DEF S

\* Worth is its last value.
LEMMA WorthIs ==
    ASSUME NEW b \in Nat, NEW d \in Seq(Nat)
    PROVE  \E f \in [0 .. Len(d) -> Nat] : IsWorth(f, d, b) /\ Worth(d, b) = f[Len(d)]
<1> DEFINE f == CHOOSE f : f = [i \in 0 .. Len(d) |-> IF i = 0 THEN 0 ELSE b * f[i - 1] + d[i]]
<1>1. Len(d) \in Nat
    OBVIOUS
<1>2. PICK g \in [0 .. Len(d) -> Nat] : IsWorth(g, d, b)
    BY WorthExists, <1>1
<1>3. g = [i \in 0 .. Len(d) |-> IF i = 0 THEN 0 ELSE b * g[i - 1] + d[i]]
    BY <1>2 DEF IsWorth
<1>4. f = [i \in 0 .. Len(d) |-> IF i = 0 THEN 0 ELSE b * f[i - 1] + d[i]]
    BY <1>3
<1>5. Worth(d, b) = f[Len(d)]
    BY DEF Worth
<1> HIDE DEF f
<1>6. IsWorth(f, d, b)
    BY <1>4, Zenon DEF IsWorth
<1>8. Len(d) <= Len(d)
    BY <1>1
<1>9. \A p, q : IsWorth(p, d, b) /\ IsWorth(q, d, b) => p[Len(d)] = q[Len(d)]
    BY <1>8, WorthPrefix
<1>7. f[Len(d)] = g[Len(d)]
    BY <1>2, <1>6, <1>9
<1> QED
    BY <1>2, <1>5, <1>7

\* Worth is defined by the last digit.
LEMMA WorthFacts ==
    ASSUME NEW b \in Nat
    PROVE  /\ Worth(<<>>, b) = 0
           /\ \A d \in Seq(Nat) : Worth(d, b) \in Nat
           /\ \A d \in Seq(Nat), x \in Nat :
                Worth(Append(d, x), b) = b * Worth(d, b) + x
<1>1. Worth(<<>>, b) = 0
    <2>1. PICK d : d = <<>>
        OBVIOUS
    <2>2. d \in Seq(Nat) /\ Len(d) = 0
        BY <2>1
    <2>3. PICK f \in [0 .. Len(d) -> Nat] : IsWorth(f, d, b) /\ Worth(d, b) = f[Len(d)]
        BY <2>2, WorthIs
    <2> QED
        BY <2>1, <2>2, <2>3 DEF IsWorth
<1>2. \A d \in Seq(Nat) : Worth(d, b) \in Nat
    BY WorthIs
<1>3. ASSUME NEW d \in Seq(Nat), NEW x \in Nat
      PROVE  Worth(Append(d, x), b) = b * Worth(d, b) + x
    <2> DEFINE e == Append(d, x)
    <2>1. /\ e \in Seq(Nat) /\ Len(e) = Len(d) + 1 /\ Len(d) \in Nat
          /\ e[Len(d) + 1] = x /\ \A i \in 1 .. Len(d) : e[i] = d[i]
        OBVIOUS
    <2> HIDE DEF e
    <2>2. PICK f \in [0 .. Len(d) -> Nat] : IsWorth(f, d, b) /\ Worth(d, b) = f[Len(d)]
        BY WorthIs
    <2>3. PICK g \in [0 .. Len(e) -> Nat] : IsWorth(g, e, b) /\ Worth(e, b) = g[Len(e)]
        BY <2>1, WorthIs
    <2>4. f[Len(d)] = g[Len(d)]
        <3>1. Len(d) <= Len(e) /\ \A i \in 1 .. Len(d) : d[i] = e[i]
            BY <2>1
        <3>2. \A p, q : IsWorth(p, d, b) /\ IsWorth(q, e, b) => p[Len(d)] = q[Len(d)]
            BY <2>1, <3>1, WorthPrefix
        <3> QED
            BY <2>2, <2>3, <3>2
    <2>5. g[Len(d) + 1] = b * g[Len(d)] + e[Len(d) + 1]
        BY <2>1, <2>3 DEF IsWorth
    <2> QED
        BY <2>1, <2>2, <2>3, <2>4, <2>5 DEF e
<1> QED
    BY <1>1, <1>2, <1>3

-----------------------------------------------------------------------------
\* What is shown for the empty sequence and for one more element holds of all.
LEMMA SequenceInduction ==
    ASSUME NEW T, NEW S, <<>> \in S,
           \A d \in Seq(T), x \in T : d \in S => Append(d, x) \in S
    PROVE  Seq(T) \subseteq S
<1> DEFINE P == {n \in Nat : \A d \in Seq(T) : Len(d) = n => d \in S}
<1>1. 0 \in P
    BY EmptySeq
<1>2. ASSUME NEW n \in Nat, n \in P
      PROVE  n + 1 \in P
    <2> SUFFICES ASSUME NEW d \in Seq(T), Len(d) = n + 1 PROVE d \in S
        OBVIOUS
    <2>1. d # <<>>
        BY EmptySeq
    <2>2. PICK e \in Seq(T), x \in T : d = Append(e, x)
        BY <2>1, SequenceEmptyOrAppend
    <2>3. Len(e) = n
        BY <2>2
    <2> QED
        BY <1>2, <2>2, <2>3
<1> HIDE DEF P
<1>3. Nat \subseteq P
    BY <1>1, <1>2, SetInduction
<1> QED
    BY <1>3 DEF P

\* Zeros: its type, its length, its elements and its growth by one.
LEMMA ZerosFacts ==
    ASSUME NEW n \in Nat
    PROVE  /\ Zeros(n) \in Seq({0}) /\ Zeros(n) \in Seq(Nat)
           /\ Len(Zeros(n)) = n
           /\ \A i \in 1 .. n : Zeros(n)[i] = 0
           /\ Zeros(n + 1) = Append(Zeros(n), 0)
           /\ Zeros(0) = <<>>
<1>1. /\ Zeros(n) \in Seq({0}) /\ Zeros(n) \in Seq(Nat)
      /\ Len(Zeros(n)) = n
      /\ \A i \in 1 .. n : Zeros(n)[i] = 0
    BY DEF Zeros
<1>2. Zeros(n + 1) = Append(Zeros(n), 0)
    BY DEF Zeros
<1>3. Zeros(0) = <<>>
    BY DEF Zeros
<1> QED
    BY <1>1, <1>2, <1>3

\* A power grows by one factor at a time.
LEMMA PowerFacts ==
    ASSUME NEW b \in Nat
    PROVE  /\ Power(b, 0) = 1
           /\ \A n \in Nat : /\ Power(b, n) \in Nat
                             /\ Power(b, n + 1) = b * Power(b, n)
                             /\ b > 0 => Power(b, n) > 0
<1>1. Power(b, 0) = 1
    <2>1. Zeros(0) = <<>>
        BY ZerosFacts
    <2>2. <<1>> \o <<>> = Append(<<>>, 1)
        OBVIOUS
    <2>3. <<>> \in Seq(Nat) /\ 1 \in Nat
        OBVIOUS
    <2>4. Worth(Append(<<>>, 1), b) = b * 0 + 1
        BY <2>3, WorthFacts
    <2>5. Power(b, 0) = b * 0 + 1
        BY <2>1, <2>2, <2>4 DEF Power
    <2> QED
        BY <2>5
<1>2. ASSUME NEW n \in Nat
      PROVE  Power(b, n) \in Nat /\ Power(b, n + 1) = b * Power(b, n)
    <2> DEFINE d == <<1>> \o Zeros(n)
    <2>1. d \in Seq(Nat)
        BY ZerosFacts
    <2>2. <<1>> \o Zeros(n + 1) = Append(d, 0)
        <3>1. Zeros(n + 1) = Append(Zeros(n), 0) /\ Zeros(n) \in Seq(Nat)
            BY ZerosFacts
        <3> HIDE DEF d
        <3>2. \A z \in Seq(Nat) : <<1>> \o Append(z, 0) = Append(<<1>> \o z, 0)
            OBVIOUS
        <3> QED
            BY <3>1, <3>2 DEF d
    <2>3. Worth(Append(d, 0), b) = b * Worth(d, b) + 0 /\ Worth(d, b) \in Nat
        BY <2>1, WorthFacts
    <2> HIDE DEF d
    <2>4. b * Worth(d, b) + 0 = b * Worth(d, b)
        BY <2>3
    <2> QED
        BY <2>2, <2>3, <2>4 DEF Power, d
<1>3. ASSUME b > 0
      PROVE  \A n \in Nat : Power(b, n) > 0
    <2> DEFINE S == {n \in Nat : Power(b, n) > 0}
    <2>1. 0 \in S
        BY <1>1
    <2>2. ASSUME NEW n \in Nat, n \in S PROVE n + 1 \in S
        <3>1. Power(b, n) \in Nat /\ Power(b, n) > 0 /\ Power(b, n + 1) = b * Power(b, n)
            BY <1>2, <2>2
        <3>2. \A x, y \in Nat : x > 0 /\ y > 0 => x * y > 0
            OBVIOUS
        <3> QED
            BY <1>3, <3>1, <3>2
    <2> HIDE DEF S
    <2>3. Nat \subseteq S
        BY <2>1, <2>2, SetInduction
    <2> QED
        BY <2>3 DEF S
<1> QED
    BY <1>1, <1>2, <1>3

\* The rules of multiplication the proofs below use.
LEMMA MulFacts ==
    /\ \A x, y, z \in Int : /\ x * (y * z) = (x * y) * z
                            /\ x * (y + z) = x * y + x * z
                            /\ x * (y - z) = x * y - x * z
    /\ \A x, y \in Int : x * y = y * x /\ x * y \in Int
    /\ \A x, y \in Nat : x * y \in Nat
    /\ \A x, y, z \in Nat : x <= y => x * z <= y * z
    /\ \A x, y, z \in Nat : x < y /\ z > 0 => x * z < y * z
<1>1. \A x, y, z \in Int : x * (y * z) = (x * y) * z
    OBVIOUS
<1>2. \A x, y, z \in Int : x * (y + z) = x * y + x * z
    OBVIOUS
<1>3. \A x, y, z \in Int : x * (y - z) = x * y - x * z
    OBVIOUS
<1>4. \A x, y \in Int : x * y = y * x /\ x * y \in Int
    OBVIOUS
<1>5. \A x, y \in Nat : x * y \in Nat
    OBVIOUS
<1>6. \A x, y, z \in Nat : x <= y => x * z <= y * z
    OBVIOUS
<1>7. \A x, y, z \in Nat : x < y /\ z > 0 => x * z < y * z
    OBVIOUS
<1> QED
    BY <1>1, <1>2, <1>3, <1>4, <1>5, <1>6, <1>7

\* Quotient and remainder.
LEMMA DivFacts ==
    ASSUME NEW n \in Nat, NEW b \in Nat, b > 0
    PROVE  /\ n \div b \in Nat
           /\ n % b \in 0 .. b - 1
           /\ n = b * (n \div b) + (n % b)
OBVIOUS

\* A quotient and a remainder belong to one number.
LEMMA DivUnique ==
    ASSUME NEW b \in Nat, b > 0
    PROVE  \A p, q \in Nat : \A x, y \in 0 .. b - 1 : b * p + x = b * q + y => p = q /\ x = y
<1> SUFFICES ASSUME NEW p \in Nat, NEW q \in Nat, NEW x \in 0 .. b - 1, NEW y \in 0 .. b - 1,
                    b * p + x = b * q + y
             PROVE  p = q /\ x = y
    OBVIOUS
<1>1. ASSUME NEW m \in Nat, NEW n \in Nat, m < n, NEW v \in 0 .. b - 1, NEW w \in 0 .. b - 1
      PROVE  b * m + v < b * n + w
  <2>1. b * (m + 1) = b * m + b /\ (m + 1) * b = b * (m + 1) /\ n * b = b * n
        BY MulFacts
  <2>2. (m + 1) * b <= n * b
        BY <1>1, MulFacts
  <2>3. b * m \in Nat /\ b * n \in Nat
        BY MulFacts
  <2>4. PICK i \in Nat, j \in Nat : i = b * m /\ j = b * n /\ i + b <= j
        BY <2>1, <2>2, <2>3
  <2>5. QED BY <2>4
<1>2. ~(p < q) /\ ~(q < p)
  <2>1. b * p + x \in Nat /\ b * q + y \in Nat
        BY MulFacts
  <2>2. p < q => b * p + x < b * q + y
        BY <1>1
  <2>3. q < p => b * q + y < b * p + x
        BY <1>1
  <2>4. QED BY <2>1, <2>2, <2>3
<1>3. p = q
      BY <1>2
<1>4. PICK i \in Nat : i = b * p
      BY MulFacts
<1>5. QED BY <1>3, <1>4

\* A quotient is smaller than what is divided.
LEMMA DivDecreases ==
    ASSUME NEW n \in Nat, NEW b \in Nat, b > 1, n > 0
    PROVE  n \div b < n
OBVIOUS

-----------------------------------------------------------------------------
\* The power of a sum is the product of the powers.
LEMMA PowerSum ==
    ASSUME NEW b \in Nat, NEW m \in Nat
    PROVE  \A n \in Nat : Power(b, m + n) = Power(b, m) * Power(b, n)
<1> DEFINE S == {n \in Nat : Power(b, m + n) = Power(b, m) * Power(b, n)}
<1>1. 0 \in S
    <2>1. Power(b, m) \in Nat /\ Power(b, 0) = 1 /\ m + 0 = m
        BY PowerFacts
    <2> QED
        BY <2>1
<1>2. ASSUME NEW n \in Nat, n \in S
      PROVE  n + 1 \in S
    <2>1. /\ Power(b, n + 1) = b * Power(b, n)
          /\ Power(b, (m + n) + 1) = b * Power(b, m + n)
          /\ Power(b, n) \in Nat /\ Power(b, m) \in Nat
        <3>1. m + n \in Nat
            OBVIOUS
        <3> QED
            BY <3>1, PowerFacts
    <2>2. m + (n + 1) = (m + n) + 1
        OBVIOUS
    <2>3. Power(b, m + n) = Power(b, m) * Power(b, n)
        BY <1>2
    <2>4. \A x, y \in Nat : b * (x * y) = x * (b * y)
        BY MulFacts
    <2> QED
        BY <2>1, <2>2, <2>3, <2>4
<1> HIDE DEF S
<1>3. Nat \subseteq S
    BY <1>1, <1>2, SetInduction
<1> QED
    BY <1>3 DEF S

\* The powers of 16 and of 256 are powers of 2.
LEMMA PowersOfTwo ==
    \A n \in Nat : Power(16, n) = Power(2, 4 * n) /\ Power(256, n) = Power(2, 8 * n)
<1> DEFINE S == {n \in Nat : Power(16, n) = Power(2, 4 * n) /\ Power(256, n) = Power(2, 8 * n)}
<1>1. 0 \in S
    BY PowerFacts
<1>2. ASSUME NEW n \in Nat, n \in S
      PROVE  n + 1 \in S
    <2>1. Power(2, 4) = 16 /\ Power(2, 8) = 256
        <3>1. /\ Power(2, 0) = 1
              /\ Power(2, 0 + 1) = 2 * Power(2, 0)
              /\ Power(2, 1 + 1) = 2 * Power(2, 1)
              /\ Power(2, 2 + 1) = 2 * Power(2, 2)
              /\ Power(2, 3 + 1) = 2 * Power(2, 3)
              /\ Power(2, 4 + 1) = 2 * Power(2, 4)
              /\ Power(2, 5 + 1) = 2 * Power(2, 5)
              /\ Power(2, 6 + 1) = 2 * Power(2, 6)
              /\ Power(2, 7 + 1) = 2 * Power(2, 7)
            BY PowerFacts
        <3> QED
            BY <3>1
    <2>2. /\ Power(2, 4 * n + 4) = Power(2, 4 * n) * Power(2, 4)
          /\ Power(2, 8 * n + 8) = Power(2, 8 * n) * Power(2, 8)
        BY PowerSum
    <2>3. Power(16, n + 1) = 16 * Power(16, n) /\ Power(16, n) \in Nat
        BY PowerFacts
    <2>6. Power(256, n + 1) = 256 * Power(256, n) /\ Power(256, n) \in Nat
        BY PowerFacts
    <2>4. 4 * (n + 1) = 4 * n + 4 /\ 8 * (n + 1) = 8 * n + 8
        OBVIOUS
    <2>5. Power(16, n) = Power(2, 4 * n) /\ Power(256, n) = Power(2, 8 * n)
        BY <1>2
    <2> QED
        BY <2>1, <2>2, <2>3, <2>4, <2>5, <2>6
<1> HIDE DEF S
<1>3. Nat \subseteq S
    BY <1>1, <1>2, SetInduction
<1> QED
    BY <1>3 DEF S

\* The higher digits count by a power of the base.
LEMMA WorthConcat ==
    ASSUME NEW b \in Nat, NEW d \in Seq(Nat)
    PROVE  \A e \in Seq(Nat) :
             Worth(d \o e, b) = Worth(d, b) * Power(b, Len(e)) + Worth(e, b)
<1> DEFINE S == {e \in Seq(Nat) :
                   Worth(d \o e, b) = Worth(d, b) * Power(b, Len(e)) + Worth(e, b)}
<1>1. <<>> \in S
    <2>1. d \o <<>> = d /\ Len(<<>>) = 0 /\ <<>> \in Seq(Nat)
        OBVIOUS
    <2>2. Worth(d, b) \in Nat /\ Worth(<<>>, b) = 0 /\ Power(b, 0) = 1
        BY WorthFacts, PowerFacts
    <2> QED
        BY <2>1, <2>2
<1>2. ASSUME NEW e \in Seq(Nat), NEW x \in Nat, e \in S
      PROVE  Append(e, x) \in S
    <2>1. d \o Append(e, x) = Append(d \o e, x) /\ d \o e \in Seq(Nat)
        OBVIOUS
    <2>2. Append(e, x) \in Seq(Nat) /\ Len(Append(e, x)) = Len(e) + 1 /\ Len(e) \in Nat
        OBVIOUS
    <2>3. /\ Worth(Append(d \o e, x), b) = b * Worth(d \o e, b) + x
          /\ Worth(Append(e, x), b) = b * Worth(e, b) + x
          /\ Worth(d, b) \in Nat /\ Worth(e, b) \in Nat
        BY <2>1, WorthFacts
    <2>4. Power(b, Len(e) + 1) = b * Power(b, Len(e)) /\ Power(b, Len(e)) \in Nat
        BY <2>2, PowerFacts
    <2>5. Worth(d \o e, b) = Worth(d, b) * Power(b, Len(e)) + Worth(e, b)
        BY <1>2
    <2>6. \A w, p, v \in Nat : b * (w * p + v) + x = w * (b * p) + (b * v + x)
        <3> TAKE w, p, v \in Nat
        <3>1. w * p \in Nat /\ b * v \in Nat /\ b * (w * p) = w * (b * p) /\ b * (w * p) \in Nat
            BY MulFacts
        <3>2. b * (w * p + v) = b * (w * p) + b * v
            BY <3>1, MulFacts
        <3> QED
            BY <3>1, <3>2
    <2>7. Worth(d \o Append(e, x), b)
            = Worth(d, b) * Power(b, Len(e) + 1) + Worth(Append(e, x), b)
        BY <2>1, <2>3, <2>4, <2>5, <2>6
    <2> QED
        BY <2>2, <2>7
<1> HIDE DEF S
<1>3. Seq(Nat) \subseteq S
    BY <1>1, <1>2, SequenceInduction
<1> QED
    BY <1>3 DEF S

\* Zeros are worth nothing, and nothing in front of other digits.
LEMMA WorthOfZeros ==
    ASSUME NEW b \in Nat, NEW n \in Nat
    PROVE  /\ Worth(Zeros(n), b) = 0
           /\ \A d \in Seq(Nat) : Worth(Zeros(n) \o d, b) = Worth(d, b)
           /\ \A d \in Seq(Nat) : Worth(d \o Zeros(n), b) = Worth(d, b) * Power(b, n)
<1> DEFINE S == {k \in Nat : Worth(Zeros(k), b) = 0}
<1>1. 0 \in S
    BY ZerosFacts, WorthFacts
<1>2. ASSUME NEW k \in Nat, k \in S
      PROVE  k + 1 \in S
    <2>1. Zeros(k + 1) = Append(Zeros(k), 0) /\ Zeros(k) \in Seq(Nat)
        BY ZerosFacts
    <2>2. Worth(Append(Zeros(k), 0), b) = b * Worth(Zeros(k), b) + 0
        BY <2>1, WorthFacts
    <2>3. Worth(Zeros(k), b) = 0 /\ b * 0 + 0 = 0
        BY <1>2
    <2>4. Worth(Zeros(k + 1), b) = 0
        BY <2>1, <2>2, <2>3
    <2> QED
        BY <2>4
<1> HIDE DEF S
<1>3. Nat \subseteq S
    BY <1>1, <1>2, SetInduction
<1>4. Worth(Zeros(n), b) = 0
    BY <1>3 DEF S
<1>5. ASSUME NEW d \in Seq(Nat)
      PROVE  /\ Worth(Zeros(n) \o d, b) = Worth(d, b)
             /\ Worth(d \o Zeros(n), b) = Worth(d, b) * Power(b, n)
    <2>1. Zeros(n) \in Seq(Nat) /\ Len(Zeros(n)) = n
        BY ZerosFacts
    <2>4. Len(d) \in Nat
        OBVIOUS
    <2>2. /\ Worth(Zeros(n) \o d, b) = Worth(Zeros(n), b) * Power(b, Len(d)) + Worth(d, b)
          /\ Worth(d \o Zeros(n), b) = Worth(d, b) * Power(b, n) + Worth(Zeros(n), b)
        BY <2>1, WorthConcat
    <2>3. Power(b, Len(d)) \in Nat /\ Worth(d, b) \in Nat /\ Power(b, n) \in Nat
        BY <2>4, WorthFacts, PowerFacts
    <2> QED
        BY <1>4, <2>2, <2>3
<1> QED
    BY <1>4, <1>5

\* What n digits are worth is less than the power of n.
LEMMA WorthBound ==
    ASSUME NEW b \in Nat, b > 0
    PROVE  \A d \in Seq(0 .. b - 1) : Worth(d, b) < Power(b, Len(d))
<1> DEFINE S == {d \in Seq(0 .. b - 1) : Worth(d, b) < Power(b, Len(d))}
<1>1. <<>> \in S
    <2>1. Len(<<>>) = 0 /\ <<>> \in Seq(0 .. b - 1)
        OBVIOUS
    <2> QED
        BY <2>1, WorthFacts, PowerFacts
<1>2. ASSUME NEW d \in Seq(0 .. b - 1), NEW x \in 0 .. b - 1, d \in S
      PROVE  Append(d, x) \in S
    <2>1. d \in Seq(Nat) /\ x \in Nat /\ Len(d) \in Nat
        BY SeqMonotonic
    <2>2. Append(d, x) \in Seq(0 .. b - 1) /\ Len(Append(d, x)) = Len(d) + 1
        OBVIOUS
    <2>3. /\ Worth(Append(d, x), b) = b * Worth(d, b) + x /\ Worth(d, b) \in Nat
          /\ Power(b, Len(d) + 1) = b * Power(b, Len(d)) /\ Power(b, Len(d)) \in Nat
        BY <2>1, WorthFacts, PowerFacts
    <2>4. Worth(d, b) + 1 <= Power(b, Len(d))
        BY <1>2, <2>3
    <2>5. \A w, p \in Nat : w + 1 <= p => b * w + x < b * p
        <3> SUFFICES ASSUME NEW w \in Nat, NEW p \in Nat, w + 1 <= p PROVE b * w + x < b * p
            OBVIOUS
        <3>1. (w + 1) * b <= p * b
            BY MulFacts
        <3>2. b * (w + 1) = b * w + b /\ b * w \in Nat /\ b * p \in Nat
            BY MulFacts
        <3>3. b * (w + 1) <= b * p
            BY <3>1, MulFacts
        <3> QED
            BY <3>2, <3>3
    <2> QED
        BY <2>2, <2>3, <2>4, <2>5
<1> HIDE DEF S
<1>3. Seq(0 .. b - 1) \subseteq S
    BY <1>1, <1>2, SequenceInduction
<1> QED
    BY <1>3 DEF S

\* As many digits that are worth the same are the same.
LEMMA SameWorth ==
    ASSUME NEW b \in Nat, b > 0
    PROVE  \A d, e \in Seq(0 .. b - 1) : Len(d) = Len(e) /\ Worth(d, b) = Worth(e, b) => d = e
<1> DEFINE T == 0 .. b - 1
           S == {d \in Seq(T) :
                   \A e \in Seq(T) : Len(d) = Len(e) /\ Worth(d, b) = Worth(e, b) => d = e}
<1>1. <<>> \in S
      BY EmptySeq
<1>2. ASSUME NEW d \in Seq(T), NEW x \in T, d \in S
      PROVE  Append(d, x) \in S
  <2>1. SUFFICES ASSUME NEW e \in Seq(T), Len(Append(d, x)) = Len(e),
                        Worth(Append(d, x), b) = Worth(e, b)
                 PROVE  Append(d, x) = e
        BY <1>2
  <2>2. PICK f \in Seq(T), y \in T : e = Append(f, y)
    <3>1. Len(e) = Len(d) + 1 /\ Len(d) \in Nat
          BY <2>1
    <3>2. e # <<>>
          BY <3>1
    <3>3. QED BY <3>2, SequenceEmptyOrAppend
  <2>3. Len(d) = Len(f)
        BY <2>1, <2>2
  <2>4. d \in Seq(Nat) /\ f \in Seq(Nat) /\ x \in Nat /\ y \in Nat
    <3>1. T \subseteq Nat
          OBVIOUS
    <3> HIDE DEF T
    <3>2. QED BY <3>1, SeqMonotonic
  <2>5. b * Worth(d, b) + x = b * Worth(f, b) + y /\ Worth(d, b) \in Nat /\ Worth(f, b) \in Nat
        BY <2>1, <2>2, <2>4, WorthFacts
  <2>6. Worth(d, b) = Worth(f, b) /\ x = y
    <3>1. PICK p \in Nat, q \in Nat : p = Worth(d, b) /\ q = Worth(f, b)
          BY <2>5
    <3>2. b * p + x = b * q + y
          BY <2>5, <3>1
    <3>3. x \in 0 .. b - 1 /\ y \in 0 .. b - 1
          OBVIOUS
    <3>6. \A i, j \in Nat : \A v, w \in 0 .. b - 1 : b * i + v = b * j + w => i = j /\ v = w
          BY DivUnique
    <3>7. p \in Nat /\ q \in Nat
          OBVIOUS
    <3> HIDE DEF T, S
    <3>8. \A v, w \in 0 .. b - 1 : b * p + v = b * q + w => p = q /\ v = w
          BY <3>6, <3>7, Zenon
    <3>9. b * p + x = b * q + y => p = q /\ x = y
          BY <3>3, <3>8, Zenon
    <3>4. p = q /\ x = y
          BY <3>2, <3>9, Zenon
    <3>5. QED BY <3>1, <3>4
  <2>7. d = f
        BY <1>2, <2>3, <2>6
  <2>8. QED BY <2>2, <2>6, <2>7
<1> HIDE DEF S
<1>3. Seq(T) \subseteq S
  <2> HIDE DEF T
  <2>1. QED BY <1>1, <1>2, SequenceInduction
<1>4. QED BY <1>3 DEF S

\* f gives the digits in base b of every number up to m.
DigitsUpTo(f, m, b) ==
    f = [n \in 0 .. m |-> IF n < b THEN <<n>> ELSE Append(f[n \div b], n % b)]

\* There is such a function for every bound.
LEMMA DigitsExist ==
    ASSUME NEW b \in Nat, b > 1
    PROVE  \A m \in Nat : \E f \in [0 .. m -> Seq(Nat)] : DigitsUpTo(f, m, b)
<1>0. ASSUME NEW n \in Nat
      PROVE  n \div b \in Nat /\ n % b \in Nat
  <2>1. b > 0
        OBVIOUS
  <2>2. n \div b \in Nat /\ n % b \in 0 .. b - 1
        BY <2>1, DivFacts
  <2>3. QED BY <2>2
<1> DEFINE S == {m \in Nat : \E f \in [0 .. m -> Seq(Nat)] : DigitsUpTo(f, m, b)}
<1>1. 0 \in S
  <2>1. [n \in 0 .. 0 |-> <<n>>] \in [0 .. 0 -> Seq(Nat)]
        OBVIOUS
  <2>2. DigitsUpTo([n \in 0 .. 0 |-> <<n>>], 0, b)
        BY DEF DigitsUpTo
  <2>3. QED BY <2>1, <2>2
<1>2. ASSUME NEW m \in Nat, m \in S
      PROVE  m + 1 \in S
  <2>1. PICK f \in [0 .. m -> Seq(Nat)] : DigitsUpTo(f, m, b)
        BY <1>2
  <2>2. \A n \in 0 .. m : f[n] = IF n < b THEN <<n>> ELSE Append(f[n \div b], n % b)
        BY <2>1 DEF DigitsUpTo
  <2>3. \A n \in Nat : n > 0 => n \div b < n
        BY DivDecreases
  <2>4. \A n \in Nat : n \div b \in Nat /\ n % b \in Nat
        BY <1>0
  <2>5. PICK k \in Nat : k = m + 1
        OBVIOUS
  <2>6. PICK last \in Seq(Nat) : last = IF k < b THEN <<k>> ELSE Append(f[k \div b], k % b)
    <3>1. k \div b \in Nat /\ k % b \in Nat /\ k \div b < k
          BY <2>3, <2>4, <2>5
    <3>2. k \div b \in 0 .. m
          BY <2>5, <3>1
    <3>3. f[k \div b] \in Seq(Nat)
          BY <3>2
    <3>4. Append(f[k \div b], k % b) \in Seq(Nat)
          BY <3>1, <3>3
    <3>5. <<k>> \in Seq(Nat)
          OBVIOUS
    <3>6. QED BY <3>4, <3>5
  <2> DEFINE g == [n \in 0 .. k |-> IF n = k THEN last ELSE f[n]]
  <2>7. \A n \in 0 .. m : g[n] = f[n]
        BY <2>5
  <2>8. g[k] = last /\ g \in [0 .. k -> Seq(Nat)]
        BY <2>5
  <2> HIDE DEF g
  <2>9. ASSUME NEW n \in 0 .. k
        PROVE  g[n] = IF n < b THEN <<n>> ELSE Append(g[n \div b], n % b)
    <3>1. PICK q : q = n \div b
          OBVIOUS
    <3>2. n >= b => q \in 0 .. m
      <4>1. n \in Nat /\ (n >= b => n > 0)
            OBVIOUS
      <4>2. n >= b => q \in Nat /\ q < n
            BY <2>3, <2>4, <3>1, <4>1
      <4>3. QED BY <2>5, <4>2
    <3>3. CASE n = k
      <4>1. n >= b => g[q] = f[q]
            BY <2>7, <3>2
      <4>2. CASE n < b
            BY <2>6, <2>8, <3>3, <4>2
      <4>3. CASE n >= b
        <5>1. last = Append(f[q], n % b)
              BY <2>6, <3>1, <3>3, <4>3
        <5>2. ~(n < b)
              BY <4>3
        <5>3. QED BY <2>8, <3>1, <3>3, <4>1, <4>3, <5>1, <5>2
      <4>4. QED BY <4>2, <4>3
    <3>4. CASE n # k
      <4>1. n \in 0 .. m
            BY <2>5, <3>4
      <4>2. f[n] = IF n < b THEN <<n>> ELSE Append(f[q], n % b)
            BY <2>2, <3>1, <4>1
      <4>3. n >= b => g[q] = f[q]
            BY <2>7, <3>2
      <4>4. g[n] = f[n]
            BY <2>7, <4>1
      <4>5. QED BY <3>1, <4>2, <4>3, <4>4
    <3>5. QED BY <3>3, <3>4
  <2>10. DigitsUpTo(g, k, b)
        BY <2>8, <2>9 DEF DigitsUpTo
  <2>11. QED BY <2>5, <2>8, <2>10
<1>3. Nat \subseteq S
      BY <1>1, <1>2, SetInduction
<1>4. QED BY <1>3 DEF S

\* Two such functions agree where both are defined.
LEMMA DigitsAgree ==
    ASSUME NEW b \in Nat, b > 1, NEW k \in Nat, NEW m \in Nat,
           NEW f, NEW g, DigitsUpTo(f, k, b), DigitsUpTo(g, m, b)
    PROVE  \A n \in Nat : n <= k /\ n <= m => f[n] = g[n]
<1> DEFINE S == {n \in Nat : n <= k /\ n <= m => f[n] = g[n]}
<1>1. ASSUME NEW n \in Nat, \A i \in Nat : i < n => i \in S
      PROVE  n \in S
  <2>1. SUFFICES ASSUME n <= k, n <= m
                 PROVE  f[n] = g[n]
        OBVIOUS
  <2>7. \A j \in 0 .. k : f[j] = IF j < b THEN <<j>> ELSE Append(f[j \div b], j % b)
        BY DEF DigitsUpTo
  <2>8. \A j \in 0 .. m : g[j] = IF j < b THEN <<j>> ELSE Append(g[j \div b], j % b)
        BY DEF DigitsUpTo
  <2>9. n \in 0 .. k /\ n \in 0 .. m
        BY <2>1
  <2>2. f[n] = IF n < b THEN <<n>> ELSE Append(f[n \div b], n % b)
        BY <2>7, <2>9
  <2>3. g[n] = IF n < b THEN <<n>> ELSE Append(g[n \div b], n % b)
        BY <2>8, <2>9
  <2>4. CASE n < b
        BY <2>2, <2>3, <2>4
  <2>5. CASE n >= b
    <3>1. n \div b \in Nat /\ n \div b < n
          BY <2>5, DivFacts, DivDecreases
    <3>2. n \div b \in S /\ n \div b <= k /\ n \div b <= m
          BY <1>1, <2>1, <3>1
    <3>3. f[n \div b] = g[n \div b]
          BY <3>2
    <3>4. QED BY <2>2, <2>3, <2>5, <3>3
  <2>6. QED BY <2>4, <2>5
<1>2. Nat \subseteq S
      BY <1>1, StrongSetInduction
<1>3. QED BY <1>2 DEF S

\* Digits is defined by the quotient and the last digit.
LEMMA DigitsIs ==
    ASSUME NEW b \in Nat, b > 1
    PROVE  /\ \A n \in Nat : Digits(n, b) \in Seq(Nat)
           /\ \A n \in Nat : Digits(n, b) = IF n < b THEN <<n>>
                                            ELSE Append(Digits(n \div b, b), n % b)
<1> DEFINE Part(m) == CHOOSE f \in [0 .. m -> Seq(Nat)] : DigitsUpTo(f, m, b)
           F == [n \in Nat |-> Part(n)[n]]
<1>1. \A m \in Nat : Part(m) \in [0 .. m -> Seq(Nat)] /\ DigitsUpTo(Part(m), m, b)
      BY DigitsExist
<1> HIDE DEF Part
<1>2. F \in [Nat -> Seq(Nat)]
      BY <1>1
<1>3. ASSUME NEW n \in Nat
      PROVE  F[n] = IF n < b THEN <<n>> ELSE Append(F[n \div b], n % b)
  <2> DEFINE f == Part(n)
             q == n \div b
             g == Part(q)
  <2>2. q \in Nat /\ q <= n
        BY DivFacts, DivDecreases
  <2>6. DigitsUpTo(f, n, b) /\ DigitsUpTo(g, q, b)
        BY <1>1, <2>2
  <2> HIDE DEF f, g
  <2>7. \A j \in 0 .. n : f[j] = IF j < b THEN <<j>> ELSE Append(f[j \div b], j % b)
        BY <2>6 DEF DigitsUpTo
  <2>8. n \in 0 .. n
        OBVIOUS
  <2>1. f[n] = IF n < b THEN <<n>> ELSE Append(f[q], n % b)
        BY <2>7, <2>8
  <2> HIDE DEF q
  <2>3. f[q] = g[q]
        BY <2>2, <2>6, DigitsAgree
  <2>4. F[n] = f[n] /\ F[q] = g[q]
        BY <2>2 DEF f, g
  <2>5. QED BY <2>1, <2>3, <2>4 DEF q
<1> DEFINE Is(f) == f = [n \in Nat |-> IF n < b THEN <<n>> ELSE Append(f[n \div b], n % b)]
<1>4. Is(F)
      BY <1>2, <1>3
<1>5. DigitsIn(b) = CHOOSE f : Is(f)
      BY DEF DigitsIn
<1>6. Is(DigitsIn(b))
      BY <1>4, <1>5, Zenon
<1> DEFINE D == DigitsIn(b)
<1>7. \A n \in Nat : D[n] = IF n < b THEN <<n>> ELSE Append(D[n \div b], n % b)
      BY <1>6
<1> HIDE DEF D
<1> DEFINE S == {n \in Nat : D[n] \in Seq(Nat)}
<1>8. ASSUME NEW n \in Nat, \A i \in Nat : i < n => i \in S
      PROVE  n \in S
  <2>1. CASE n < b
    <3>1. D[n] = <<n>>
          BY <1>7, <2>1
    <3>2. D[n] \in Seq(Nat)
          BY <3>1
    <3>3. QED BY <3>2
  <2>2. CASE n >= b
    <3>1. n \div b \in Nat /\ n \div b < n /\ n % b \in Nat
          BY <2>2, DivFacts, DivDecreases
    <3>2. D[n \div b] \in Seq(Nat)
          BY <1>8, <3>1
    <3>3. ~(n < b)
          BY <2>2
    <3>4. D[n] = Append(D[n \div b], n % b)
          BY <1>7, <3>3
    <3>6. \A e \in Seq(Nat), x \in Nat : Append(e, x) \in Seq(Nat)
          OBVIOUS
    <3>7. D[n] \in Seq(Nat)
          BY <3>1, <3>2, <3>4, <3>6
    <3>5. QED BY <3>7
  <2>3. QED BY <2>1, <2>2
<1>9. Nat \subseteq S
      BY <1>8, StrongSetInduction
<1>10. QED BY <1>7, <1>9 DEF Digits, D

\* A digit alone is worth itself.
LEMMA WorthOne ==
    ASSUME NEW b \in Nat, NEW x \in Nat
    PROVE  Worth(<<x>>, b) = x
<1>1. PICK e : e = <<>>
      OBVIOUS
<1>2. e \in Seq(Nat) /\ Append(e, x) = <<x>>
      BY <1>1
<1>3. Worth(Append(e, x), b) = b * Worth(e, b) + x
      BY <1>2, WorthFacts
<1>4. Worth(e, b) = 0
      BY <1>1, WorthFacts
<1>5. QED BY <1>2, <1>3, <1>4

\* The digits of a number are digits, worth the number, and no more than needed.
LEMMA DigitsFacts ==
    ASSUME NEW b \in Nat, b > 1
    PROVE  \A n \in Nat : /\ Digits(n, b) \in Seq(0 .. b - 1)
                          /\ Len(Digits(n, b)) >= 1
                          /\ Worth(Digits(n, b), b) = n
                          /\ Len(Digits(n, b)) > 1 => Digits(n, b)[1] # 0
<1> DEFINE Good(n) == /\ Digits(n, b) \in Seq(0 .. b - 1)
                      /\ Len(Digits(n, b)) >= 1
                      /\ Worth(Digits(n, b), b) = n
                      /\ n > 0 => Digits(n, b)[1] # 0
           S == {n \in Nat : Good(n)}
<1>1. ASSUME NEW n \in Nat, \A i \in Nat : i < n => i \in S
      PROVE  n \in S
  <2>1. CASE n < b
    <3>1. Digits(n, b) = <<n>> /\ n \in 0 .. b - 1 /\ n \in Nat
          BY <2>1, DigitsIs
    <3>2. Worth(<<n>>, b) = n
          BY WorthOne
    <3>3. <<n>> \in Seq(0 .. b - 1) /\ Len(<<n>>) >= 1 /\ <<n>>[1] = n
          BY <3>1
    <3>4. Good(n)
          BY <3>1, <3>2, <3>3
    <3>5. QED BY <3>4
  <2>2. CASE n >= b
    <3>1. n \div b \in Nat /\ n \div b < n /\ n % b \in 0 .. b - 1 /\ n % b \in Nat
          /\ n = b * (n \div b) + (n % b)
          BY <2>2, DivFacts, DivDecreases
    <3>2. n \div b > 0
          BY <2>2, <3>1
    <3>4. Digits(n, b) = Append(Digits(n \div b, b), n % b)
      <4>1. ~(n < b)
            BY <2>2
      <4>2. Digits(n, b) = IF n < b THEN <<n>> ELSE Append(Digits(n \div b, b), n % b)
            BY DigitsIs
      <4>3. QED BY <4>1, <4>2
    <3> DEFINE d == Digits(n \div b, b)
    <3>3. d \in Seq(0 .. b - 1) /\ d \in Seq(Nat) /\ Len(d) >= 1 /\ Worth(d, b) = n \div b /\ d[1] # 0
          BY <1>1, <3>1, <3>2, DigitsIs
    <3> HIDE DEF d
    <3>5. Append(d, n % b) \in Seq(0 .. b - 1) /\ Len(Append(d, n % b)) >= 1
          /\ Append(d, n % b)[1] # 0
          BY <3>1, <3>3
    <3>6. Worth(Append(d, n % b), b) = b * Worth(d, b) + (n % b)
          BY <3>1, <3>3, WorthFacts
    <3>7. Worth(Append(d, n % b), b) = n
          BY <3>1, <3>3, <3>6
    <3>8. Digits(n, b) = Append(d, n % b)
          BY <3>4 DEF d
    <3>9. Good(n)
          BY <3>5, <3>7, <3>8
    <3>10. QED BY <3>9
  <2>3. QED BY <2>1, <2>2
<1>2. Nat \subseteq S
      BY <1>1, StrongSetInduction
<1>3. ASSUME NEW n \in Nat
      PROVE  n = 0 => Len(Digits(n, b)) = 1
  <2>1. Digits(0, b) = IF 0 < b THEN <<0>> ELSE Append(Digits(0 \div b, b), 0 % b)
        BY DigitsIs
  <2>2. Digits(0, b) = <<0>>
        BY <2>1
  <2>3. Len(<<0>>) = 1
        OBVIOUS
  <2>4. QED BY <2>2, <2>3
<1>4. \A n \in Nat : Good(n)
      BY <1>2
<1>5. ASSUME NEW n \in Nat
      PROVE  Len(Digits(n, b)) > 1 => Digits(n, b)[1] # 0
  <2>1. n = 0 \/ n > 0
        OBVIOUS
  <2>2. CASE n = 0
    <3>1. Len(Digits(n, b)) = 1
          BY <1>3, <2>2
    <3>2. ~(1 > 1)
          OBVIOUS
    <3>3. QED BY <3>1, <3>2
  <2>3. CASE n > 0
        BY <1>4, <2>3
  <2>4. QED BY <2>1, <2>2, <2>3
<1>6. QED BY <1>4, <1>5

\* A number under the power of n has at most n digits.
LEMMA DigitsLength ==
    ASSUME NEW b \in Nat, b > 1, NEW n \in Nat, NEW k \in Nat, k > 0, n < Power(b, k)
    PROVE  Len(Digits(n, b)) <= k
<1> DEFINE d == Digits(n, b)
           e == Tail(d)
<1>1. d \in Seq(0 .. b - 1) /\ Len(d) >= 1 /\ Worth(d, b) = n /\ (Len(d) > 1 => d[1] # 0)
      BY DigitsFacts
<1> HIDE DEF d
<1>2. SUFFICES ASSUME Len(d) > k PROVE FALSE
      BY <1>1 DEF d
<1>3. e \in Seq(Nat) /\ Len(e) = Len(d) - 1 /\ d = <<d[1]>> \o e /\ d[1] \in Nat /\ d[1] > 0
      /\ Len(e) \in Nat /\ Len(d) \in Nat
      BY <1>1, <1>2
<1> HIDE DEF e
<1>7. Worth(<<d[1]>>, b) = d[1]
      BY <1>3, WorthOne
<1>8. <<d[1]>> \in Seq(Nat)
      BY <1>3
<1>9. Worth(<<d[1]>> \o e, b) = Worth(<<d[1]>>, b) * Power(b, Len(e)) + Worth(e, b)
      BY <1>3, <1>8, WorthConcat
<1>10. n = d[1] * Power(b, Len(e)) + Worth(e, b) /\ Worth(e, b) \in Nat /\ Power(b, Len(e)) \in Nat
       BY <1>1, <1>3, <1>7, <1>9, WorthFacts, PowerFacts
<1>11. n >= Power(b, Len(e))
  <2>1. \A p, q, w \in Nat : p > 0 => p * q + w >= q
        OBVIOUS
  <2>2. d[1] * Power(b, Len(e)) + Worth(e, b) >= Power(b, Len(e))
        BY <1>3, <1>10, <2>1
  <2>3. QED BY <1>10, <2>2
<1>12. Power(b, Len(e)) >= Power(b, k)
  <2>1. PICK j \in Nat : Len(e) = k + j
    <3>1. Len(e) - k \in Nat /\ Len(e) = k + (Len(e) - k)
          BY <1>2, <1>3
    <3>2. QED BY <3>1
  <2>2. Power(b, k + j) = Power(b, k) * Power(b, j)
        BY PowerSum
  <2>3. Power(b, k) \in Nat /\ Power(b, j) \in Nat /\ Power(b, j) > 0
    <3>1. \A i \in Nat : Power(b, i) \in Nat /\ (b > 0 => Power(b, i) > 0)
          BY PowerFacts
    <3>2. QED BY <3>1
  <2>4. \A p, q \in Nat : q > 0 => p * q >= p
        OBVIOUS
  <2>5. QED BY <2>1, <2>2, <2>3, <2>4
<1>13. Power(b, k) \in Nat /\ Power(b, Len(e)) \in Nat
       BY <1>3, PowerFacts
<1>14. QED BY <1>11, <1>12, <1>13

\* Two sequences of the same elements are one.
LEMMA SameSequence ==
    ASSUME NEW T, NEW s \in Seq(T), NEW t \in Seq(T), Len(s) = Len(t),
           \A i \in 1 .. Len(s) : s[i] = t[i]
    PROVE  s = t
OBVIOUS

\* The elements of a sequence over T are in T.
LEMMA ElementsOf ==
    ASSUME NEW T, NEW s \in Seq(T)
    PROVE  \A i \in 1 .. Len(s) : s[i] \in T
OBVIOUS

\* The type, the length and the elements of a concatenation.
LEMMA ConcatFacts ==
    ASSUME NEW T, NEW s \in Seq(T), NEW t \in Seq(T)
    PROVE  /\ s \o t \in Seq(T)
           /\ Len(s \o t) = Len(s) + Len(t)
           /\ \A i \in 1 .. Len(s) : (s \o t)[i] = s[i]
           /\ \A i \in 1 .. Len(t) : (s \o t)[Len(s) + i] = t[i]
OBVIOUS

\* Digits and bytes are numbers.
LEMMA Narrower ==
    /\ \A d \in Seq(0 .. 9) : d \in Seq(Nat)
    /\ \A d \in Seq(0 .. 15) : d \in Seq(Nat)
    /\ \A d \in Seq(0 .. 255) : d \in Seq(Nat)
<1>1. 0 .. 9 \subseteq Nat /\ 0 .. 15 \subseteq Nat /\ 0 .. 255 \subseteq Nat
      OBVIOUS
<1>2. \A d \in Seq(0 .. 9) : d \in Seq(Nat)
      BY <1>1, SeqMonotonic
<1>3. \A d \in Seq(0 .. 15) : d \in Seq(Nat)
      BY <1>1, SeqMonotonic
<1>4. \A d \in Seq(0 .. 255) : d \in Seq(Nat)
      BY <1>1, SeqMonotonic, ZenonT(60)
<1>5. QED BY <1>2, <1>3, <1>4

\* Padding fills up with zeros, and refuses what is too long.
LEMMA PadFacts ==
    ASSUME NEW T, 0 \in T, NEW v \in Seq(T), NEW n \in Nat
    PROVE  \A dir \in {"left", "right"} :
             /\ Len(v) > n => Pad(v, n, dir) = Thrown
             /\ Len(v) <= n =>
                  /\ Pad(v, n, dir) = IF dir = "right" THEN v \o Zeros(n - Len(v))
                                      ELSE Zeros(n - Len(v)) \o v
                  /\ Pad(v, n, dir) \in Seq(T)
                  /\ Len(Pad(v, n, dir)) = n
<1> SUFFICES ASSUME NEW dir \in {"left", "right"}
             PROVE  /\ Len(v) > n => Pad(v, n, dir) = Thrown
                    /\ Len(v) <= n =>
                         /\ Pad(v, n, dir) = IF dir = "right" THEN v \o Zeros(n - Len(v))
                                             ELSE Zeros(n - Len(v)) \o v
                         /\ Pad(v, n, dir) \in Seq(T)
                         /\ Len(Pad(v, n, dir)) = n
    OBVIOUS
<1>1. Len(v) > n => Pad(v, n, dir) = Thrown
      BY DEF Pad
<1>2. ASSUME Len(v) <= n
      PROVE  /\ Pad(v, n, dir) = IF dir = "right" THEN v \o Zeros(n - Len(v))
                                 ELSE Zeros(n - Len(v)) \o v
             /\ Pad(v, n, dir) \in Seq(T)
             /\ Len(Pad(v, n, dir)) = n
  <2>1. PICK m \in Nat : m = n - Len(v)
        BY <1>2
  <2>2. PICK z \in Seq(T) : z = Zeros(m) /\ Len(z) = m
    <3>1. Zeros(m) \in Seq({0}) /\ Len(Zeros(m)) = m
          BY ZerosFacts
    <3>2. Zeros(m) \in Seq(T)
          BY <3>1
    <3>3. QED BY <3>1, <3>2
  <2>3. ~(Len(v) > n)
        BY <1>2
  <2>4. Pad(v, n, dir) = IF dir = "right" THEN v \o z ELSE z \o v
        BY <2>1, <2>2, <2>3 DEF Pad
  <2>5. v \o z \in Seq(T) /\ z \o v \in Seq(T) /\ Len(v \o z) = n /\ Len(z \o v) = n
        BY <2>1, <2>2
  <2>6. QED BY <2>1, <2>2, <2>4, <2>5
<1>3. QED BY <1>1, <1>2

-----------------------------------------------------------------------------
\* Bytes are two digits each, and two digits are a byte again.
LEMMA NibblesFacts ==
    ASSUME NEW b \in Seq(0 .. 255)
    PROVE  /\ Nibbles(b) \in Seq(0 .. 15)
           /\ Len(Nibbles(b)) = 2 * Len(b)
           /\ \A j \in 1 .. Len(b) : /\ Nibbles(b)[2 * j - 1] = b[j] \div 16
                                     /\ Nibbles(b)[2 * j] = b[j] % 16
           /\ Paired(Nibbles(b)) = b
<1>1. ASSUME NEW i \in 1 .. 2 * Len(b)
      PROVE  (IF i % 2 = 1 THEN b[(i + 1) \div 2] \div 16 ELSE b[i \div 2] % 16) \in 0 .. 15
  <2>1. \A x \in 0 .. 255 : x \div 16 \in 0 .. 15 /\ x % 16 \in 0 .. 15
        OBVIOUS
  <2>2. i % 2 = 1 => (i + 1) \div 2 \in 1 .. Len(b)
        OBVIOUS
  <2>3. i % 2 # 1 => i \div 2 \in 1 .. Len(b)
        OBVIOUS
  <2>4. \A j \in 1 .. Len(b) : b[j] \in 0 .. 255
        BY ElementsOf
  <2>5. QED BY <2>1, <2>2, <2>3, <2>4
<1> DEFINE d == Nibbles(b)
<1>2. d \in [1 .. 2 * Len(b) -> 0 .. 15]
      BY <1>1 DEF Nibbles
<1>3. ASSUME NEW j \in 1 .. Len(b)
      PROVE  d[2 * j - 1] = b[j] \div 16 /\ d[2 * j] = b[j] % 16
  <2>1. 2 * j - 1 \in 1 .. 2 * Len(b) /\ 2 * j \in 1 .. 2 * Len(b)
        OBVIOUS
  <2>2. (2 * j - 1) % 2 = 1 /\ ((2 * j - 1) + 1) \div 2 = j /\ (2 * j) % 2 = 0 /\ (2 * j) \div 2 = j
        OBVIOUS
  <2>3. QED BY <2>1, <2>2 DEF Nibbles
<1>4. d \in Seq(0 .. 15) /\ Len(d) = 2 * Len(b)
      BY <1>2, SMTT(60)
<1> HIDE DEF d
<1>5. Paired(d) = b
  <2>1. Len(d) \div 2 = Len(b)
        BY <1>4
  <2>2. \A j \in 1 .. Len(b) : 16 * d[2 * j - 1] + d[2 * j] = b[j]
    <3> SUFFICES ASSUME NEW j \in 1 .. Len(b) PROVE 16 * d[2 * j - 1] + d[2 * j] = b[j]
        OBVIOUS
    <3>1. \A x \in 0 .. 255 : 16 * (x \div 16) + (x % 16) = x
          OBVIOUS
    <3>2. b[j] \in 0 .. 255
          BY ElementsOf
    <3>3. QED BY <1>3, <3>1, <3>2
  <2>3. Paired(d) = [j \in 1 .. Len(b) |-> b[j]]
        BY <2>1, <2>2 DEF Paired
  <2>4. QED BY <2>3
<1>6. QED BY <1>3, <1>4, <1>5 DEF d

\* Paired makes a byte of every two digits, and Nibbles takes it apart again.
LEMMA PairedFacts ==
    ASSUME NEW d \in Seq(0 .. 15), NEW n \in Nat, Len(d) = 2 * n
    PROVE  /\ Paired(d) \in Seq(0 .. 255)
           /\ Len(Paired(d)) = n
           /\ \A j \in 1 .. n : Paired(d)[j] = 16 * d[2 * j - 1] + d[2 * j]
           /\ Nibbles(Paired(d)) = d
<1> DEFINE b == Paired(d)
<1>1. Len(d) \div 2 = n
      OBVIOUS
<1>2. ASSUME NEW j \in 1 .. n
      PROVE  d[2 * j - 1] \in 0 .. 15 /\ d[2 * j] \in 0 .. 15
  <2>1. 2 * j - 1 \in 1 .. Len(d) /\ 2 * j \in 1 .. Len(d)
        OBVIOUS
  <2>2. QED BY <2>1, ElementsOf
<1>3. b = [j \in 1 .. n |-> 16 * d[2 * j - 1] + d[2 * j]]
      BY <1>1 DEF Paired
<1>4. ASSUME NEW j \in 1 .. n
      PROVE  16 * d[2 * j - 1] + d[2 * j] \in 0 .. 255
  <2>1. \A x, y \in 0 .. 15 : 16 * x + y \in 0 .. 255
        OBVIOUS
  <2>2. QED BY <1>2, <2>1
<1>5. b \in [1 .. n -> 0 .. 255] /\ \A j \in 1 .. n : b[j] = 16 * d[2 * j - 1] + d[2 * j]
      BY <1>3, <1>4
<1>6. b \in Seq(0 .. 255) /\ Len(b) = n
      BY <1>5
<1> HIDE DEF b
<1>7. Nibbles(b) = d
  <2>1. Nibbles(b) \in Seq(0 .. 15) /\ Len(Nibbles(b)) = 2 * n
        BY <1>6, NibblesFacts
  <2>2. ASSUME NEW i \in 1 .. 2 * n PROVE Nibbles(b)[i] = d[i]
    <3>1. PICK j \in 1 .. n : i = 2 * j - 1 \/ i = 2 * j
      <4>1. (i + 1) \div 2 \in 1 .. n /\ (i = 2 * ((i + 1) \div 2) - 1 \/ i = 2 * ((i + 1) \div 2))
            OBVIOUS
      <4>2. QED BY <4>1
    <3>2. Nibbles(b)[2 * j - 1] = b[j] \div 16 /\ Nibbles(b)[2 * j] = b[j] % 16
          BY <1>6, NibblesFacts
    <3>3. \A x, y \in 0 .. 15 : (16 * x + y) \div 16 = x /\ (16 * x + y) % 16 = y
          OBVIOUS
    <3>6. b[j] = 16 * d[2 * j - 1] + d[2 * j] /\ d[2 * j - 1] \in 0 .. 15 /\ d[2 * j] \in 0 .. 15
          BY <1>2, <1>5
    <3>7. PICK x \in 0 .. 15, y \in 0 .. 15 : x = d[2 * j - 1] /\ y = d[2 * j]
          BY <3>6
    <3>8. b[j] = 16 * x + y
          BY <3>6, <3>7
    <3>4. b[j] \div 16 = d[2 * j - 1] /\ b[j] % 16 = d[2 * j]
      <4>1. (16 * x + y) \div 16 = x /\ (16 * x + y) % 16 = y
            BY <3>3
      <4>2. QED BY <3>7, <3>8, <4>1
    <3>5. QED BY <3>1, <3>2, <3>4
  <2>3. QED BY <2>1, <2>2, SameSequence
<1>8. QED BY <1>5, <1>6, <1>7 DEF b

\* Bytes are worth what their digits are.
LEMMA PairedWorth ==
    \A n \in Nat : \A d \in Seq(0 .. 15) : Len(d) = 2 * n => Worth(Paired(d), 256) = Worth(d, 16)
<1> DEFINE S == {n \in Nat : \A d \in Seq(0 .. 15) :
                               Len(d) = 2 * n => Worth(Paired(d), 256) = Worth(d, 16)}
<1>1. 0 \in S
  <2> SUFFICES ASSUME NEW d \in Seq(0 .. 15), Len(d) = 2 * 0
               PROVE  Worth(Paired(d), 256) = Worth(d, 16)
      OBVIOUS
  <2>1. d = <<>>
        BY EmptySeq
  <2>2. Paired(d) \in Seq(0 .. 255) /\ Len(Paired(d)) = 0
        BY PairedFacts
  <2>3. Paired(d) = <<>>
        BY <2>2, EmptySeq
  <2>4. Worth(<<>>, 16) = 0 /\ Worth(<<>>, 256) = 0
        BY WorthFacts
  <2>5. QED BY <2>1, <2>3, <2>4
<1>2. ASSUME NEW n \in Nat, n \in S
      PROVE  n + 1 \in S
  <2> SUFFICES ASSUME NEW d \in Seq(0 .. 15), Len(d) = 2 * (n + 1)
               PROVE  Worth(Paired(d), 256) = Worth(d, 16)
      OBVIOUS
  <2> DEFINE e == SubSeq(d, 1, 2 * n)
             x == d[2 * n + 1]
             y == d[2 * n + 2]
             b == Paired(d)
             c == Paired(e)
  <2>1. e \in Seq(0 .. 15) /\ Len(e) = 2 * n /\ x \in 0 .. 15 /\ y \in 0 .. 15
        /\ \A i \in 1 .. 2 * n : e[i] = d[i]
        OBVIOUS
  <2>2. d = Append(Append(e, x), y)
        OBVIOUS
  <2>3. b \in Seq(0 .. 255) /\ Len(b) = n + 1
        /\ \A j \in 1 .. n + 1 : b[j] = 16 * d[2 * j - 1] + d[2 * j]
    <3>1. n + 1 \in Nat /\ Len(d) = 2 * (n + 1)
          OBVIOUS
    <3>2. QED BY <3>1, PairedFacts
  <2>4. c \in Seq(0 .. 255) /\ Len(c) = n
        /\ \A j \in 1 .. n : c[j] = 16 * e[2 * j - 1] + e[2 * j]
        BY <2>1, PairedFacts
  <2>5. \A j \in 1 .. n : b[j] = c[j]
    <3> SUFFICES ASSUME NEW j \in 1 .. n PROVE b[j] = c[j]
        OBVIOUS
    <3>1. 2 * j - 1 \in 1 .. 2 * n /\ 2 * j \in 1 .. 2 * n /\ j \in 1 .. n + 1
          OBVIOUS
    <3>2. QED BY <2>1, <2>3, <2>4, <3>1
  <2>6. b[n + 1] = 16 * x + y
    <3>1. n + 1 \in 1 .. n + 1 /\ 2 * (n + 1) - 1 = 2 * n + 1 /\ 2 * (n + 1) = 2 * n + 2
          OBVIOUS
    <3>2. b[n + 1] = 16 * d[2 * (n + 1) - 1] + d[2 * (n + 1)]
          BY <2>3, <3>1
    <3>3. QED BY <3>1, <3>2
  <2> HIDE DEF e, x, y, b, c
  <2>7. b = Append(c, 16 * x + y)
    <3>0. PICK z \in Nat : z = 16 * x + y
          BY <2>1
    <3>5. c \in Seq(Nat)
          BY <2>4, Narrower
    <3>1. Append(c, 16 * x + y) \in Seq(Nat) /\ Len(Append(c, 16 * x + y)) = n + 1
          BY <2>4, <3>0, <3>5
    <3>2. b \in Seq(Nat)
          BY <2>3, Narrower
    <3>3. \A i \in 1 .. n + 1 : b[i] = Append(c, 16 * x + y)[i]
          BY <2>3, <2>4, <2>5, <2>6
    <3>4. QED BY <2>3, <3>1, <3>2, <3>3, SameSequence
  <2>8. e \in Seq(Nat) /\ Append(e, x) \in Seq(Nat) /\ c \in Seq(Nat) /\ x \in Nat /\ y \in Nat
        /\ 16 * x + y \in Nat
    <3>1. e \in Seq(Nat) /\ c \in Seq(Nat)
          BY <2>1, <2>4, Narrower
    <3>2. x \in Nat /\ y \in Nat
          BY <2>1
    <3>3. QED BY <3>1, <3>2
  <2>9. Worth(Append(Append(e, x), y), 16) = 16 * Worth(Append(e, x), 16) + y
        BY <2>8, WorthFacts
  <2>10. Worth(Append(e, x), 16) = 16 * Worth(e, 16) + x /\ Worth(e, 16) \in Nat
         BY <2>8, WorthFacts
  <2>11. Worth(Append(c, 16 * x + y), 256) = 256 * Worth(c, 256) + (16 * x + y)
         BY <2>8, WorthFacts
  <2>12. Worth(c, 256) = Worth(e, 16)
         BY <1>2, <2>1 DEF c
  <2>13. Worth(b, 256) = Worth(d, 16)
         BY <2>2, <2>7, <2>8, <2>9, <2>10, <2>11, <2>12
  <2>14. QED BY <2>13 DEF b
<1>3. Nat \subseteq S
      BY <1>1, <1>2, SetInduction, ZenonT(60)
<1>4. QED BY <1>3 DEF S

\* The special values are no numbers, digits or bytes.
LEMMA NotSpecial ==
    /\ \A d \in Seq(Nat) : d # Thrown /\ d # Undefined /\ d # Null
    /\ \A n \in Int : n # Thrown /\ n # Undefined /\ n # Null
    /\ \A s \in Nat : s # 0 => Given(s)
    /\ ~Given(Undefined) /\ ~Given(0)
BY SpecialAssumption DEF Given

\* The hex digits of a number are worth it.
LEMMA HexDigits ==
    \A n \in Nat : /\ Digits(n, 16) \in Seq(0 .. 15) /\ Digits(n, 16) \in Seq(Nat)
                   /\ Len(Digits(n, 16)) >= 1 /\ Digits(n, 16) # <<>>
                   /\ Worth(Digits(n, 16), 16) = n
<1> SUFFICES ASSUME NEW n \in Nat
             PROVE  /\ Digits(n, 16) \in Seq(0 .. 15) /\ Digits(n, 16) \in Seq(Nat)
                    /\ Len(Digits(n, 16)) >= 1 /\ Digits(n, 16) # <<>>
                    /\ Worth(Digits(n, 16), 16) = n
    OBVIOUS
<1>1. 16 \in Nat /\ 16 > 1 /\ 16 - 1 = 15
      OBVIOUS
<1>2. /\ Digits(n, 16) \in Seq(0 .. 16 - 1) /\ Len(Digits(n, 16)) >= 1
      /\ Worth(Digits(n, 16), 16) = n
      BY <1>1, DigitsFacts
<1>3. Digits(n, 16) \in Seq(0 .. 15)
      BY <1>1, <1>2
<1>4. QED BY <1>2, <1>3, Narrower

\* A zero alone.
LEMMA OneZero == Zeros(1) = <<0>>
<1>1. Zeros(1) \in Seq(Nat) /\ Len(Zeros(1)) = 1 /\ \A i \in 1 .. 1 : Zeros(1)[i] = 0
      BY ZerosFacts
<1>2. <<0>> \in Seq(Nat) /\ Len(<<0>>) = 1 /\ <<0>>[1] = 0
      OBVIOUS
<1>3. QED BY <1>1, <1>2, SameSequence

\* An odd number of digits gets a zero in front, which is worth nothing.
LEMMA EvenDigitsFacts ==
    ASSUME NEW d \in Seq(0 .. 15)
    PROVE  /\ Size(d) \in Nat
           /\ EvenDigits(d) \in Seq(0 .. 15)
           /\ Len(EvenDigits(d)) = 2 * Size(d)
           /\ Worth(EvenDigits(d), 16) = Worth(d, 16)
           /\ Len(d) % 2 = 0 => EvenDigits(d) = d
           /\ Len(d) % 2 = 1 => EvenDigits(d) = Zeros(1) \o d
           /\ \A n \in Nat : Len(d) = 2 * n => Size(d) = n /\ EvenDigits(d) = d
<1>1. Size(d) \in Nat /\ (Len(d) % 2 = 0 => Len(d) = 2 * Size(d))
      /\ (Len(d) % 2 = 1 => Len(d) + 1 = 2 * Size(d)) /\ Len(d) % 2 \in {0, 1}
      BY DEF Size
<1>2. Len(d) % 2 = 0 => EvenDigits(d) = d
      BY DEF EvenDigits
<1>3. ASSUME Len(d) % 2 = 1
      PROVE  /\ EvenDigits(d) = Zeros(1) \o d
             /\ EvenDigits(d) \in Seq(0 .. 15) /\ Len(EvenDigits(d)) = 1 + Len(d)
             /\ Worth(EvenDigits(d), 16) = Worth(d, 16)
  <2>1. PICK z \in Seq(0 .. 15) : z = <<0>> /\ Len(z) = 1 /\ z = Zeros(1)
    <3>1. <<0>> \in Seq(0 .. 15) /\ Len(<<0>>) = 1
          OBVIOUS
    <3>2. QED BY <3>1, OneZero
  <2>2. EvenDigits(d) = z \o d
        BY <1>3, <2>1 DEF EvenDigits
  <2>3. z \o d \in Seq(0 .. 15) /\ Len(z \o d) = Len(z) + Len(d)
        BY ConcatFacts
  <2>4. d \in Seq(Nat)
        BY Narrower
  <2>5. Worth(Zeros(1) \o d, 16) = Worth(d, 16)
        BY <2>4, WorthOfZeros
  <2>6. QED BY <2>1, <2>2, <2>3, <2>5
<1>4. \A n \in Nat : Len(d) = 2 * n => Size(d) = n /\ Len(d) % 2 = 0
      BY DEF Size
<1>5. CASE Len(d) % 2 = 0
  <2>1. EvenDigits(d) = d /\ Len(d) = 2 * Size(d) /\ Size(d) \in Nat /\ ~(Len(d) % 2 = 1)
        BY <1>1, <1>2, <1>5
  <2>2. QED BY <1>4, <2>1
<1>6. CASE Len(d) % 2 = 1
  <2>1. Len(d) + 1 = 2 * Size(d) /\ Size(d) \in Nat /\ ~(Len(d) % 2 = 0)
        BY <1>1, <1>6
  <2>2. /\ EvenDigits(d) = Zeros(1) \o d
        /\ EvenDigits(d) \in Seq(0 .. 15) /\ Len(EvenDigits(d)) = 1 + Len(d)
        /\ Worth(EvenDigits(d), 16) = Worth(d, 16)
        BY <1>3, <1>6
  <2>3. Len(EvenDigits(d)) = 2 * Size(d)
        BY <2>1, <2>2
  <2>4. QED BY <1>4, <2>1, <2>2, <2>3
<1>7. QED BY <1>1, <1>5, <1>6

\* A hex value of a size is padded to it, and refused when it is longer.
LEMMA SizedFacts ==
    ASSUME NEW d \in Seq(0 .. 15), NEW s \in Nat
    PROVE  \A dir \in {"left", "right"} :
             /\ Size(d) > s => Sized(d, s, dir) = Thrown
             /\ Size(d) <= s =>
                  /\ Len(d) <= 2 * s
                  /\ Sized(d, s, dir) = IF dir = "right" THEN d \o Zeros(2 * s - Len(d))
                                        ELSE Zeros(2 * s - Len(d)) \o d
                  /\ Sized(d, s, dir) \in Seq(0 .. 15)
                  /\ Len(Sized(d, s, dir)) = 2 * s
<1> SUFFICES ASSUME NEW dir \in {"left", "right"}
             PROVE  /\ Size(d) > s => Sized(d, s, dir) = Thrown
                    /\ Size(d) <= s =>
                         /\ Len(d) <= 2 * s
                         /\ Sized(d, s, dir) = IF dir = "right" THEN d \o Zeros(2 * s - Len(d))
                                               ELSE Zeros(2 * s - Len(d)) \o d
                         /\ Sized(d, s, dir) \in Seq(0 .. 15)
                         /\ Len(Sized(d, s, dir)) = 2 * s
    OBVIOUS
<1>1. s # Undefined
      BY NotSpecial
<1>2. Size(d) > s => Sized(d, s, dir) = Thrown
      BY <1>1 DEF Sized
<1>3. Size(d) <= s => ~(Size(d) > s) /\ Len(d) <= 2 * s
      BY DEF Size
<1>4. Size(d) <= s => Sized(d, s, dir) = Pad(d, 2 * s, dir)
      BY <1>1, <1>3 DEF Sized, PadHex
<1>5. PICK m \in Nat : m = 2 * s
      OBVIOUS
<1>6. Len(d) <= 2 * s =>
        /\ Pad(d, 2 * s, dir) = IF dir = "right" THEN d \o Zeros(2 * s - Len(d))
                                ELSE Zeros(2 * s - Len(d)) \o d
        /\ Pad(d, 2 * s, dir) \in Seq(0 .. 15)
        /\ Len(Pad(d, 2 * s, dir)) = 2 * s
  <2>1. PICK T : T = 0 .. 15
        OBVIOUS
  <2>4. 0 \in T /\ d \in Seq(T)
        BY <2>1
  <2>2. \A e \in {"left", "right"} :
          Len(d) <= m =>
            /\ Pad(d, m, e) = IF e = "right" THEN d \o Zeros(m - Len(d))
                              ELSE Zeros(m - Len(d)) \o d
            /\ Pad(d, m, e) \in Seq(T)
            /\ Len(Pad(d, m, e)) = m
        BY <2>4, PadFacts, SMTT(60)
  <2>3. QED BY <1>5, <2>1, <2>2
<1>7. QED BY <1>2, <1>3, <1>4, <1>6

\* Bytes of hex: two digits each, of the number of digits made even.
LEMMA HexToBytesFacts ==
    ASSUME NEW d \in Seq(0 .. 15)
    PROVE  /\ HexToBytes(d, Undefined) = Paired(EvenDigits(d))
           /\ HexToBytes(d, 0) = Paired(EvenDigits(d))
           /\ HexToBytes(d, Undefined) \in Seq(0 .. 255)
           /\ Len(HexToBytes(d, Undefined)) = Size(d)
           /\ Worth(HexToBytes(d, Undefined), 256) = Worth(d, 16)
<1>1. d # Thrown /\ ~Given(0) /\ ~Given(Undefined)
      BY NotSpecial, Narrower
<1>2. HexToBytes(d, Undefined) = Paired(EvenDigits(d)) /\ HexToBytes(d, 0) = Paired(EvenDigits(d))
      BY <1>1 DEF HexToBytes, After, Sized
<1>3. /\ Size(d) \in Nat /\ EvenDigits(d) \in Seq(0 .. 15) /\ Len(EvenDigits(d)) = 2 * Size(d)
      /\ Worth(EvenDigits(d), 16) = Worth(d, 16)
      BY EvenDigitsFacts
<1>4. Paired(EvenDigits(d)) \in Seq(0 .. 255) /\ Len(Paired(EvenDigits(d))) = Size(d)
      BY <1>3, PairedFacts
<1>5. Worth(Paired(EvenDigits(d)), 256) = Worth(EvenDigits(d), 16)
      BY <1>3, PairedWorth
<1>6. QED BY <1>2, <1>3, <1>4, <1>5

-----------------------------------------------------------------------------
\* numberToHex refuses what does not fit, and what it writes reads back.
LEMMA NumberRoundTrip ==
    ASSUME NEW n \in Int, NEW big \in BOOLEAN, NEW signed \in BOOLEAN,
           NEW s \in Nat \union {Undefined}, signed => Given(s)
    PROVE  LET hex == NumberToHex(n, big, signed, s)
           IN  IF ~InRange(n, big, signed, s) THEN hex = Thrown
               ELSE /\ hex \in Seq(0 .. 15) /\ hex # <<>>
                    /\ Given(s) => Len(hex) = 2 * s
                    /\ HexToBigInt(hex, signed, s) = n
                    /\ ~signed => Worth(hex, 16) = n
<1> DEFINE max == MaxValue(big, signed, s)
           min == IF max # Undefined /\ signed THEN - max - 1 ELSE 0
           twos == IF signed /\ n < 0 THEN Power(2, 8 * s) + n ELSE n
           hex == NumberToHex(n, big, signed, s)
<1>1. CASE ~Given(s)
  <2>1. s \in {Undefined, 0} /\ signed = FALSE
        BY <1>1 DEF Given
  <2>2. max = IF big THEN Undefined ELSE MaxSafe
        BY <1>1 DEF MaxValue
  <2>3. MaxSafe \in Nat /\ MaxSafe # Undefined
        BY HexAssumption, NotSpecial
  <2>4. min = 0 /\ twos = n
        BY <2>1
  <2>5. hex = IF (max # Undefined /\ n > max) \/ n < 0 THEN Thrown
              ELSE Sized(Digits(n, 16), Undefined, "left")
        BY <1>1, <2>4 DEF NumberToHex
  <2>6. InRange(n, big, signed, s) <=> n >= 0 /\ (big \/ n <= MaxSafe)
        BY <1>1 DEF InRange
  <2>7. ~InRange(n, big, signed, s) => hex = Thrown
        BY <2>2, <2>3, <2>5, <2>6
  <2>8. ASSUME InRange(n, big, signed, s)
        PROVE  /\ hex \in Seq(0 .. 15) /\ hex # <<>>
               /\ HexToBigInt(hex, signed, s) = n
               /\ Worth(hex, 16) = n
    <3>1. n \in Nat /\ hex = Sized(Digits(n, 16), Undefined, "left")
          BY <2>2, <2>3, <2>5, <2>6, <2>8
    <3>2. hex = Digits(n, 16)
          BY <3>1 DEF Sized
    <3>4. hex \in Seq(0 .. 15) /\ hex # <<>> /\ Worth(hex, 16) = n
          BY <3>1, <3>2, HexDigits
    <3>5. HexToBigInt(hex, signed, s) = n
          BY <1>1, <2>1, <3>4 DEF HexToBigInt
    <3>6. QED BY <3>4, <3>5
  <2>9. QED BY <1>1, <2>7, <2>8
<1>2. CASE Given(s)
  <2>1. s \in Nat /\ s > 0
        BY <1>2 DEF Given
  <2>2. PICK k \in Nat : k = 8 * s - 1
        BY <2>1
  <2>3. PICK half \in Nat : half = Power(2, k) /\ Power(2, 8 * s) = 2 * half
    <3>1. Power(2, k) \in Nat /\ Power(2, k + 1) = 2 * Power(2, k) /\ k + 1 = 8 * s
          BY <2>2, PowerFacts
    <3>2. QED BY <3>1
  <2>4. max = (IF signed THEN half ELSE 2 * half) - 1
    <3>1. CASE signed = TRUE
          BY <1>2, <2>2, <2>3, <3>1 DEF MaxValue
    <3>2. CASE signed = FALSE
          BY <1>2, <2>2, <2>3, <3>2 DEF MaxValue
    <3>3. QED BY <3>1, <3>2
  <2>5. max \in Int /\ max # Undefined
    <3>1. max \in Int
          BY <2>4
    <3>2. QED BY <3>1, NotSpecial
  <2>6. min = (IF signed THEN - half ELSE 0)
        BY <2>4, <2>5
  <2>7. twos = IF signed /\ n < 0 THEN 2 * half + n ELSE n
        BY <2>3
  <2>8. hex = IF n > max \/ n < min THEN Thrown ELSE Sized(Digits(twos, 16), s, "left")
        BY <1>2, <2>5 DEF NumberToHex
  <2>9. InRange(n, big, signed, s) <=>
          IF signed THEN n >= - half /\ n < half ELSE n >= 0 /\ n < 2 * half
    <3>1. CASE signed = TRUE
          BY <1>2, <2>2, <2>3, <3>1 DEF InRange
    <3>2. CASE signed = FALSE
          BY <1>2, <2>3, <3>2 DEF InRange
    <3>3. QED BY <3>1, <3>2
  <2> HIDE DEF max, min, twos, hex
  <2>10. ~InRange(n, big, signed, s) => hex = Thrown
         BY <2>4, <2>6, <2>8, <2>9
  <2>11. ASSUME InRange(n, big, signed, s)
         PROVE  /\ hex \in Seq(0 .. 15) /\ hex # <<>> /\ Len(hex) = 2 * s
                /\ HexToBigInt(hex, signed, s) = n
                /\ ~signed => Worth(hex, 16) = n
    <3>2. twos \in Nat /\ twos < 2 * half
          BY <2>7, <2>9, <2>11
    <3>3. signed => (twos >= half <=> n < 0)
          BY <2>7, <2>9, <2>11
    <3>4. hex = Sized(Digits(twos, 16), s, "left")
          BY <2>4, <2>6, <2>8, <2>9, <2>11
    <3>5. PICK d : d = Digits(twos, 16)
          OBVIOUS
    <3>6. d \in Seq(0 .. 15) /\ Len(d) >= 1 /\ Worth(d, 16) = twos
          BY <3>2, <3>5, HexDigits
    <3>7. Power(16, 2 * s) = 2 * half
      <4>1. Power(16, 2 * s) = Power(2, 4 * (2 * s)) /\ 4 * (2 * s) = 8 * s
            BY <2>1, PowersOfTwo
      <4>2. QED BY <2>3, <4>1
    <3>8. Len(d) <= 2 * s
      <4>1. 2 * s \in Nat /\ 2 * s > 0 /\ 16 \in Nat /\ 16 > 1 /\ twos < Power(16, 2 * s)
            BY <2>1, <3>2, <3>7
      <4>2. QED BY <3>2, <3>5, <4>1, DigitsLength
    <3>9. Size(d) <= s
          BY <2>1, <3>6, <3>8 DEF Size
    <3>10. hex = Zeros(2 * s - Len(d)) \o d /\ hex \in Seq(0 .. 15) /\ Len(hex) = 2 * s
           BY <2>1, <3>4, <3>5, <3>6, <3>9, SizedFacts
    <3>11. Worth(hex, 16) = twos
      <4>1. d \in Seq(Nat) /\ 2 * s - Len(d) \in Nat
            BY <2>1, <3>6, <3>8, Narrower
      <4>2. QED BY <3>6, <3>10, <4>1, WorthOfZeros
    <3>12. hex # <<>> /\ Size(hex) = s /\ Len(hex) % 2 = 0 /\ 4 * Len(hex) - 1 = k
      <4>1. Len(<<>>) = 0 /\ Len(hex) > 0
            BY <2>1, <3>10
      <4>5. Len(hex) = 2 * s
            BY <3>10
      <4>2. Size(hex) = s
        <5>1. (2 * s + 1) \div 2 = s
              BY <2>1
        <5>2. QED BY <4>5, <5>1 DEF Size
      <4>3. Len(hex) % 2 = 0 /\ 4 * Len(hex) - 1 = k
        <5>1. (2 * s) % 2 = 0 /\ 4 * (2 * s) - 1 = 8 * s - 1
              BY <2>1
        <5>2. QED BY <2>2, <4>5, <5>1
      <4>4. QED BY <4>1, <4>2, <4>3
    <3>13. HexToBigInt(hex, signed, s) =
             IF signed /\ twos > half - 1 THEN twos - (2 * half - 1) - 1 ELSE twos
      <4>1. ~(Size(hex) > s) /\ ~(hex = <<>>) /\ ~(Len(hex) % 2 = 1)
            BY <2>1, <3>12
      <4>2. Power(2, 4 * Len(hex) - 1) = half /\ Power(16, Len(hex)) = 2 * half
            BY <2>3, <3>7, <3>10, <3>12
      <4>3. QED BY <3>11, <4>1, <4>2 DEF HexToBigInt
    <3>14. HexToBigInt(hex, signed, s) = n
           BY <2>7, <3>2, <3>3, <3>13
    <3>15. ~signed => twos = n
           BY <2>7
    <3>16. QED BY <3>10, <3>11, <3>12, <3>14, <3>15
  <2>12. QED BY <1>2, <2>10, <2>11 DEF hex
<1>3. QED BY <1>1, <1>2

\* What NumberInverts says of the hex of a number.
NumberIsInverted(n, big, signed, s, hex) ==
    IF ~InRange(n, big, signed, s) THEN hex = Thrown
    ELSE /\ hex # Thrown
         /\ Given(s) => Len(hex) = 2 * s
         /\ HexToBigInt(hex, signed, s) = n
         /\ HexToNumber(hex, signed, s) =
              IF n <= MaxSafe /\ n >= - MaxSafe THEN n ELSE Thrown
         /\ ~signed => Worth(NumberToBytes(n, big, FALSE, s), 256) = n

\* What numberToHex returns reads back as the number, with the limits of hexToNumber
\* (toHex.ts, fromHex.ts).
LEMMA NumbersInvert ==
    ASSUME NEW n \in Int, NEW big \in BOOLEAN, NEW signed \in BOOLEAN,
           NEW s \in Nat \union {Undefined}, signed => Given(s)
    PROVE  NumberIsInverted(n, big, signed, s, NumberToHex(n, big, signed, s))
<1> DEFINE hex == NumberToHex(n, big, signed, s)
<1>1. IF ~InRange(n, big, signed, s) THEN hex = Thrown
      ELSE /\ hex \in Seq(0 .. 15) /\ hex # <<>>
           /\ Given(s) => Len(hex) = 2 * s
           /\ HexToBigInt(hex, signed, s) = n
           /\ ~signed => Worth(hex, 16) = n
      BY NumberRoundTrip
<1> SUFFICES ASSUME InRange(n, big, signed, s)
             PROVE  /\ hex # Thrown
                    /\ HexToNumber(hex, signed, s) =
                         IF n <= MaxSafe /\ n >= - MaxSafe THEN n ELSE Thrown
                    /\ ~signed => Worth(NumberToBytes(n, big, FALSE, s), 256) = n
    BY <1>1 DEF NumberIsInverted
<1> HIDE DEF hex
<1>2. hex \in Seq(0 .. 15) /\ HexToBigInt(hex, signed, s) = n /\ (~signed => Worth(hex, 16) = n)
      BY <1>1
<1>3. hex # Thrown /\ n # Thrown /\ MaxSafe \in Nat
      BY <1>2, Narrower, NotSpecial, HexAssumption
<1>4. HexToNumber(hex, signed, s) = IF n <= MaxSafe /\ n >= - MaxSafe THEN n ELSE Thrown
      BY <1>2, <1>3 DEF HexToNumber, After
<1>5. ASSUME ~signed
      PROVE  Worth(NumberToBytes(n, big, FALSE, s), 256) = n
  <2>1. NumberToHex(n, big, FALSE, s) = hex
        BY <1>5 DEF hex
  <2>2. NumberToBytes(n, big, FALSE, s) = HexToBytes(hex, Undefined)
        BY <1>3, <2>1 DEF NumberToBytes, After
  <2>3. Worth(HexToBytes(hex, Undefined), 256) = Worth(hex, 16)
        BY <1>2, HexToBytesFacts
  <2>4. QED BY <1>2, <1>5, <2>2, <2>3
<1>6. QED BY <1>3, <1>4, <1>5

\* Hex of whole bytes is written again for the number it is read as; what has no width
\* is refused.
HexIsRead(h, signed, s) ==
    LET n == HexToBigInt(h, signed, s)
    IN  IF h = <<>> \/ (signed /\ Len(h) % 2 = 1) \/ (Given(s) /\ Size(h) > s)
        THEN n = Thrown
        ELSE NumberToHex(n, TRUE, signed, Size(h)) = EvenDigits(h)

LEMMA HexReadAgain ==
    ASSUME NEW h \in Seq(0 .. 15), NEW signed \in BOOLEAN, NEW s \in Nat \union {Undefined}
    PROVE  HexIsRead(h, signed, s)
<1>1. CASE h = <<>> \/ (signed /\ Len(h) % 2 = 1) \/ (Given(s) /\ Size(h) > s)
      BY <1>1 DEF HexIsRead, HexToBigInt
<1>2. CASE ~(h = <<>> \/ (signed /\ Len(h) % 2 = 1) \/ (Given(s) /\ Size(h) > s))
  <2> DEFINE n == HexToBigInt(h, signed, s)
  <2>1. PICK k \in Nat : k = Size(h) /\ k > 0 /\ Given(k)
    <3>1. Len(h) > 0 /\ Len(h) \in Nat
          BY <1>2, EmptySeq
    <3>2. (Len(h) + 1) \div 2 \in Nat /\ (Len(h) + 1) \div 2 > 0
          BY <3>1
    <3>3. QED BY <3>2, NotSpecial DEF Size
  <2>2. PICK e \in Seq(0 .. 15) : e = EvenDigits(h) /\ Len(e) = 2 * k /\ Worth(e, 16) = Worth(h, 16)
        BY <2>1, EvenDigitsFacts
  <2>3. PICK w \in Nat : w = Worth(h, 16)
        BY Narrower, WorthFacts
  <2>4. PICK half \in Nat : half = Power(2, 8 * k - 1) /\ Power(2, 8 * k) = 2 * half
    <3>1. PICK j \in Nat : j = 8 * k - 1 /\ j + 1 = 8 * k
          BY <2>1
    <3>2. Power(2, j) \in Nat /\ Power(2, j + 1) = 2 * Power(2, j)
          BY PowerFacts
    <3>3. QED BY <3>1, <3>2
  <2>5. Power(16, 2 * k) = 2 * half
    <3>1. Power(16, 2 * k) = Power(2, 4 * (2 * k)) /\ 4 * (2 * k) = 8 * k
          BY PowersOfTwo
    <3>2. QED BY <2>4, <3>1
  <2>6. w < 2 * half
    <3>1. 16 - 1 = 15 /\ 16 \in Nat /\ 16 > 0
          OBVIOUS
    <3>2. \A d \in Seq(0 .. 15) : Worth(d, 16) < Power(16, Len(d))
          BY <3>1, WorthBound
    <3>3. Worth(e, 16) < Power(16, 2 * k)
          BY <2>2, <3>2
    <3>4. QED BY <2>2, <2>3, <2>5, <3>3
  <2>7. n = IF signed /\ w > half - 1 THEN w - (2 * half - 1) - 1 ELSE w
    <3>1. CASE signed = FALSE
          BY <1>2, <2>3, <3>1 DEF HexToBigInt
    <3>2. CASE signed = TRUE
      <4>1. Len(h) % 2 = 0 /\ Len(h) \in Nat
            BY <1>2, <3>2
      <4>2. Len(h) = 2 * k
            BY <2>2, <4>1, EvenDigitsFacts
      <4>3. 4 * Len(h) - 1 = 8 * k - 1
            BY <4>2
      <4>4. Power(2, 4 * Len(h) - 1) = half /\ Power(16, Len(h)) = 2 * half
            BY <2>4, <2>5, <4>2, <4>3
      <4>5. QED BY <1>2, <2>3, <3>2, <4>4 DEF HexToBigInt
    <3>3. QED BY <3>1, <3>2
  <2> HIDE DEF n
  <2>8. MaxValue(TRUE, signed, k) = (IF signed THEN half ELSE 2 * half) - 1
    <3>1. CASE signed = TRUE
          BY <2>1, <2>4, <3>1 DEF MaxValue
    <3>2. CASE signed = FALSE
          BY <2>1, <2>4, <3>2 DEF MaxValue
    <3>3. QED BY <3>1, <3>2
  <2>9. PICK max \in Int : max = MaxValue(TRUE, signed, k) /\ max # Undefined
    <3>1. half - 1 \in Int /\ 2 * half - 1 \in Int
          OBVIOUS
    <3>3. MaxValue(TRUE, signed, k) \in Int
          BY <2>8, <3>1
    <3>2. QED BY <3>3, NotSpecial
  <2> DEFINE twos == IF signed /\ n < 0 THEN Power(2, 8 * k) + n ELSE n
             min == IF max # Undefined /\ signed THEN - max - 1 ELSE 0
  <2>10. twos = w
         BY <2>4, <2>6, <2>7, SMTT(40)
  <2>11. ~(n > max) /\ ~(n < min)
    <3>1. CASE signed = TRUE
      <4>1. max = half - 1 /\ min = - max - 1
            BY <2>8, <2>9, <3>1
      <4>2. n = IF w > half - 1 THEN w - (2 * half - 1) - 1 ELSE w
            BY <2>7, <3>1
      <4>3. QED BY <2>6, <4>1, <4>2
    <3>2. CASE signed = FALSE
      <4>1. max = 2 * half - 1 /\ min = 0 /\ n = w
            BY <2>7, <2>8, <2>9, <3>2
      <4>2. QED BY <2>6, <4>1
    <3>3. QED BY <3>1, <3>2
  <2>12. NumberToHex(n, TRUE, signed, k) = Sized(Digits(w, 16), k, "left")
    <3>1. NumberToHex(n, TRUE, signed, k) = Sized(Digits(twos, 16), k, "left")
      <4> HIDE DEF twos, min
      <4>1. QED BY <2>1, <2>9, <2>11 DEF NumberToHex, twos, min
    <3>2. QED BY <2>10, <3>1
  <2>13. PICK d \in Seq(0 .. 15) : d = Digits(w, 16) /\ Len(d) >= 1 /\ Worth(d, 16) = w
         BY HexDigits
  <2>14. Len(d) <= 2 * k
    <3>1. 2 * k \in Nat /\ 2 * k > 0 /\ 16 \in Nat /\ 16 > 1 /\ w < Power(16, 2 * k)
          BY <2>1, <2>5, <2>6
    <3>2. QED BY <2>13, <3>1, DigitsLength
  <2>15. Size(d) <= k
         BY <2>13, <2>14 DEF Size
  <2>16. PICK hex \in Seq(0 .. 15) : /\ hex = Sized(Digits(w, 16), k, "left")
                                     /\ hex = Zeros(2 * k - Len(d)) \o d
                                     /\ Len(hex) = 2 * k
         BY <2>13, <2>15, SizedFacts
  <2>17. Worth(hex, 16) = w
    <3>1. d \in Seq(Nat) /\ 2 * k - Len(d) \in Nat
          BY <2>14, Narrower
    <3>2. PICK m \in Nat : m = 2 * k - Len(d)
          BY <3>1
    <3>3. Worth(Zeros(m) \o d, 16) = Worth(d, 16)
          BY <3>1, WorthOfZeros
    <3>4. QED BY <2>13, <2>16, <3>2, <3>3
  <2>18. hex = e
    <3>1. 16 - 1 = 15 /\ 16 \in Nat /\ 16 > 0
          OBVIOUS
    <3>2. \A p, q \in Seq(0 .. 15) : Len(p) = Len(q) /\ Worth(p, 16) = Worth(q, 16) => p = q
          BY <3>1, SameWorth
    <3>3. QED BY <2>2, <2>3, <2>16, <2>17, <3>2
  <2>19. NumberToHex(n, TRUE, signed, Size(h)) = EvenDigits(h)
         BY <2>1, <2>2, <2>12, <2>16, <2>18
  <2>20. QED BY <1>2, <2>19 DEF HexIsRead, n
<1>3. QED BY <1>1, <1>2

-----------------------------------------------------------------------------
\* Bytes are padded like their digits.
LEMMA BytesRoundTrip ==
    ASSUME NEW b \in Seq(0 .. 255), NEW s \in Nat \union {Undefined}
    PROVE  IF ~Fits(Len(b), s) THEN BytesToHex(b, s) = Thrown
           ELSE /\ BytesToHex(b, s) \in Seq(0 .. 15)
                /\ HexToBytes(BytesToHex(b, s), Undefined) = StringToBytes(b, s)
                /\ s # Undefined => /\ StringToBytes(b, s) = b \o Zeros(s - Len(b))
                                    /\ StringToBytes(b, s) \in Seq(0 .. 255)
                                    /\ Len(StringToBytes(b, s)) = s
                /\ Len(BytesToHex(b, s)) = 2 * (IF s = Undefined THEN Len(b) ELSE s)
<1> DEFINE d == Nibbles(b)
<1>1. d \in Seq(0 .. 15) /\ Len(d) = 2 * Len(b) /\ Paired(d) = b
      /\ \A j \in 1 .. Len(b) : d[2 * j - 1] = b[j] \div 16 /\ d[2 * j] = b[j] % 16
      BY NibblesFacts
<1> HIDE DEF d
<1>2. Size(d) = Len(b) /\ EvenDigits(d) = d
      BY <1>1, EvenDigitsFacts
<1>3. CASE s = Undefined
  <2>1. Fits(Len(b), s) /\ BytesToHex(b, s) = d /\ StringToBytes(b, s) = b
        BY <1>3 DEF Fits, BytesToHex, Sized, StringToBytes, d
  <2>2. HexToBytes(d, Undefined) = b
        BY <1>1, <1>2, HexToBytesFacts
  <2>3. QED BY <1>1, <1>3, <2>1, <2>2
<1>4. CASE s # Undefined
  <2>1. s \in Nat /\ (Fits(Len(b), s) <=> Len(b) <= s)
        BY <1>4 DEF Fits
  <2>2. BytesToHex(b, s) = Sized(d, s, "right")
        BY DEF BytesToHex, d
  <2>3. CASE Len(b) > s
    <3>1. Size(d) > s
          BY <1>2, <2>3
    <3>2. Sized(d, s, "right") = Thrown
          BY <1>1, <2>1, <3>1, SizedFacts
    <3>3. ~Fits(Len(b), s)
          BY <2>1, <2>3
    <3>4. QED BY <2>2, <3>2, <3>3
  <2>4. CASE Len(b) <= s
    <3>1. PICK m \in Nat : m = s - Len(b)
          BY <2>1, <2>4
    <3> DEFINE h == BytesToHex(b, s)
               c == b \o Zeros(m)
    <3>2. h = d \o Zeros(2 * s - Len(d)) /\ h \in Seq(0 .. 15) /\ Len(h) = 2 * s
          BY <1>1, <1>2, <2>1, <2>2, <2>4, SizedFacts, ZenonT(60)
    <3>3. 2 * s - Len(d) = 2 * m
          BY <1>1, <2>1, <3>1
    <3>4. h = d \o Zeros(2 * m)
          BY <3>2, <3>3
    <3>5. Zeros(m) \in Seq(Nat) /\ Len(Zeros(m)) = m /\ \A i \in 1 .. m : Zeros(m)[i] = 0
          BY ZerosFacts
    <3>6. Zeros(2 * m) \in Seq(Nat) /\ Len(Zeros(2 * m)) = 2 * m
          /\ \A i \in 1 .. 2 * m : Zeros(2 * m)[i] = 0
      <4>1. PICK k \in Nat : k = 2 * m
            OBVIOUS
      <4>2. QED BY <4>1, ZerosFacts
    <3>7. StringToBytes(b, s) = c /\ c \in Seq(0 .. 255) /\ Len(c) = s
      <4>1. PICK T : T = 0 .. 255
            OBVIOUS
      <4>2. 0 \in T /\ b \in Seq(T)
            BY <4>1
      <4>7. PICK k \in Nat : k = s
            BY <2>1
      <4>8. PICK e \in {"left", "right"} : e = "right"
            OBVIOUS
      <4>3. Len(b) <= k =>
              /\ Pad(b, k, e) = IF e = "right" THEN b \o Zeros(k - Len(b))
                                ELSE Zeros(k - Len(b)) \o b
              /\ Pad(b, k, e) \in Seq(T) /\ Len(Pad(b, k, e)) = k
            BY <4>2, PadFacts, SMTT(60)
      <4>4. Pad(b, s, "right") = c /\ Pad(b, s, "right") \in Seq(T) /\ Len(Pad(b, s, "right")) = s
            BY <2>4, <3>1, <4>3, <4>7, <4>8
      <4>5. StringToBytes(b, s) = Pad(b, s, "right")
            BY <1>4 DEF StringToBytes, PadBytes
      <4>6. QED BY <4>1, <4>4, <4>5
    <3>8. HexToBytes(h, Undefined) = Paired(h)
      <4>1. EvenDigits(h) = h
            BY <2>1, <3>2, EvenDigitsFacts
      <4>2. QED BY <3>2, <4>1, HexToBytesFacts
    <3>9. Paired(h) \in Seq(0 .. 255) /\ Len(Paired(h)) = s
          /\ \A j \in 1 .. s : Paired(h)[j] = 16 * h[2 * j - 1] + h[2 * j]
          BY <2>1, <3>2, PairedFacts
    <3>10. ASSUME NEW j \in 1 .. s PROVE Paired(h)[j] = c[j]
      <4>1. CASE j <= Len(b)
        <5>1. j \in 1 .. Len(b) /\ 2 * j - 1 \in 1 .. Len(d) /\ 2 * j \in 1 .. Len(d)
              BY <1>1, <4>1
        <5>2. h[2 * j - 1] = d[2 * j - 1] /\ h[2 * j] = d[2 * j]
              BY <1>1, <3>4, <3>6, <5>1
        <5>3. \A x \in 0 .. 255 : 16 * (x \div 16) + (x % 16) = x
              OBVIOUS
        <5>4. b[j] \in 0 .. 255
              BY <5>1, ElementsOf
        <5>5. 16 * d[2 * j - 1] + d[2 * j] = b[j]
              BY <1>1, <5>1, <5>3, <5>4
        <5>6. c[j] = b[j]
              BY <3>5, <5>1
        <5>7. QED BY <3>9, <5>2, <5>5, <5>6
      <4>2. CASE j > Len(b)
        <5>1. PICK i \in 1 .. m : j = Len(b) + i
          <6>1. j - Len(b) \in 1 .. m /\ j = Len(b) + (j - Len(b))
                BY <2>1, <3>1, <4>2
          <6>2. QED BY <6>1
        <5>2. 2 * i - 1 \in 1 .. 2 * m /\ 2 * i \in 1 .. 2 * m
              /\ 2 * j - 1 = Len(d) + (2 * i - 1) /\ 2 * j = Len(d) + 2 * i
              BY <1>1, <5>1
        <5>3. h[2 * j - 1] = 0 /\ h[2 * j] = 0
              BY <1>1, <3>4, <3>6, <5>2, SMTT(60)
        <5>4. c[j] = 0
              BY <3>5, <5>1
        <5>5. QED BY <3>9, <5>3, <5>4
      <4>3. j <= Len(b) \/ j > Len(b)
            OBVIOUS
      <4>4. QED BY <4>1, <4>2, <4>3
    <3>11. Paired(h) = c
           BY <3>7, <3>9, <3>10, SameSequence
    <3>12. Fits(Len(b), s)
           BY <2>1, <2>4
    <3>13. QED BY <1>4, <3>1, <3>2, <3>7, <3>8, <3>11, <3>12
  <2>5. QED BY <2>1, <2>3, <2>4
<1>5. QED BY <1>3, <1>4

\* The zeros in front, but for the last element.
IsZeroRun(x, n) ==
    /\ n \in 0 .. Greatest(Len(x) - 1, 0)
    /\ \A i \in 1 .. n : x[i] = 0
    /\ n < Len(x) - 1 => x[n + 1] # 0

\* ZeroRun counts the zeros in front but never the last element (trim.ts).
LEMMA ZeroRunFacts ==
    ASSUME NEW T, NEW x \in Seq(T)
    PROVE  /\ IsZeroRun(x, ZeroRun(x))
           /\ \A n : IsZeroRun(x, n) => ZeroRun(x) = n
<1>1. \E n : IsZeroRun(x, n)
  <2> DEFINE S == {i \in 1 .. Len(x) - 1 : x[i] # 0}
  <2>1. CASE S = {}
    <3> DEFINE n == Greatest(Len(x) - 1, 0)
    <3>1. n = IF Len(x) > 0 THEN Len(x) - 1 ELSE 0
          BY DEF Greatest
    <3>2. n \in 0 .. n /\ \A i \in 1 .. n : i \in 1 .. Len(x) - 1
          BY <3>1
    <3>3. \A i \in 1 .. n : x[i] = 0
          BY <2>1, <3>2
    <3>4. ~(n < Len(x) - 1)
          BY <3>1
    <3>5. IsZeroRun(x, n)
          BY <3>2, <3>3, <3>4 DEF IsZeroRun
    <3>6. QED BY <3>5
  <2>2. CASE S # {}
    <3>1. S \subseteq Nat
          OBVIOUS
    <3>2. PICK i \in S : \A j \in S : i <= j
          BY <2>2, <3>1, LeastNumber
    <3>3. i \in 1 .. Len(x) - 1 /\ x[i] # 0
          BY <3>2
    <3>4. PICK n \in Nat : i = n + 1
      <4>1. i - 1 \in Nat /\ i = (i - 1) + 1
            BY <3>3
      <4>2. QED BY <4>1
    <3>5. n \in 0 .. Greatest(Len(x) - 1, 0)
          BY <3>3, <3>4 DEF Greatest
    <3>6. ASSUME NEW j \in 1 .. n PROVE x[j] = 0
      <4>1. j \in 1 .. Len(x) - 1 /\ ~(i <= j)
            BY <3>3, <3>4
      <4>2. QED BY <3>2, <4>1
    <3>7. IsZeroRun(x, n)
          BY <3>3, <3>4, <3>5, <3>6 DEF IsZeroRun
    <3>8. QED BY <3>7
  <2>3. QED BY <2>1, <2>2
<1>2. ZeroRun(x) = CHOOSE n \in 0 .. Greatest(Len(x) - 1, 0) :
                     /\ \A i \in 1 .. n : x[i] = 0
                     /\ n < Len(x) - 1 => x[n + 1] # 0
      BY DEF ZeroRun
<1>3. IsZeroRun(x, ZeroRun(x))
      BY <1>1, <1>2 DEF IsZeroRun
<1>4. ASSUME NEW m, IsZeroRun(x, m), NEW n, IsZeroRun(x, n), m < n
      PROVE  FALSE
  <2>1. m \in Nat /\ n \in Nat /\ (Len(x) > 0 => n <= Len(x) - 1) /\ (Len(x) = 0 => n = 0)
        BY <1>4 DEF IsZeroRun, Greatest
  <2>2. m < Len(x) - 1 /\ m + 1 \in 1 .. n
        BY <1>4, <2>1
  <2>3. x[m + 1] # 0 /\ x[m + 1] = 0
        BY <1>4, <2>2 DEF IsZeroRun
  <2>4. QED BY <2>3
<1>5. ASSUME NEW n, IsZeroRun(x, n)
      PROVE  ZeroRun(x) = n
  <2>1. n \in Int /\ ZeroRun(x) \in Int
        BY <1>3, <1>5 DEF IsZeroRun, Greatest
  <2>2. ~(n < ZeroRun(x)) /\ ~(ZeroRun(x) < n)
        BY <1>3, <1>4, <1>5
  <2>3. QED BY <2>1, <2>2
<1>6. QED BY <1>3, <1>5

\* The type, the length and the elements of a part of a sequence.
LEMMA PartFacts ==
    ASSUME NEW T, NEW x \in Seq(T), NEW n \in Nat, NEW m \in Nat, n <= m, m <= Len(x)
    PROVE  /\ SubSeq(x, n + 1, m) \in Seq(T)
           /\ Len(SubSeq(x, n + 1, m)) = m - n
           /\ \A i \in 1 .. m - n : SubSeq(x, n + 1, m)[i] = x[n + i]
<1>1. PICK a \in Nat : a = n + 1
      OBVIOUS
<1>2. \A i \in a .. m : x[i] \in T
      BY <1>1
<1>3. SubSeq(x, a, m) \in Seq(T) /\ Len(SubSeq(x, a, m)) = m - n
      BY <1>1, <1>2
<1>4. \A i \in 1 .. m - n : SubSeq(x, a, m)[i] = x[n + i]
  <2> SUFFICES ASSUME NEW i \in 1 .. m - n
               PROVE  SubSeq(x, a, m)[i] = x[n + i]
      OBVIOUS
  <2>1. SubSeq(x, a, m)[i] = x[a + i - 1]
        BY <1>1
  <2>2. a + i - 1 = n + i
        BY <1>1
  <2>3. QED BY <2>1, <2>2
<1>5. QED BY <1>1, <1>3, <1>4

\* Trimming drops zeros only, at its side, and as many as it can.
LEMMA TrimLeft ==
    ASSUME NEW T, 0 \in T, NEW x \in Seq(T)
    PROVE  LET out == TrimBytes(x, "left")
               n == Len(x) - Len(out)
           IN  /\ out \in Seq(T)
               /\ n \in Nat /\ x = Zeros(n) \o out
               /\ Len(out) > 1 => out[1] # 0
               /\ \A m \in Nat : IsZeroRun(x, m) => out = SubSeq(x, m + 1, Len(x))
<1>1. PICK n : n = ZeroRun(x) /\ IsZeroRun(x, n)
      BY ZeroRunFacts
<1> DEFINE out == TrimBytes(x, "left")
<1>2. out = SubSeq(x, n + 1, Len(x))
      BY <1>1 DEF TrimBytes
<1>3. n \in Nat /\ n <= Len(x)
      BY <1>1 DEF IsZeroRun, Greatest
<1>4. out \in Seq(T) /\ Len(out) = Len(x) - n /\ \A i \in 1 .. Len(x) - n : out[i] = x[n + i]
  <2>1. PICK m \in Nat : m = Len(x)
        OBVIOUS
  <2>2. n <= m /\ m <= Len(x)
        BY <1>3, <2>1
  <2>3. /\ SubSeq(x, n + 1, m) \in Seq(T) /\ Len(SubSeq(x, n + 1, m)) = m - n
        /\ \A i \in 1 .. m - n : SubSeq(x, n + 1, m)[i] = x[n + i]
        BY <1>3, <2>2, PartFacts
  <2>4. QED BY <1>2, <2>1, <2>3
<1> HIDE DEF out
<1>5. Zeros(n) \in Seq(T) /\ Len(Zeros(n)) = n /\ \A i \in 1 .. n : Zeros(n)[i] = 0
  <2>1. Zeros(n) \in Seq({0}) /\ Len(Zeros(n)) = n /\ \A i \in 1 .. n : Zeros(n)[i] = 0
        BY <1>3, ZerosFacts
  <2>2. QED BY <2>1
<1>6. x = Zeros(n) \o out
  <2>1. Zeros(n) \o out \in Seq(T) /\ Len(Zeros(n) \o out) = Len(x)
        BY <1>3, <1>4, <1>5, ConcatFacts
  <2>2. ASSUME NEW i \in 1 .. Len(x) PROVE x[i] = (Zeros(n) \o out)[i]
    <3>1. CASE i <= n
      <4>1. i \in 1 .. n
            BY <1>3, <3>1
      <4>2. x[i] = 0 /\ Zeros(n)[i] = 0
            BY <1>1, <1>5, <4>1 DEF IsZeroRun
      <4>3. (Zeros(n) \o out)[i] = Zeros(n)[i]
            BY <1>4, <1>5, <4>1, ConcatFacts
      <4>4. QED BY <4>2, <4>3
    <3>2. CASE i > n
      <4>1. i - n \in 1 .. Len(x) - n /\ i = n + (i - n)
            BY <1>3, <3>2
      <4>2. out[i - n] = x[i]
            BY <1>4, <4>1
      <4>3. (Zeros(n) \o out)[i] = out[i - n]
            BY <1>3, <1>4, <1>5, <4>1, ConcatFacts
      <4>4. QED BY <4>2, <4>3
    <3>3. i <= n \/ i > n
          BY <1>3
    <3>4. QED BY <3>1, <3>2, <3>3
  <2>3. QED BY <2>1, <2>2, SameSequence
<1>7. Len(out) > 1 => out[1] # 0
  <2>1. Len(out) > 1 => n < Len(x) - 1 /\ 1 \in 1 .. Len(x) - n
        BY <1>3, <1>4
  <2>2. QED BY <1>1, <1>4, <2>1 DEF IsZeroRun
<1>8. \A m \in Nat : IsZeroRun(x, m) => m = n
      BY <1>1, ZeroRunFacts
<1>9. Len(x) - Len(out) = n
      BY <1>3, <1>4
<1>10. QED BY <1>2, <1>3, <1>4, <1>6, <1>7, <1>8, <1>9 DEF out

\* Trimming on the right drops zeros behind and keeps one element (trim.ts).
LEMMA TrimRight ==
    ASSUME NEW T, 0 \in T, NEW x \in Seq(T)
    PROVE  LET out == TrimBytes(x, "right")
               n == Len(x) - Len(out)
           IN  /\ out \in Seq(T)
               /\ n \in Nat /\ x = out \o Zeros(n)
               /\ Len(out) > 1 => out[Len(out)] # 0
               /\ x # <<>> => Len(out) >= 1
<1> DEFINE r == Reverse(x)
<1>1. r \in Seq(T) /\ Len(r) = Len(x) /\ \A i \in 1 .. Len(x) : r[i] = x[(Len(x) - i) + 1]
      BY DEF Reverse
<1> HIDE DEF r
<1>2. PICK n : n = ZeroRun(r) /\ IsZeroRun(r, n)
      BY <1>1, ZeroRunFacts
<1> DEFINE out == TrimBytes(x, "right")
<1>3. out = SubSeq(x, 1, Len(x) - n)
      BY <1>2 DEF TrimBytes, r
<1>4. n \in Nat /\ n <= Len(x) /\ (Len(x) > 0 => n <= Len(x) - 1)
      BY <1>1, <1>2 DEF IsZeroRun, Greatest
<1>5. out \in Seq(T) /\ Len(out) = Len(x) - n /\ \A i \in 1 .. Len(x) - n : out[i] = x[i]
      BY <1>3, <1>4, SMTT(60)
<1> HIDE DEF out
<1>6. Zeros(n) \in Seq(T) /\ Len(Zeros(n)) = n /\ \A i \in 1 .. n : Zeros(n)[i] = 0
  <2>1. Zeros(n) \in Seq({0}) /\ Len(Zeros(n)) = n /\ \A i \in 1 .. n : Zeros(n)[i] = 0
        BY <1>4, ZerosFacts
  <2>2. QED BY <2>1
<1>7. x = out \o Zeros(n)
  <2>1. out \o Zeros(n) \in Seq(T) /\ Len(out \o Zeros(n)) = Len(x)
    <3>1. PICK z \in Seq(T) : z = Zeros(n) /\ Len(z) = n
          BY <1>6
    <3>2. out \o z \in Seq(T) /\ Len(out \o z) = Len(out) + n
          BY <1>5, <3>1, ConcatFacts
    <3>3. Len(out) + n = Len(x)
          BY <1>4, <1>5
    <3>4. QED BY <3>1, <3>2, <3>3
  <2>2. ASSUME NEW i \in 1 .. Len(x) PROVE x[i] = (out \o Zeros(n))[i]
    <3>1. CASE i <= Len(x) - n
      <4>1. i \in 1 .. Len(out)
            BY <1>4, <1>5, <3>1
      <4>2. QED BY <1>5, <1>6, <4>1, ConcatFacts
    <3>2. CASE i > Len(x) - n
      <4>1. PICK j \in 1 .. n : j = (Len(x) - i) + 1
        <5>1. (Len(x) - i) + 1 \in 1 .. n
              BY <1>4, <3>2
        <5>2. QED BY <5>1
      <4>2. r[j] = x[i] /\ r[j] = 0
        <5>1. j \in 1 .. Len(x) /\ (Len(x) - j) + 1 = i
              BY <1>4, <4>1
        <5>2. r[j] = x[i]
              BY <1>1, <5>1
        <5>3. QED BY <1>2, <5>2 DEF IsZeroRun
      <4>3. i - Len(out) \in 1 .. n /\ i = Len(out) + (i - Len(out))
            BY <1>4, <1>5, <3>2
      <4>6. PICK k \in 1 .. n : i = Len(out) + k
            BY <4>3
      <4>4. (out \o Zeros(n))[i] = 0
        <5>1. (out \o Zeros(n))[Len(out) + k] = Zeros(n)[k]
              BY <1>5, <1>6, ConcatFacts, SMTT(60)
        <5>2. Zeros(n)[k] = 0
              BY <1>6
        <5>3. QED BY <4>6, <5>1, <5>2
      <4>5. QED BY <4>2, <4>4
    <3>3. i <= Len(x) - n \/ i > Len(x) - n
          BY <1>4
    <3>4. QED BY <3>1, <3>2, <3>3
  <2>3. QED BY <2>1, <2>2, SameSequence
<1>8. ASSUME Len(out) > 1 PROVE out[Len(out)] # 0
  <2>1. n < Len(r) - 1 /\ n + 1 \in 1 .. Len(x) /\ (Len(x) - (n + 1)) + 1 = Len(out)
        /\ Len(out) \in 1 .. Len(x) - n
        BY <1>1, <1>4, <1>5, <1>8
  <2>2. r[n + 1] # 0
        BY <1>2, <2>1 DEF IsZeroRun
  <2>3. r[n + 1] = x[Len(out)]
        BY <1>1, <2>1
  <2>4. out[Len(out)] = x[Len(out)]
        BY <1>5, <2>1
  <2>5. QED BY <2>2, <2>3, <2>4
<1>9. x # <<>> => Len(out) >= 1
  <2>1. x # <<>> => Len(x) > 0
        OBVIOUS
  <2>2. QED BY <1>4, <1>5, <2>1
<1>10. Len(x) - Len(out) = n
       BY <1>4, <1>5
<1>11. QED BY <1>4, <1>5, <1>7, <1>8, <1>9, <1>10 DEF out

\* Trimmed hex is worth the same, has whole bytes, and a first byte that is not zero.
LEMMA TrimHexInverts ==
    ASSUME NEW h \in Seq(0 .. 15)
    PROVE  LET hex == TrimHex(h, "left")
           IN  /\ Worth(hex, 16) = Worth(h, 16) /\ Len(hex) % 2 = 0
               /\ Len(hex) > 2 => hex[1] # 0 \/ hex[2] # 0
<1> DEFINE out == TrimBytes(h, "left")
           hex == EvenDigits(out)
<1>1. TrimHex(h, "left") = hex
  <2>1. "left" # "right"
        OBVIOUS
  <2>2. QED BY <2>1 DEF TrimHex
<1>2. PICK n \in Nat : h = Zeros(n) \o out
  <2>1. 0 \in 0 .. 15
        OBVIOUS
  <2>2. QED BY <2>1, TrimLeft
<1>3. out \in Seq(0 .. 15) /\ (Len(out) > 1 => out[1] # 0)
  <2>1. 0 \in 0 .. 15
        OBVIOUS
  <2>2. QED BY <2>1, TrimLeft
<1> HIDE DEF out
<1>4. Worth(h, 16) = Worth(out, 16)
      BY <1>2, <1>3, Narrower, WorthOfZeros
<1>5. /\ Size(out) \in Nat /\ hex \in Seq(0 .. 15) /\ Len(hex) = 2 * Size(out)
      /\ Worth(hex, 16) = Worth(out, 16)
      /\ Len(out) % 2 = 0 => hex = out
      /\ Len(out) % 2 = 1 => hex = Zeros(1) \o out
      BY <1>3, EvenDigitsFacts
<1> HIDE DEF hex
<1>6. Len(hex) % 2 = 0
      BY <1>5
<1>7. ASSUME Len(hex) > 2 PROVE hex[1] # 0 \/ hex[2] # 0
  <2>1. CASE Len(out) % 2 = 0
        BY <1>3, <1>5, <1>7, <2>1
  <2>2. CASE Len(out) % 2 = 1
    <3>1. hex = <<0>> \o out
          BY <1>5, <2>2, OneZero
    <3>2. Len(hex) = 1 + Len(out) /\ Len(out) > 1
          BY <1>3, <1>7, <3>1
    <3>3. hex[2] = out[1]
          BY <1>3, <3>1, <3>2
    <3>4. QED BY <1>3, <3>2, <3>3
  <2>3. Len(out) % 2 = 0 \/ Len(out) % 2 = 1
        BY <1>3
  <2>4. QED BY <2>1, <2>2, <2>3
<1>8. QED BY <1>1, <1>4, <1>5, <1>6, <1>7

\* Padding puts back what trimming drops.
LEMMA TrimBytesInverts ==
    ASSUME NEW b \in Seq(0 .. 255), NEW dir \in {"left", "right"}
    PROVE  LET out == TrimBytes(b, dir)
           IN  /\ PadBytes(out, Len(b), dir) = b
               /\ Len(out) > 1 => out[IF dir = "left" THEN 1 ELSE Len(out)] # 0
<1> DEFINE out == TrimBytes(b, dir)
           n == Len(b) - Len(out)
<1>0. 0 \in 0 .. 255
      OBVIOUS
<1>1. /\ out \in Seq(0 .. 255) /\ n \in Nat
      /\ dir = "left" => b = Zeros(n) \o out /\ (Len(out) > 1 => out[1] # 0)
      /\ dir = "right" => b = out \o Zeros(n) /\ (Len(out) > 1 => out[Len(out)] # 0)
      BY <1>0, TrimLeft, TrimRight, ZenonT(60)
<1>2. PICK o : o = out
      OBVIOUS
<1>3. Len(o) \in Nat /\ Len(b) \in Nat /\ Len(o) <= Len(b) /\ ~(Len(o) > Len(b)) /\ Len(b) - Len(o) = n
      BY <1>1, <1>2
<1>4. PadBytes(o, Len(b), dir) = IF dir = "right" THEN o \o Zeros(n) ELSE Zeros(n) \o o
      BY <1>3 DEF PadBytes, Pad
<1>5. CASE dir = "left"
      BY <1>1, <1>2, <1>4, <1>5
<1>6. CASE dir = "right"
      BY <1>1, <1>2, <1>4, <1>6
<1>7. QED BY <1>5, <1>6

\* A sequence is a part in front and the rest.
LEMMA FrontAndRest ==
    ASSUME NEW T, NEW s \in Seq(T), NEW k \in Nat, k <= Len(s)
    PROVE  /\ SubSeq(s, 1, k) \in Seq(T) /\ Len(SubSeq(s, 1, k)) = k
           /\ \A i \in 1 .. k : SubSeq(s, 1, k)[i] = s[i]
           /\ SubSeq(s, k + 1, Len(s)) \in Seq(T) /\ Len(SubSeq(s, k + 1, Len(s))) = Len(s) - k
           /\ \A i \in 1 .. Len(s) - k : SubSeq(s, k + 1, Len(s))[i] = s[k + i]
           /\ SubSeq(s, 1, k) \o SubSeq(s, k + 1, Len(s)) = s
<1>1. PICK a : a = SubSeq(s, 1, k)
      OBVIOUS
<1>2. PICK c : c = SubSeq(s, k + 1, Len(s))
      OBVIOUS
<1>3. a \in Seq(T) /\ Len(a) = k /\ \A i \in 1 .. k : a[i] = s[i]
  <2>1. PICK z \in Nat : z = 0
        OBVIOUS
  <2>2. /\ SubSeq(s, z + 1, k) \in Seq(T) /\ Len(SubSeq(s, z + 1, k)) = k - z
        /\ \A i \in 1 .. k - z : SubSeq(s, z + 1, k)[i] = s[z + i]
        BY <2>1, PartFacts
  <2>3. z + 1 = 1 /\ k - z = k /\ \A i \in 1 .. k : z + i = i
        BY <2>1
  <2>4. QED BY <1>1, <2>2, <2>3
<1>4. c \in Seq(T) /\ Len(c) = Len(s) - k /\ \A i \in 1 .. Len(s) - k : c[i] = s[k + i]
  <2>1. PICK m \in Nat : m = Len(s)
        OBVIOUS
  <2>2. /\ SubSeq(s, k + 1, m) \in Seq(T) /\ Len(SubSeq(s, k + 1, m)) = m - k
        /\ \A i \in 1 .. m - k : SubSeq(s, k + 1, m)[i] = s[k + i]
        BY <2>1, PartFacts
  <2>3. QED BY <1>2, <2>1, <2>2
<1>5. a \o c = s
  <2>1. a \o c \in Seq(T) /\ Len(a \o c) = Len(a) + Len(c)
        /\ (\A i \in 1 .. Len(a) : (a \o c)[i] = a[i])
        /\ (\A i \in 1 .. Len(c) : (a \o c)[Len(a) + i] = c[i])
        BY <1>3, <1>4, ConcatFacts
  <2>2. Len(a \o c) = Len(s)
        BY <1>3, <1>4, <2>1
  <2>3. ASSUME NEW i \in 1 .. Len(a \o c) PROVE (a \o c)[i] = s[i]
    <3>1. CASE i <= k
          BY <1>3, <2>1, <3>1
    <3>2. CASE i > k
      <4>1. PICK j \in 1 .. Len(s) - k : j = i - k
        <5>1. i - k \in 1 .. Len(s) - k
              BY <2>2, <3>2
        <5>2. QED BY <5>1
      <4>2. i = Len(a) + j /\ i = k + j
            BY <1>3, <2>2, <4>1
      <4>3. QED BY <1>3, <1>4, <2>1, <4>2
    <3>3. QED BY <3>1, <3>2, <2>2
  <2>4. QED BY <2>1, <2>2, <2>3, SameSequence
<1>6. QED BY <1>1, <1>2, <1>3, <1>4, <1>5

\* A text is its byte order mark, if it has one, and what is decoded of it.
LEMMA DecodeFacts ==
    ASSUME NEW t \in Seq(0 .. 255)
    PROVE  t = IF Marked(t) THEN Mark \o Decode(t) ELSE Decode(t)
<1>1. CASE ~Marked(t)
      BY <1>1 DEF Decode
<1>2. CASE Marked(t)
  <2>1. Len(t) >= 3 /\ SubSeq(t, 1, 3) = Mark /\ Len(t) \in Nat
        BY <1>2 DEF Marked
  <2>2. t = SubSeq(t, 1, 3) \o SubSeq(t, 3 + 1, Len(t))
        BY <2>1, FrontAndRest
  <2>3. 3 + 1 = 4
        OBVIOUS
  <2>4. t = Mark \o SubSeq(t, 4, Len(t))
        BY <2>1, <2>2, <2>3
  <2>5. QED BY <1>2, <2>4 DEF Decode
<1>3. QED BY <1>1, <1>2

\* The last zeros, and no byte before them, are lost, and the byte order mark.
LEMMA TextRoundTrip ==
    ASSUME NEW t \in Seq(0 .. 255), NEW s \in Nat \union {Undefined}
    PROVE  IF ~Fits(Len(t), s) THEN StringToHex(t, s) = Thrown
           ELSE LET read == HexToString(StringToHex(t, s), s)
                IN  \/ t = IF Marked(t) THEN Mark \o read ELSE read
                    \/ Given(s) /\ (t = <<>> \/ t[Len(t)] = 0)
<1>1. CASE ~Fits(Len(t), s)
      BY <1>1, BytesRoundTrip DEF StringToHex
<1>2. CASE Fits(Len(t), s)
  <2> DEFINE hex == StringToHex(t, s)
             b == StringToBytes(t, s)
             Cut(bytes) == IF ~Given(s) THEN bytes
                           ELSE IF Len(bytes) > s THEN Thrown ELSE TrimBytes(bytes, "right")
  <2>1. /\ HexToBytes(hex, Undefined) = b
        /\ s # Undefined => b = t \o Zeros(s - Len(t)) /\ b \in Seq(0 .. 255) /\ Len(b) = s
        BY <1>2, BytesRoundTrip DEF StringToHex
  <2> DEFINE read == HexToString(hex, s)
  <2>8. read = After(Cut(b), Decode)
        BY <2>1 DEF HexToString
  <2>2. Cut(b) = t => t = IF Marked(t) THEN Mark \o read ELSE read
    <3>1. t # Thrown
          BY NotSpecial, Narrower
    <3>2. Cut(b) = t => read = Decode(t)
          BY <2>8, <3>1 DEF After
    <3> HIDE DEF read, b
    <3>3. QED BY <3>2, DecodeFacts
  <2>3. CASE s = Undefined
    <3>1. b = t /\ ~Given(s)
          BY <2>3, NotSpecial DEF StringToBytes
    <3>2. Cut(b) = t
          BY <3>1
    <3>3. QED BY <1>2, <2>2, <3>2
  <2>4. CASE s = 0
    <3>1. s # Undefined /\ ~Given(s) /\ Len(t) = 0
          BY <1>2, <2>4, NotSpecial DEF Fits
    <3>2. b = <<>> /\ t = <<>>
          BY <2>1, <2>4, <3>1, EmptySeq
    <3>3. Cut(b) = t
          BY <3>1, <3>2
    <3>4. QED BY <1>2, <2>2, <3>3
  <2>5. CASE s \in Nat \ {0} /\ t # <<>> /\ t[Len(t)] # 0
    <3>1. s # Undefined /\ Given(s) /\ Len(t) <= s
          BY <1>2, <2>5, NotSpecial DEF Fits
    <3> HIDE DEF b
    <3> DEFINE out == TrimBytes(b, "right")
    <3>2. ~(Len(b) > s) /\ Cut(b) = out
          BY <2>1, <2>5, <3>1
    <3>3. 0 \in 0 .. 255 /\ b # <<>>
          BY <2>1, <2>5, <3>1
    <3>4. PICK n \in Nat : /\ b = out \o Zeros(n)
                           /\ out \in Seq(0 .. 255)
                           /\ Len(out) > 1 => out[Len(out)] # 0
                           /\ Len(out) >= 1
          BY <2>1, <3>1, <3>3, TrimRight, ZenonT(60)
    <3> HIDE DEF out
    <3>5. PICK k \in Nat : k = s - Len(t)
          BY <2>5, <3>1
    <3>6. /\ Zeros(n) \in Seq(0 .. 255) /\ Len(Zeros(n)) = n /\ \A i \in 1 .. n : Zeros(n)[i] = 0
          /\ Zeros(k) \in Seq(0 .. 255) /\ Len(Zeros(k)) = k /\ \A i \in 1 .. k : Zeros(k)[i] = 0
      <4>1. /\ Zeros(n) \in Seq({0}) /\ Len(Zeros(n)) = n /\ \A i \in 1 .. n : Zeros(n)[i] = 0
            /\ Zeros(k) \in Seq({0}) /\ Len(Zeros(k)) = k /\ \A i \in 1 .. k : Zeros(k)[i] = 0
            BY ZerosFacts
      <4>2. QED BY <4>1
    <3>7. b = t \o Zeros(k) /\ Len(b) = s /\ Len(t) >= 1
          BY <2>1, <2>5, <3>1, <3>5
    <3>8. /\ \A i \in 1 .. Len(t) : b[i] = t[i]
          /\ \A i \in 1 .. k : b[Len(t) + i] = 0
          BY <3>6, <3>7, ConcatFacts
    <3>9. /\ \A i \in 1 .. Len(out) : b[i] = out[i]
          /\ \A i \in 1 .. n : b[Len(out) + i] = 0
          /\ Len(b) = Len(out) + n
      <4>1. /\ \A i \in 1 .. Len(out) : b[i] = out[i]
            /\ \A i \in 1 .. n : b[Len(out) + i] = Zeros(n)[i]
            /\ Len(b) = Len(out) + Len(Zeros(n))
        <5>1. PICK z \in Seq(0 .. 255) : z = Zeros(n) /\ Len(z) = n
              BY <3>6
        <5>2. /\ \A i \in 1 .. Len(out) : (out \o z)[i] = out[i]
              /\ \A i \in 1 .. Len(z) : (out \o z)[Len(out) + i] = z[i]
              /\ Len(out \o z) = Len(out) + Len(z)
              BY <3>4, ConcatFacts
        <5>3. QED BY <3>4, <5>1, <5>2
      <4>2. QED BY <3>6, <4>1
    <3>10. Len(t) \in Nat /\ Len(out) \in Nat
           BY <3>4
    <3>11. ~(Len(out) < Len(t))
      <4> SUFFICES ASSUME Len(out) < Len(t) PROVE FALSE
          OBVIOUS
      <4>1. PICK i \in 1 .. n : Len(t) = Len(out) + i
        <5>1. Len(t) - Len(out) \in 1 .. n /\ Len(t) = Len(out) + (Len(t) - Len(out))
              BY <3>1, <3>7, <3>9, <3>10
        <5>2. QED BY <5>1
      <4>2. b[Len(t)] = 0
            BY <3>9, <4>1
      <4>3. b[Len(t)] = t[Len(t)]
            BY <3>7, <3>8, <3>10
      <4>4. QED BY <2>5, <4>2, <4>3
    <3>12. ~(Len(t) < Len(out))
      <4> SUFFICES ASSUME Len(t) < Len(out) PROVE FALSE
          OBVIOUS
      <4>1. PICK i \in 1 .. k : Len(out) = Len(t) + i
        <5>1. Len(out) - Len(t) \in 1 .. k /\ Len(out) = Len(t) + (Len(out) - Len(t))
              BY <3>5, <3>7, <3>9, <3>10
        <5>2. QED BY <5>1
      <4>2. b[Len(out)] = 0
            BY <3>8, <4>1
      <4>3. b[Len(out)] = out[Len(out)]
            BY <3>4, <3>9, <3>10
      <4>4. Len(out) > 1
            BY <3>7, <3>10
      <4>5. QED BY <3>4, <4>2, <4>3, <4>4
    <3>13. Len(out) = Len(t)
           BY <3>10, <3>11, <3>12
    <3>14. \A i \in 1 .. Len(t) : out[i] = t[i]
           BY <3>8, <3>9, <3>13
    <3>15. out = t
           BY <3>4, <3>13, <3>14, SameSequence
    <3>16. Cut(b) = t
           BY <3>2, <3>15
    <3>17. QED BY <1>2, <2>2, <3>16
  <2>6. CASE s \in Nat \ {0} /\ (t = <<>> \/ t[Len(t)] = 0)
    <3>1. Given(s)
          BY <2>6, NotSpecial
    <3>2. QED BY <1>2, <2>6, <3>1
  <2>7. QED BY <1>2, <2>3, <2>4, <2>5, <2>6
<1>3. QED BY <1>1, <1>2

\* A slice of n units of w elements each.
SliceLow(n, a) == Least(a, n)
SliceHigh(n, a, e) ==
    Greatest(Least(a, n), Least(IF e = Undefined THEN n ELSE e, n))

\* When a slice throws.
SliceRefused(n, a, e, strict) ==
    \/ a > 0 /\ a >= n
    \/ strict /\ e # Undefined /\ SliceHigh(n, a, e) - SliceLow(n, a) # e - a

\* The ends of a slice are in order and in the value.
LEMMA SliceBounds ==
    ASSUME NEW n \in Nat, NEW a \in Nat, NEW e \in Nat \union {Undefined}
    PROVE  /\ SliceLow(n, a) \in Nat /\ SliceHigh(n, a, e) \in Nat
           /\ SliceLow(n, a) <= SliceHigh(n, a, e) /\ SliceHigh(n, a, e) <= n
<1> DEFINE end == IF e = Undefined THEN n ELSE e
<1>1. end \in Nat
      OBVIOUS
<1>2. QED BY <1>1 DEF SliceLow, SliceHigh, Least, Greatest

\* A slice is the part between its ends, or throws (slice.ts).
LEMMA SliceFacts ==
    ASSUME NEW T, NEW x \in Seq(T), NEW w \in {1, 2}, NEW n \in Nat, Len(x) = w * n,
           NEW a \in Nat, NEW e \in Nat \union {Undefined}, NEW strict \in BOOLEAN
    PROVE  /\ SliceRefused(n, a, e, strict) => SliceOf(x, w, a, e, strict) = Thrown
           /\ ~SliceRefused(n, a, e, strict) =>
                SliceOf(x, w, a, e, strict)
                  = SubSeq(x, w * SliceLow(n, a) + 1, w * SliceHigh(n, a, e))
<1> DEFINE lo == SliceLow(n, a)
           hi == SliceHigh(n, a, e)
           end == IF e = Undefined THEN n ELSE e
           part == SubArray(x, IF a = Undefined THEN 0 ELSE a * w,
                               IF e = Undefined THEN Len(x) ELSE e * w)
           SizeOf(v) == (Len(v) + w - 1) \div w
<1>1. a # Undefined /\ end \in Nat
      BY NotSpecial
<1>2. lo \in Nat /\ hi \in Nat /\ lo <= hi /\ hi <= n
      /\ lo = (IF a < n THEN a ELSE n)
      /\ hi = (IF end < n THEN (IF lo < end THEN end ELSE lo) ELSE n)
      BY <1>1 DEF SliceLow, SliceHigh, Least, Greatest
<1>3. part = SubSeq(x, Least(w * a, w * n) + 1, Least(w * end, w * n))
  <2>1. a * w = w * a /\ e * w = w * e /\ ~(w * a < 0) /\ ~(w * end < 0)
        BY <1>1
  <2>2. (IF e = Undefined THEN Len(x) ELSE e * w) = w * end
        BY <2>1
  <2>3. QED BY <1>1, <2>1, <2>2 DEF SubArray, Position
<1>4. Least(w * a, w * n) = w * lo
  <2>1. (w * a < w * n) <=> (a < n)
        OBVIOUS
  <2>2. QED BY <1>2, <2>1 DEF Least
<1>5. part = SubSeq(x, w * lo + 1, w * hi)
  <2>0. PICK k \in Nat : k = end
        BY <1>1
  <2>4. Least(w * end, w * n) = w * Least(k, n) /\ Least(k, n) \in Nat
    <3>1. (w * k < w * n) <=> (k < n)
          OBVIOUS
    <3>2. QED BY <2>0, <3>1 DEF Least
  <2>1. CASE lo < end
    <3>1. Least(w * end, w * n) = w * hi
      <4>1. Least(k, n) = hi
            BY <1>1, <1>2, <2>0, <2>1 DEF Least
      <4>2. QED BY <2>4, <4>1
    <3>2. QED BY <1>3, <1>4, <3>1
  <2>2. CASE ~(lo < end)
    <3>1. hi = lo /\ Least(w * end, w * n) <= w * lo /\ Least(w * end, w * n) \in Nat
      <4>1. hi = lo /\ Least(k, n) <= lo
            BY <1>1, <1>2, <2>0, <2>2 DEF Least
      <4>2. w * Least(k, n) <= w * lo /\ w * Least(k, n) \in Nat
            BY <1>2, <2>4, <4>1
      <4>3. QED BY <2>4, <4>1, <4>2
    <3>2. PICK u \in Nat, v \in Nat, z \in Nat : u = w * lo /\ v = Least(w * end, w * n) /\ z = w * hi
      <4>1. w * lo \in Nat /\ w * hi \in Nat
            BY <1>2
      <4>2. QED BY <3>1, <4>1
    <3>3. z = u /\ v <= u
          BY <3>1, <3>2
    <3>4. SubSeq(x, u + 1, v) = <<>> /\ SubSeq(x, u + 1, z) = <<>>
      <4>1. /\ SubSeq(x, u + 1, v) = [i \in 1 .. (1 + v - (u + 1)) |-> x[i + (u + 1) - 1]]
            /\ SubSeq(x, u + 1, z) = [i \in 1 .. (1 + z - (u + 1)) |-> x[i + (u + 1) - 1]]
            OBVIOUS
      <4>2. Len(SubSeq(x, u + 1, v)) = 0 /\ Len(SubSeq(x, u + 1, z)) = 0
            BY <3>3
      <4>3. QED BY <4>2
    <3>5. QED BY <1>3, <1>4, <3>2, <3>4
  <2>3. QED BY <2>1, <2>2
<1>6. SizeOf(part) = hi - lo /\ SizeOf(x) = n
  <2>1. PICK u \in Nat, z \in Nat : u = w * lo /\ z = w * hi /\ u <= z /\ z <= Len(x)
        BY <1>2
  <2>2. Len(part) = z - u
    <3>1. part = SubSeq(x, u + 1, z)
          BY <1>5, <2>1
    <3>2. Len(SubSeq(x, u + 1, z)) = z - u
          BY <2>1, PartFacts, SMTT(60)
    <3>3. QED BY <3>1, <3>2
  <2>3. Len(part) = w * (hi - lo)
    <3>1. w * (hi - lo) = z - u
          BY <1>2, <2>1
    <3>2. QED BY <2>2, <3>1
  <2>4. \A k \in Nat : (w * k + w - 1) \div w = k
        OBVIOUS
  <2>5. QED BY <1>2, <2>3, <2>4
<1> HIDE DEF part, lo, hi
<1>7. SliceOf(x, w, a, e, strict) =
        IF (a > 0 /\ a > n - 1) \/ (strict /\ e # Undefined /\ hi - lo # e - a)
        THEN Thrown ELSE part
  <2>1. SliceOf(x, w, a, e, strict) =
          IF \/ a # Undefined /\ a > 0 /\ a > SizeOf(x) - 1
             \/ strict /\ a # Undefined /\ e # Undefined /\ SizeOf(part) # e - a
          THEN Thrown ELSE part
        BY DEF SliceOf, part
  <2>2. QED BY <1>1, <1>6, <2>1
<1>8. (a > n - 1) <=> (a >= n)
      OBVIOUS
<1>9. SliceRefused(n, a, e, strict) <=>
        (a > 0 /\ a >= n) \/ (strict /\ e # Undefined /\ hi - lo # e - a)
      BY DEF SliceRefused, lo, hi
<1>10. QED BY <1>2, <1>5, <1>7, <1>8, <1>9 DEF lo, hi

\* The digits of a part of the bytes are the part of the digits.
LEMMA NibblesOfPart ==
    ASSUME NEW b \in Seq(0 .. 255), NEW lo \in Nat, NEW hi \in Nat, lo <= hi, hi <= Len(b)
    PROVE  Nibbles(SubSeq(b, lo + 1, hi)) = SubSeq(Nibbles(b), 2 * lo + 1, 2 * hi)
<1> DEFINE c == SubSeq(b, lo + 1, hi)
           d == Nibbles(b)
           e == Nibbles(c)
           f == SubSeq(d, 2 * lo + 1, 2 * hi)
<1>1. c \in Seq(0 .. 255) /\ Len(c) = hi - lo /\ \A i \in 1 .. hi - lo : c[i] = b[lo + i]
      BY PartFacts, ZenonT(40)
<1>2. d \in Seq(0 .. 15) /\ Len(d) = 2 * Len(b)
      /\ \A j \in 1 .. Len(b) : d[2 * j - 1] = b[j] \div 16 /\ d[2 * j] = b[j] % 16
      BY NibblesFacts
<1> HIDE DEF c, d
<1>3. e \in Seq(0 .. 15) /\ Len(e) = 2 * (hi - lo)
      /\ \A j \in 1 .. hi - lo : e[2 * j - 1] = c[j] \div 16 /\ e[2 * j] = c[j] % 16
      BY <1>1, NibblesFacts
<1>4. f \in Seq(0 .. 15) /\ Len(f) = 2 * (hi - lo)
      /\ \A i \in 1 .. 2 * (hi - lo) : f[i] = d[2 * lo + i]
  <2>1. PICK u \in Nat, v \in Nat : u = 2 * lo /\ v = 2 * hi
        OBVIOUS
  <2>2. u <= v /\ v <= Len(d) /\ v - u = 2 * (hi - lo)
        BY <1>2, <2>1
  <2>0. PICK T : T = 0 .. 15
        OBVIOUS
  <2>3. /\ SubSeq(d, u + 1, v) \in Seq(T) /\ Len(SubSeq(d, u + 1, v)) = v - u
        /\ \A i \in 1 .. v - u : SubSeq(d, u + 1, v)[i] = d[u + i]
    <3>1. PICK z \in Seq(T) : z = d
          BY <1>2, <2>0
    <3>2. u <= v /\ v <= Len(z)
          BY <2>2, <3>1
    <3>3. /\ SubSeq(z, u + 1, v) \in Seq(T) /\ Len(SubSeq(z, u + 1, v)) = v - u
          /\ \A i \in 1 .. v - u : SubSeq(z, u + 1, v)[i] = z[u + i]
          BY <3>2, PartFacts
    <3>4. QED BY <3>1, <3>3
  <2>4. QED BY <2>0, <2>1, <2>2, <2>3
<1> HIDE DEF e, f
<1>5. ASSUME NEW i \in 1 .. Len(e) PROVE e[i] = f[i]
  <2>1. PICK j \in 1 .. hi - lo : i = 2 * j - 1 \/ i = 2 * j
    <3>1. (i + 1) \div 2 \in 1 .. hi - lo
          /\ (i = 2 * ((i + 1) \div 2) - 1 \/ i = 2 * ((i + 1) \div 2))
          BY <1>3
    <3>2. QED BY <3>1
  <2>2. f[i] = d[2 * lo + i]
        BY <1>3, <1>4
  <2>3. PICK k \in 1 .. Len(b) : k = lo + j
    <3>1. lo + j \in 1 .. Len(b)
          OBVIOUS
    <3>2. QED BY <3>1
  <2>4. c[j] = b[k]
        BY <1>1, <2>3
  <2>5. d[2 * k - 1] = b[k] \div 16 /\ d[2 * k] = b[k] % 16
        BY <1>2
  <2>6. e[2 * j - 1] = c[j] \div 16 /\ e[2 * j] = c[j] % 16
        BY <1>3
  <2>7. 2 * k - 1 = 2 * lo + (2 * j - 1) /\ 2 * k = 2 * lo + 2 * j
        BY <2>3
  <2>8. CASE i = 2 * j - 1
        BY <2>2, <2>4, <2>5, <2>6, <2>7, <2>8
  <2>9. CASE i = 2 * j
        BY <2>2, <2>4, <2>5, <2>6, <2>7, <2>9
  <2>10. QED BY <2>1, <2>8, <2>9
<1>6. e = f
      BY <1>3, <1>4, <1>5, SameSequence
<1>7. QED BY <1>6 DEF e, f, c, d

\* Three adjoining parts make up the whole.
LEMMA PartsMakeUp ==
    ASSUME NEW T, NEW x \in Seq(T), NEW u \in Nat, NEW v \in Nat, u <= v, v <= Len(x)
    PROVE  SubSeq(x, 1, u) \o SubSeq(x, u + 1, v) \o SubSeq(x, v + 1, Len(x)) = x
<1> DEFINE p == SubSeq(x, 1, u)
           q == SubSeq(x, u + 1, v)
           r == SubSeq(x, v + 1, Len(x))
<1>1. p \in Seq(T) /\ Len(p) = u /\ \A i \in 1 .. u : p[i] = x[i]
  <2>1. PICK z \in Nat : z = 0
        OBVIOUS
  <2>2. /\ SubSeq(x, z + 1, u) \in Seq(T) /\ Len(SubSeq(x, z + 1, u)) = u - z
        /\ \A i \in 1 .. u - z : SubSeq(x, z + 1, u)[i] = x[z + i]
        BY <2>1, PartFacts
  <2>3. QED BY <2>1, <2>2
<1>2. q \in Seq(T) /\ Len(q) = v - u /\ \A i \in 1 .. v - u : q[i] = x[u + i]
      BY PartFacts
<1>3. PICK n \in Nat : n = Len(x)
      OBVIOUS
<1>4. r \in Seq(T) /\ Len(r) = n - v /\ \A i \in 1 .. n - v : r[i] = x[v + i]
  <2>1. /\ SubSeq(x, v + 1, n) \in Seq(T) /\ Len(SubSeq(x, v + 1, n)) = n - v
        /\ \A i \in 1 .. n - v : SubSeq(x, v + 1, n)[i] = x[v + i]
        BY <1>3, PartFacts
  <2>2. QED BY <1>3, <2>1
<1> HIDE DEF p, q, r
<1>5. p \o q \in Seq(T) /\ Len(p \o q) = v /\ \A i \in 1 .. v : (p \o q)[i] = x[i]
  <2>1. p \o q \in Seq(T) /\ Len(p \o q) = v
    <3>1. p \o q \in Seq(T) /\ Len(p \o q) = Len(p) + Len(q)
          BY <1>1, <1>2, ConcatFacts
    <3>2. QED BY <1>1, <1>2, <3>1
  <2>2. ASSUME NEW i \in 1 .. v PROVE (p \o q)[i] = x[i]
    <3>1. CASE i <= u
          BY <1>1, <1>2, <3>1, ConcatFacts
    <3>2. CASE i > u
      <4>1. PICK j \in 1 .. v - u : i = u + j
        <5>1. i - u \in 1 .. v - u /\ i = u + (i - u)
              BY <3>2
        <5>2. QED BY <5>1
      <4>2. (p \o q)[u + j] = q[j]
            BY <1>1, <1>2, ConcatFacts
      <4>3. QED BY <1>2, <4>1, <4>2
    <3>3. i <= u \/ i > u
          OBVIOUS
    <3>4. QED BY <3>1, <3>2, <3>3
  <2>3. QED BY <2>1, <2>2
<1>6. PICK s : s = p \o q
      OBVIOUS
<1>7. s \o r \in Seq(T) /\ Len(s \o r) = n /\ \A i \in 1 .. n : (s \o r)[i] = x[i]
  <2>1. s \in Seq(T) /\ Len(s) = v /\ \A i \in 1 .. v : s[i] = x[i]
        BY <1>5, <1>6
  <2>2. s \o r \in Seq(T) /\ Len(s \o r) = n
        BY <1>3, <1>4, <2>1, ConcatFacts
  <2>3. ASSUME NEW i \in 1 .. n PROVE (s \o r)[i] = x[i]
    <3>1. CASE i <= v
          BY <1>4, <2>1, <3>1, ConcatFacts
    <3>2. CASE i > v
      <4>1. PICK j \in 1 .. n - v : i = v + j
        <5>1. i - v \in 1 .. n - v /\ i = v + (i - v)
              BY <3>2
        <5>2. QED BY <5>1
      <4>2. (s \o r)[v + j] = r[j]
            BY <1>4, <2>1, ConcatFacts
      <4>3. QED BY <1>4, <4>1, <4>2
    <3>3. i <= v \/ i > v
          OBVIOUS
    <3>4. QED BY <3>1, <3>2, <3>3
  <2>4. QED BY <2>2, <2>3
<1>8. s \o r = x
      BY <1>3, <1>7, SameSequence
<1>9. QED BY <1>6, <1>8 DEF p, q, r

\* The same with two digits to a byte, and with bytes.
LEMMA SliceOfHex ==
    ASSUME NEW x \in Seq(0 .. 15), NEW n \in Nat, Len(x) = 2 * n,
           NEW a \in Nat, NEW e \in Nat \union {Undefined}, NEW strict \in BOOLEAN
    PROVE  /\ SliceRefused(n, a, e, strict) => SliceHex(x, a, e, strict) = Thrown
           /\ ~SliceRefused(n, a, e, strict) => SliceHex(x, a, e, strict) = SubSeq(x, 2 * SliceLow(n, a) + 1, 2 * SliceHigh(n, a, e))
<1>1. PICK T : T = 0 .. 15
      OBVIOUS
<1>2. PICK w \in {1, 2} : w = 2
      OBVIOUS
<1>3. Len(x) = w * n /\ x \in Seq(T)
      BY <1>1, <1>2
<1>5. /\ SliceRefused(n, a, e, strict) => SliceOf(x, w, a, e, strict) = Thrown
      /\ ~SliceRefused(n, a, e, strict) => SliceOf(x, w, a, e, strict) = SubSeq(x, w * SliceLow(n, a) + 1, w * SliceHigh(n, a, e))
      BY <1>3, SliceFacts
<1>6. QED BY <1>2, <1>5 DEF SliceHex

\* A slice of bytes (sliceBytes).
LEMMA SliceOfBytes ==
    ASSUME NEW b \in Seq(0 .. 255), NEW n \in Nat, Len(b) = n,
           NEW a \in Nat, NEW e \in Nat \union {Undefined}, NEW strict \in BOOLEAN
    PROVE  /\ SliceRefused(n, a, e, strict) => SliceBytes(b, a, e, strict) = Thrown
           /\ ~SliceRefused(n, a, e, strict) => SliceBytes(b, a, e, strict) = SubSeq(b, SliceLow(n, a) + 1, SliceHigh(n, a, e))
<1>1. PICK T : T = 0 .. 255
      OBVIOUS
<1>2. PICK w \in {1, 2} : w = 1
      OBVIOUS
<1>3. Len(b) = w * n /\ b \in Seq(T)
      BY <1>1, <1>2
<1>4. SliceLow(n, a) \in Nat /\ SliceHigh(n, a, e) \in Nat
      BY SliceBounds
<1>5. /\ SliceRefused(n, a, e, strict) => SliceOf(b, w, a, e, strict) = Thrown
      /\ ~SliceRefused(n, a, e, strict) => SliceOf(b, w, a, e, strict) = SubSeq(b, w * SliceLow(n, a) + 1, w * SliceHigh(n, a, e))
      BY <1>3, SliceFacts
<1>6. w * SliceLow(n, a) + 1 = SliceLow(n, a) + 1 /\ w * SliceHigh(n, a, e) = SliceHigh(n, a, e)
      BY <1>2, <1>4
<1>7. QED BY <1>2, <1>5, <1>6 DEF SliceBytes

\* The parts of a slice make up the value, of digits as of bytes.
LEMMA SliceInverts ==
    ASSUME NEW b \in Seq(0 .. 255), NEW a \in Nat, NEW e \in Nat \union {Undefined},
           NEW strict \in BOOLEAN
    PROVE  LET hex == SliceHex(BytesToHex(b, Undefined), a, e, strict)
               size == Len(b)
               end == IF e = Undefined THEN size ELSE e
               From(c, d) == SliceHex(BytesToHex(b, Undefined), c, d, FALSE)
           IN  /\ CASE a > 0 /\ a >= size -> hex = Thrown
                    [] (a = 0 \/ a < size) /\ a <= end /\ end <= size ->
                         /\ hex # Thrown /\ Size(hex) = end - a
                         /\ From(0, a) \o hex
                              \o (IF end = size THEN <<>> ELSE From(end, Undefined))
                            = BytesToHex(b, Undefined)
                    [] OTHER -> strict /\ e # Undefined => hex = Thrown
               /\ SliceBytes(b, a, e, strict)
                    = IF hex = Thrown THEN Thrown ELSE HexToBytes(hex, Undefined)
<1> DEFINE size == Len(b)
           end == IF e = Undefined THEN size ELSE e
           lo == SliceLow(size, a)
           hi == SliceHigh(size, a, e)
           refused == SliceRefused(size, a, e, strict)
           cut == SubSeq(b, lo + 1, hi)
           From(c, d) == SliceHex(BytesToHex(b, Undefined), c, d, FALSE)
<1>1. PICK x \in Seq(0 .. 15) : x = Nibbles(b) /\ Len(x) = 2 * size /\ Paired(x) = b
      BY NibblesFacts
<1>2. BytesToHex(b, Undefined) = x
      BY <1>1 DEF BytesToHex, Sized
<1>3. end \in Nat /\ size \in Nat /\ (e # Undefined => e \in Nat)
      OBVIOUS
<1>0. refused <=> (a > 0 /\ a >= size) \/ (strict /\ e # Undefined /\ hi - lo # e - a)
      BY DEF SliceRefused
<1> HIDE DEF lo, hi, cut, refused
<1>4. lo \in Nat /\ hi \in Nat /\ lo <= hi /\ hi <= size
      /\ (refused => SliceHex(x, a, e, strict) = Thrown)
      /\ (~refused => SliceHex(x, a, e, strict) = SubSeq(x, 2 * lo + 1, 2 * hi))
  <2>1. lo \in Nat /\ hi \in Nat /\ lo <= hi /\ hi <= size
        BY <1>3, SliceBounds DEF lo, hi
  <2>2. (refused => SliceHex(x, a, e, strict) = Thrown)
        /\ (~refused => SliceHex(x, a, e, strict) = SubSeq(x, 2 * lo + 1, 2 * hi))
        BY <1>1, <1>3, SliceOfHex DEF lo, hi, refused
  <2>3. QED BY <2>1, <2>2
<1>5. (refused => SliceBytes(b, a, e, strict) = Thrown)
      /\ (~refused => SliceBytes(b, a, e, strict) = cut)
      BY <1>1, <1>3, SliceOfBytes DEF lo, hi, refused, cut
<1>6. PICK hex : hex = SliceHex(x, a, e, strict)
      OBVIOUS
<1>7. lo = (IF a < size THEN a ELSE size)
      /\ hi = (IF end < size THEN (IF lo < end THEN end ELSE lo) ELSE size)
      BY <1>3 DEF SliceLow, SliceHigh, Least, Greatest, lo, hi
<1>8. cut \in Seq(0 .. 255) /\ Len(cut) = hi - lo /\ Nibbles(cut) = SubSeq(x, 2 * lo + 1, 2 * hi)
  <2> USE DEF cut
  <2>1. cut \in Seq(0 .. 255) /\ Len(cut) = hi - lo
    <3>1. PICK T : T = 0 .. 255
          OBVIOUS
    <3>2. b \in Seq(T)
          BY <3>1
    <3>3. SubSeq(b, lo + 1, hi) \in Seq(T) /\ Len(SubSeq(b, lo + 1, hi)) = hi - lo
          BY <1>3, <1>4, <3>2, PartFacts
    <3>4. QED BY <3>1, <3>3
  <2>2. Nibbles(cut) = SubSeq(x, 2 * lo + 1, 2 * hi)
        BY <1>1, <1>3, <1>4, NibblesOfPart
  <2>3. QED BY <2>1, <2>2
<1>9. ~refused => /\ hex = Nibbles(cut) /\ hex \in Seq(0 .. 15) /\ hex # Thrown
                  /\ Len(hex) = 2 * (hi - lo) /\ Size(hex) = hi - lo
                  /\ HexToBytes(hex, Undefined) = cut
  <2> SUFFICES ASSUME ~refused
               PROVE  /\ hex = Nibbles(cut) /\ hex \in Seq(0 .. 15) /\ hex # Thrown
                      /\ Len(hex) = 2 * (hi - lo) /\ Size(hex) = hi - lo
                      /\ HexToBytes(hex, Undefined) = cut
      OBVIOUS
  <2>1. hex = Nibbles(cut)
        BY <1>4, <1>6, <1>8
  <2>2. hex \in Seq(0 .. 15) /\ Len(hex) = 2 * (hi - lo) /\ Paired(hex) = cut
        BY <1>8, <2>1, NibblesFacts
  <2>3. hex # Thrown
        BY <2>2, Narrower, NotSpecial
  <2>4. PICK k \in Nat : k = hi - lo
        BY <1>4
  <2>5. Size(hex) = k /\ EvenDigits(hex) = hex
        BY <2>2, <2>4, EvenDigitsFacts
  <2>6. HexToBytes(hex, Undefined) = cut
        BY <2>2, <2>5, HexToBytesFacts
  <2>7. QED BY <2>1, <2>2, <2>3, <2>4, <2>5, <2>6
<1>10. SliceBytes(b, a, e, strict) = IF hex = Thrown THEN Thrown ELSE HexToBytes(hex, Undefined)
       BY <1>4, <1>5, <1>6, <1>9
<1>11. ASSUME a > 0 /\ a >= size
       PROVE  hex = Thrown
       BY <1>0, <1>4, <1>6, <1>11
<1>12. ASSUME a = 0 \/ a < size, a <= end, end <= size
       PROVE  /\ hex # Thrown /\ Size(hex) = end - a
              /\ From(0, a) \o hex \o (IF end = size THEN <<>> ELSE From(end, Undefined)) = x
  <2>1. lo = a /\ hi = end
        BY <1>3, <1>7, <1>12
  <2>2. ~refused
        BY <1>0, <1>3, <1>12, <2>1
  <2>3. PICK u \in Nat, v \in Nat : u = 2 * a /\ v = 2 * end /\ u <= v /\ v <= Len(x)
    <3>1. 2 * a \in Nat /\ 2 * end \in Nat /\ 2 * a <= 2 * end /\ 2 * end <= 2 * size
          BY <1>3, <1>12
    <3>2. QED BY <1>1, <3>1
  <2>4. hex = SubSeq(x, u + 1, v)
        BY <1>4, <1>6, <2>1, <2>2, <2>3
  <2>5. From(0, a) = SubSeq(x, 1, u)
    <3>1. PICK z \in Nat, f \in BOOLEAN, g \in Nat \union {Undefined} : z = 0 /\ ~f /\ g = a
          OBVIOUS
    <3>3. a # Undefined
          BY NotSpecial
    <3>4. SliceLow(size, z) = 0 /\ SliceHigh(size, z, g) = a
          BY <1>3, <1>12, <3>1, <3>3 DEF SliceLow, SliceHigh, Least, Greatest
    <3>2. /\ SliceRefused(size, z, g, f) => SliceHex(x, z, g, f) = Thrown
          /\ ~SliceRefused(size, z, g, f) => SliceHex(x, z, g, f) = SubSeq(x, 2 * SliceLow(size, z) + 1, 2 * SliceHigh(size, z, g))
          BY <1>1, <1>3, SliceOfHex
    <3>5. ~SliceRefused(size, z, g, f)
          BY <3>1 DEF SliceRefused
    <3>6. SliceHex(x, z, g, f) = SubSeq(x, 2 * 0 + 1, 2 * a)
          BY <3>1, <3>2, <3>4, <3>5
    <3>7. SliceHex(x, 0, a, FALSE) = SubSeq(x, 2 * 0 + 1, 2 * a)
          BY <3>1, <3>6
    <3>8. From(0, a) = SliceHex(x, 0, a, FALSE)
          BY <1>2
    <3>9. 2 * 0 + 1 = 1 /\ 2 * a = u
          BY <2>3
    <3>10. QED BY <3>7, <3>8, <3>9
  <2>6. CASE end = size
    <3>1. SubSeq(x, v + 1, Len(x)) = <<>>
      <4>1. PICK n \in Nat : n = Len(x)
            OBVIOUS
      <4>2. v = n
            BY <1>1, <2>3, <2>6, <4>1
      <4>3. SubSeq(x, n + 1, n) \in Seq(0 .. 15) /\ Len(SubSeq(x, n + 1, n)) = n - n
            BY <4>1, PartFacts
      <4>4. Len(SubSeq(x, n + 1, n)) = 0
            BY <4>3
      <4>5. SubSeq(x, n + 1, n) = <<>>
            BY <4>3, <4>4, EmptySeq
      <4>6. QED BY <4>1, <4>2, <4>5
    <3>2. SubSeq(x, 1, u) \o hex \o <<>> = x
          BY <2>3, <2>4, <3>1, PartsMakeUp, ZenonT(60)
    <3>3. QED BY <1>9, <2>1, <2>2, <2>5, <2>6, <3>2
  <2>7. CASE end # size
    <3>1. PICK m \in Nat : m = end /\ m < size
          BY <1>3, <1>12, <2>7
    <3>2. PICK f \in BOOLEAN, g \in Nat \union {Undefined} : f = FALSE /\ g = Undefined
          OBVIOUS
    <3>3. /\ SliceRefused(size, m, g, f) => SliceHex(x, m, g, f) = Thrown
          /\ ~SliceRefused(size, m, g, f) => SliceHex(x, m, g, f) = SubSeq(x, 2 * SliceLow(size, m) + 1, 2 * SliceHigh(size, m, g))
          BY <1>1, <1>3, SliceOfHex
    <3>4. SliceLow(size, m) = m /\ SliceHigh(size, m, Undefined) = size
          BY <1>3, <3>1 DEF SliceLow, SliceHigh, Least, Greatest
    <3>5. ~SliceRefused(size, m, g, f)
          BY <1>3, <3>1, <3>2 DEF SliceRefused
    <3>6. From(end, Undefined) = SubSeq(x, v + 1, Len(x))
      <4>1. SliceHex(x, m, Undefined, FALSE) = SubSeq(x, 2 * m + 1, 2 * size)
            BY <3>2, <3>3, <3>4, <3>5
      <4>2. QED BY <1>1, <1>2, <2>3, <3>1, <4>1
    <3>7. SubSeq(x, 1, u) \o hex \o SubSeq(x, v + 1, Len(x)) = x
          BY <2>3, <2>4, PartsMakeUp
    <3>8. QED BY <1>9, <2>1, <2>2, <2>5, <2>7, <3>6, <3>7
  <2>8. QED BY <2>6, <2>7
<1>13. ASSUME ~(a > 0 /\ a >= size), ~((a = 0 \/ a < size) /\ a <= end /\ end <= size),
              strict, e # Undefined
       PROVE  hex = Thrown
  <2>1. lo = a /\ end = e
        BY <1>3, <1>7, <1>13
  <2>2. hi - lo # e - a
        BY <1>3, <1>4, <1>7, <1>13, <2>1
  <2>3. QED BY <1>0, <1>4, <1>6, <1>13, <2>2
<1>14. QED BY <1>2, <1>6, <1>10, <1>11, <1>12, <1>13

\* Hex digits come back from their bytes, and the padding is at the right.
LEMMA HexRoundTrip ==
    ASSUME NEW h \in Seq(0 .. 15), NEW s \in Nat \union {Undefined}
    PROVE  LET bytes == HexToBytes(h, s)
           IN  IF Given(s) /\ Size(h) > s THEN bytes = Thrown
               ELSE IF Given(s)
               THEN Len(h) % 2 = 0 =>
                      /\ Len(bytes) = s
                      /\ SliceHex(BytesToHex(bytes, Undefined), 0, Size(h), FALSE) = h
               ELSE Len(bytes) = Size(h) /\ Worth(bytes, 256) = Worth(h, 16)
<1> DEFINE bytes == HexToBytes(h, s)
<1>1. CASE ~Given(s)
  <2>1. s = Undefined \/ s = 0
        BY <1>1, NotSpecial
  <2>2. bytes = HexToBytes(h, Undefined)
        BY <2>1, HexToBytesFacts
  <2>3. Len(bytes) = Size(h) /\ Worth(bytes, 256) = Worth(h, 16)
        BY <2>2, HexToBytesFacts
  <2>4. QED BY <1>1, <2>3
<1>2. CASE Given(s) /\ Size(h) > s
  <2>1. s \in Nat
        BY <1>2, NotSpecial
  <2>2. Sized(h, s, "right") = Thrown
        BY <1>2, <2>1, SizedFacts
  <2>3. bytes = Thrown
        BY <1>2, <2>2 DEF HexToBytes, After
  <2>4. QED BY <1>2, <2>3
<1>3. CASE Given(s) /\ ~(Size(h) > s)
  <2> SUFFICES ASSUME Len(h) % 2 = 0
               PROVE  /\ Len(bytes) = s
                      /\ SliceHex(BytesToHex(bytes, Undefined), 0, Size(h), FALSE) = h
      BY <1>3
  <2>1. s \in Nat /\ Size(h) \in Nat /\ Size(h) <= s /\ Len(h) = 2 * Size(h)
    <3>1. s \in Nat /\ Size(h) \in Nat
          BY <1>3, NotSpecial, EvenDigitsFacts
    <3>2. Len(EvenDigits(h)) = 2 * Size(h) /\ EvenDigits(h) = h
          BY EvenDigitsFacts
    <3>3. QED BY <1>3, <3>1, <3>2
  <2>2. PICK d : d = Sized(h, s, "right")
        OBVIOUS
  <2>3. d \in Seq(0 .. 15) /\ Len(d) = 2 * s /\ d = h \o Zeros(2 * s - Len(h)) /\ Len(h) <= 2 * s
    <3>1. "right" \in {"left", "right"}
          OBVIOUS
    <3>2. QED BY <2>1, <2>2, <3>1, SizedFacts
  <2>4. d # Thrown
        BY <2>3, Narrower, NotSpecial
  <2>5. EvenDigits(d) = d
        BY <2>1, <2>3, EvenDigitsFacts
  <2>6. bytes = Paired(d)
        BY <1>3, <2>2, <2>4, <2>5 DEF HexToBytes, After
  <2>7. Len(bytes) = s /\ Nibbles(bytes) = d
        BY <2>1, <2>3, <2>6, PairedFacts
  <2>8. BytesToHex(bytes, Undefined) = d
        BY <2>7 DEF BytesToHex, Sized
  <2>9. SliceHex(d, 0, Size(h), FALSE) = SubSeq(d, 1, Len(h))
    <3>1. PICK z \in Nat, f \in BOOLEAN, g \in Nat \union {Undefined} : z = 0 /\ f = FALSE /\ g = Size(h)
          BY <2>1
    <3>2. ~SliceRefused(s, z, g, f)
          BY <3>1 DEF SliceRefused
    <3>3. g # Undefined
          BY <2>1, <3>1, NotSpecial
    <3>4. SliceLow(s, z) = 0 /\ SliceHigh(s, z, g) = Size(h)
          BY <2>1, <3>1, <3>3 DEF SliceLow, SliceHigh, Least, Greatest
    <3>5. SliceHex(d, z, g, f) = SubSeq(d, 2 * SliceLow(s, z) + 1, 2 * SliceHigh(s, z, g))
          BY <2>1, <2>3, <3>2, SliceOfHex, ZenonT(60)
    <3>6. SliceHex(d, z, g, f) = SubSeq(d, 1, Len(h))
          BY <2>1, <3>4, <3>5
    <3>7. QED BY <3>1, <3>6
  <2>10. SubSeq(d, 1, Len(h)) = h
    <3>1. PICK n \in Nat : n = 2 * s - Len(h)
          BY <2>1, <2>3
    <3>2. PICK T : T = 0 .. 15
          OBVIOUS
    <3>3. h \in Seq(T) /\ Zeros(n) \in Seq(T)
      <4>1. Zeros(n) \in Seq({0}) /\ {0} \subseteq T
            BY <3>2, ZerosFacts
      <4>2. QED BY <3>2, <4>1, SeqMonotonic
    <3>4. d \in Seq(T) /\ d = h \o Zeros(n)
          BY <2>3, <3>1, <3>2
    <3>5. \A i \in 1 .. Len(h) : d[i] = h[i]
          BY <3>3, <3>4, ConcatFacts
    <3>6. PICK z \in Nat, k \in Nat : z = 0 /\ k = Len(h)
          OBVIOUS
    <3>7. /\ SubSeq(d, z + 1, k) \in Seq(T)
          /\ Len(SubSeq(d, z + 1, k)) = k - z
          /\ \A i \in 1 .. k - z : SubSeq(d, z + 1, k)[i] = d[z + i]
          BY <2>3, <3>4, <3>6, PartFacts
    <3>8. /\ SubSeq(d, 1, Len(h)) \in Seq(T)
          /\ Len(SubSeq(d, 1, Len(h))) = Len(h)
          /\ \A i \in 1 .. Len(h) : SubSeq(d, 1, Len(h))[i] = d[i]
          BY <3>6, <3>7
    <3>9. QED BY <3>3, <3>5, <3>8, SameSequence
  <2>11. QED BY <2>7, <2>8, <2>9, <2>10
<1>4. QED BY <1>1, <1>2, <1>3

\* Padding on the left puts the missing zeros in front (pad.ts).
LEMMA PadLeft ==
    ASSUME NEW o \in Seq(0 .. 255), NEW n \in Nat, Len(o) <= n
    PROVE  /\ Pad(o, n, "left") = Zeros(n - Len(o)) \o o
           /\ Pad(o, n, "left") \in Seq(0 .. 255) /\ Len(Pad(o, n, "left")) = n
<1>1. PICK T : T = 0 .. 255
      OBVIOUS
<1>2. 0 \in T /\ o \in Seq(T)
      BY <1>1
<1>3. \A e \in {"left", "right"} :
        Len(o) <= n =>
          /\ Pad(o, n, e) = IF e = "right" THEN o \o Zeros(n - Len(o))
                            ELSE Zeros(n - Len(o)) \o o
          /\ Pad(o, n, e) \in Seq(T)
          /\ Len(Pad(o, n, e)) = n
      BY <1>2, PadFacts, SMTT(60)
<1>4. "left" \in {"left", "right"} /\ "left" # "right"
      OBVIOUS
<1>5. QED BY <1>1, <1>3, <1>4

\* A one and zeros in front of it: what a bool is in hex and in bytes.
LEMMA BoolRoundTrip ==
    ASSUME NEW v \in BOOLEAN, NEW s \in Nat \union {Undefined}
    PROVE  LET hex == BoolToHex(v, s)
           IN  IF s = 0 THEN hex = Thrown
               ELSE /\ HexToBool(hex, s) = v
                    /\ HexToBytes(hex, Undefined) = BoolToBytes(v, s)
<1> DEFINE hex == BoolToHex(v, s)
<1>1. PICK y \in {0, 1} : y = IF v THEN 1 ELSE 0
      OBVIOUS
<1>2. PICK o \in Seq(0 .. 15) : o = <<y>> /\ o \in Seq(0 .. 255) /\ Len(o) = 1 /\ o[1] = y
  <2>1. y \in 0 .. 15 /\ y \in 0 .. 255
        OBVIOUS
  <2>2. <<y>> \in Seq(0 .. 15) /\ <<y>> \in Seq(0 .. 255) /\ Len(<<y>>) = 1 /\ <<y>>[1] = y
        BY <2>1
  <2>3. QED BY <2>2
<1>3. o = (IF v THEN <<1>> ELSE <<0>>)
      BY <1>1, <1>2
<1>4. hex = Sized(o, s, "left")
      BY <1>3 DEF BoolToHex
<1>5. Size(o) = 1
      BY <1>2 DEF Size
<1>6. "left" \in {"left", "right"} /\ "left" # "right"
      OBVIOUS
<1>7. CASE s = 0
  <2>1. Sized(o, s, "left") = Thrown
    <3>1. PICK z \in Nat : z = s /\ Size(o) > z
          BY <1>5, <1>7
    <3>2. Sized(o, z, "left") = Thrown
          BY <1>6, <3>1, SizedFacts
    <3>3. QED BY <3>1, <3>2
  <2>2. QED BY <1>4, <1>7, <2>1
<1>8. ASSUME NEW d \in Seq(0 .. 15), NEW k \in Nat, d = Zeros(k) \o o, Len(d) = k + 1,
             Given(s) => Size(d) <= s
      PROVE  HexToBool(d, s) = v
  <2>1. IsZeroRun(d, k)
    <3>0. PICK T : T = 0 .. 15
          OBVIOUS
    <3>1. Zeros(k) \in Seq(T) /\ Len(Zeros(k)) = k /\ \A i \in 1 .. k : Zeros(k)[i] = 0
      <4>1. Zeros(k) \in Seq({0}) /\ {0} \subseteq T
            BY <3>0, ZerosFacts
      <4>2. Zeros(k) \in Seq(T)
            BY <4>1, SeqMonotonic
      <4>3. QED BY <4>2, ZerosFacts
    <3>2. \A i \in 1 .. Len(Zeros(k)) : d[i] = Zeros(k)[i]
          BY <1>2, <1>8, <3>0, <3>1, ConcatFacts
    <3>3. \A i \in 1 .. k : d[i] = 0
          BY <3>1, <3>2
    <3>4. QED BY <1>8, <3>3 DEF IsZeroRun, Greatest
  <2>2. ZeroRun(d) = k
        BY <2>1, ZeroRunFacts
  <2>3. d[k + 1] = y
    <3>1. d = Append(Zeros(k), y)
      <4>0. Zeros(k) \in Seq(Nat)
            BY ZerosFacts
      <4>1. y \in Nat
            OBVIOUS
      <4>2. Zeros(k) \o <<y>> = Append(Zeros(k), y)
            BY <4>0, <4>1
      <4>3. QED BY <1>2, <1>8, <4>2
    <3>2. Zeros(k) \in Seq(Nat) /\ Len(Zeros(k)) = k
          BY ZerosFacts
    <3>3. QED BY <3>1, <3>2
  <2>4. TrimBytes(d, "left") = o
    <3>1. PICK n \in Nat : n = k + 1
          OBVIOUS
    <3>6. PICK T : T = 0 .. 15
          OBVIOUS
    <3>2. /\ SubSeq(d, k + 1, n) \in Seq(T) /\ Len(SubSeq(d, k + 1, n)) = n - k
          /\ \A i \in 1 .. n - k : SubSeq(d, k + 1, n)[i] = d[k + i]
      <4>1. d \in Seq(T) /\ k <= n /\ n <= Len(d)
            BY <1>8, <3>1, <3>6
      <4>2. QED BY <4>1, PartFacts
    <3>3. Len(SubSeq(d, k + 1, n)) = 1 /\ SubSeq(d, k + 1, n)[1] = y
          BY <2>3, <3>1, <3>2
    <3>4. SubSeq(d, k + 1, n) = o
      <4>1. o \in Seq(T)
            BY <3>6
      <4>2. PICK u : u = SubSeq(d, k + 1, n)
            OBVIOUS
      <4>6. Len(o) = 1 /\ o[1] = y
            BY <1>2
      <4>7. u \in Seq(T) /\ Len(u) = 1 /\ u[1] = y
            BY <3>2, <3>3, <4>2
      <4>3. u \in Seq(T) /\ Len(u) = Len(o) /\ \A i \in 1 .. Len(u) : u[i] = o[i]
            BY <4>6, <4>7
      <4>4. u = o
            BY <4>1, <4>3, SameSequence
      <4>5. QED BY <4>2, <4>4
    <3>5. QED BY <1>8, <2>2, <3>1, <3>4 DEF TrimBytes
  <2>5. TrimHex(d, "left") = <<0, y>>
    <3>1. EvenDigits(o) = <<0>> \o o
          BY <1>2 DEF EvenDigits
    <3>2. <<0>> \o <<y>> = <<0, y>>
      <4>1. <<0>> \in Seq(Nat) /\ y \in Nat
            OBVIOUS
      <4>2. PICK z \in Seq(Nat) : z = <<0>>
            BY <4>1
      <4>3. z \o <<y>> = Append(z, y)
            BY <4>1
      <4>4. Append(z, y) = <<0, y>>
        <5>1. Append(z, y) \in Seq(Nat) /\ Len(Append(z, y)) = 2
              /\ Append(z, y)[1] = 0 /\ Append(z, y)[2] = y
              BY <4>1, <4>2
        <5>2. <<0, y>> \in Seq(Nat) /\ Len(<<0, y>>) = 2 /\ <<0, y>>[1] = 0 /\ <<0, y>>[2] = y
              BY <4>1
        <5>3. \A i \in 1 .. 2 : i = 1 \/ i = 2
              OBVIOUS
        <5>4. \A i \in 1 .. 2 : Append(z, y)[i] = <<0, y>>[i]
              BY <5>1, <5>2, <5>3
        <5>5. QED BY <5>1, <5>2, <5>4, SameSequence
      <4>5. QED BY <4>2, <4>3, <4>4
    <3>3. QED BY <1>2, <1>6, <2>4, <3>1, <3>2 DEF TrimHex
  <2>6. ~(Given(s) /\ Size(d) > s)
    <3>1. Size(d) \in Nat /\ (Given(s) => s \in Nat)
          BY EvenDigitsFacts, NotSpecial
    <3>2. QED BY <1>8, <3>1
  <2>7. CASE v
    <3>1. TrimHex(d, "left") = <<0, 1>> /\ <<0, 1>> # <<0, 0>>
          BY <1>1, <2>5, <2>7
    <3>2. HexToBool(d, s) = TRUE
          BY <2>6, <3>1 DEF HexToBool
    <3>3. QED BY <2>7, <3>2
  <2>8. CASE ~v
    <3>1. TrimHex(d, "left") = <<0, 0>>
          BY <1>1, <2>5, <2>8
    <3>2. HexToBool(d, s) = FALSE
          BY <2>6, <3>1 DEF HexToBool
    <3>3. v = FALSE
          BY <2>8
    <3>4. QED BY <3>2, <3>3
  <2>9. QED BY <2>7, <2>8
<1>9. CASE s = Undefined
  <2>1. hex = o
        BY <1>4, <1>9 DEF Sized
  <2>2. Zeros(0) \o o = o
    <3>1. Zeros(0) = <<>>
          BY ZerosFacts
    <3>2. <<>> \o o = o
          BY <1>2
    <3>3. QED BY <3>1, <3>2
  <2>3. HexToBool(o, s) = v
    <3>1. PICK k \in Nat : k = 0
          OBVIOUS
    <3>2. o = Zeros(k) \o o /\ Len(o) = k + 1 /\ ~Given(s)
          BY <1>2, <1>9, <2>2, <3>1, NotSpecial
    <3>3. QED BY <1>8, <3>2
  <2>4. HexToBytes(o, Undefined) = Paired(EvenDigits(o))
        BY <1>2, HexToBytesFacts
  <2>5. HexToBytes(o, Undefined) = o
    <3>1. PICK b : b = HexToBytes(o, Undefined)
          OBVIOUS
    <3>2. b \in Seq(0 .. 255) /\ Len(b) = 1 /\ Worth(b, 256) = Worth(o, 16)
          BY <1>2, <1>5, <3>1, HexToBytesFacts, ZenonT(60)
    <3>3. b[1] \in Nat
      <4>1. 1 \in 1 .. Len(b)
            BY <3>2
      <4>2. b \in Seq(Nat)
            BY <3>2, Narrower
      <4>3. QED BY <4>1, <4>2
    <3>4. b = <<b[1]>>
          BY <3>2
    <3>5. Worth(b, 256) = b[1]
      <4>1. PICK e \in Nat, base \in Nat : e = b[1] /\ base = 256
            BY <3>3
      <4>2. Worth(<<e>>, base) = e
            BY WorthOne
      <4>3. QED BY <3>4, <4>1, <4>2
    <3>6. Worth(o, 16) = y
          BY <1>2, WorthOne
    <3>7. QED BY <1>2, <3>1, <3>2, <3>4, <3>5, <3>6
  <2>6. BoolToBytes(v, s) = o
        BY <1>3, <1>9 DEF BoolToBytes
  <2>7. s # 0
        BY <1>9, NotSpecial
  <2>8. QED BY <2>1, <2>3, <2>5, <2>6, <2>7
<1>10. CASE s \in Nat /\ s # 0
  <2>1. PICK k \in Nat, j \in Nat : k = 2 * s - 1 /\ j = s - 1 /\ s = j + 1 /\ k = 2 * j + 1
    <3>1. 2 * s - 1 \in Nat /\ s - 1 \in Nat /\ s = (s - 1) + 1 /\ 2 * s - 1 = 2 * (s - 1) + 1
          BY <1>10
    <3>2. QED BY <3>1
  <2>2. hex = Zeros(k) \o o /\ hex \in Seq(0 .. 15) /\ Len(hex) = 2 * s
    <3>1. Size(o) <= s
          BY <1>5, <1>10
    <3>2. hex = Zeros(2 * s - Len(o)) \o o /\ hex \in Seq(0 .. 15) /\ Len(hex) = 2 * s
          BY <1>2, <1>4, <1>6, <1>10, <3>1, SizedFacts
    <3>3. 2 * s - Len(o) = k
          BY <1>2, <2>1
    <3>4. QED BY <3>2, <3>3
  <2>3. Size(hex) = s /\ EvenDigits(hex) = hex
        BY <1>10, <2>2, EvenDigitsFacts
  <2>4. HexToBool(hex, s) = v
    <3>1. PICK d \in Seq(0 .. 15) : d = hex
          BY <2>2
    <3>4. 2 * s = k + 1
          BY <2>1
    <3>2. d = Zeros(k) \o o /\ Len(d) = k + 1 /\ Size(d) <= s
          BY <1>10, <2>2, <2>3, <3>1, <3>4
    <3>3. QED BY <1>8, <3>1, <3>2
  <2>5. PICK b : b = HexToBytes(hex, Undefined)
        OBVIOUS
  <2>6. b = Paired(hex)
        BY <2>2, <2>3, <2>5, HexToBytesFacts
  <2> HIDE DEF hex
  <2>7. b \in Seq(0 .. 255) /\ Len(b) = s
        /\ \A i \in 1 .. s : b[i] = 16 * hex[2 * i - 1] + hex[2 * i]
        BY <1>10, <2>2, <2>6, PairedFacts
  <2>8. PICK c \in Seq(0 .. 255) : c = Zeros(j) \o o /\ Len(c) = s /\ BoolToBytes(v, s) = c
    <3>7. PICK T : T = 0 .. 255
          OBVIOUS
    <3>0. T = 0 .. 255 /\ 0 \in T
          BY <3>7
    <3>1. o \in Seq(T) /\ Len(o) <= s /\ s - Len(o) = j
          BY <1>2, <1>10, <2>1, <3>0
    <3>6. /\ Pad(o, s, "left") = Zeros(s - Len(o)) \o o
          /\ Pad(o, s, "left") \in Seq(T) /\ Len(Pad(o, s, "left")) = s
      <4>1. PICK m \in Nat : m = s
            BY <1>10
      <4>2. o \in Seq(0 .. 255) /\ Len(o) <= m
            BY <1>2, <3>1, <4>1
      <4>3. /\ Pad(o, m, "left") = Zeros(m - Len(o)) \o o
            /\ Pad(o, m, "left") \in Seq(0 .. 255) /\ Len(Pad(o, m, "left")) = m
            BY <4>2, PadLeft
      <4>4. QED BY <3>0, <4>1, <4>3
    <3>2. Pad(o, s, "left") = Zeros(j) \o o /\ Pad(o, s, "left") \in Seq(T) /\ Len(Pad(o, s, "left")) = s
          BY <3>1, <3>6
    <3>3. s # Undefined
          BY <1>10, NotSpecial
    <3>4. BoolToBytes(v, s) = Pad(o, s, "left")
          BY <1>3, <3>3 DEF BoolToBytes, PadBytes
    <3>5. QED BY <3>0, <3>2, <3>4
  <2>9. /\ \A i \in 1 .. k : hex[i] = 0
        /\ hex[k + 1] = y
        /\ \A i \in 1 .. j : c[i] = 0
        /\ c[j + 1] = y
    <3>1. ASSUME NEW n \in Nat
          PROVE  (\A i \in 1 .. n : (Zeros(n) \o o)[i] = 0) /\ (Zeros(n) \o o)[n + 1] = y
      <4>1. Zeros(n) \in Seq(Nat) /\ Len(Zeros(n)) = n /\ (\A i \in 1 .. n : Zeros(n)[i] = 0)
            /\ o \in Seq(Nat)
            BY <1>2, ZerosFacts, Narrower
      <4>2. \A i \in 1 .. Len(Zeros(n)) : (Zeros(n) \o o)[i] = Zeros(n)[i]
            BY <4>1, ConcatFacts
      <4>3. \A i \in 1 .. Len(o) : (Zeros(n) \o o)[Len(Zeros(n)) + i] = o[i]
            BY <4>1, ConcatFacts
      <4>4. 1 \in 1 .. Len(o)
            BY <1>2
      <4>5. (Zeros(n) \o o)[n + 1] = o[1]
            BY <4>1, <4>3, <4>4
      <4>6. QED BY <1>2, <4>1, <4>2, <4>5
    <3>2. QED BY <2>2, <2>8, <3>1
  <2>10. ASSUME NEW i \in 1 .. s PROVE b[i] = c[i]
    <3>1. b[i] = 16 * hex[2 * i - 1] + hex[2 * i]
          BY <2>7
    <3>2. CASE i <= j
      <4>1. 2 * i - 1 \in 1 .. k /\ 2 * i \in 1 .. k /\ i \in 1 .. j
            BY <2>1, <3>2
      <4>2. hex[2 * i - 1] = 0 /\ hex[2 * i] = 0 /\ c[i] = 0
            BY <2>9, <4>1
      <4>3. QED BY <3>1, <4>2
    <3>3. CASE i = j + 1
      <4>1. 2 * i - 1 = k /\ k \in 1 .. k /\ 2 * i = k + 1
            BY <2>1, <3>3
      <4>2. hex[2 * i - 1] = 0 /\ hex[2 * i] = y /\ c[i] = y
            BY <2>9, <3>3, <4>1
      <4>3. QED BY <3>1, <4>2
    <3>4. i <= j \/ i = j + 1
          BY <2>1
    <3>5. QED BY <3>2, <3>3, <3>4
  <2>11. b = c
         BY <1>10, <2>7, <2>8, <2>10, SameSequence, SMTT(60)
  <2>12. QED BY <1>10, <2>4, <2>5, <2>8, <2>11 DEF hex
<1>11. QED BY <1>7, <1>9, <1>10

\* What PartsInvert says of one call of slice.
SliceIsInverted(b, a, e, strict, hex) ==
    LET size == Len(b)
        end == IF e = Undefined THEN size ELSE e
        From(c, d) == SliceHex(BytesToHex(b, Undefined), c, d, FALSE)
    IN  /\ CASE a > 0 /\ a >= size -> hex = Thrown
             [] (a = 0 \/ a < size) /\ a <= end /\ end <= size ->
                  /\ hex # Thrown /\ Size(hex) = end - a
                  /\ From(0, a) \o hex
                       \o (IF end = size THEN <<>> ELSE From(end, Undefined))
                     = BytesToHex(b, Undefined)
             [] OTHER -> strict /\ e # Undefined => hex = Thrown
        /\ SliceBytes(b, a, e, strict)
             = IF hex = Thrown THEN Thrown ELSE HexToBytes(hex, Undefined)

\* It holds of every call.
LEMMA SliceCall ==
    ASSUME NEW b \in Seq(0 .. 255), NEW a \in Nat, NEW e \in Nat \union {Undefined},
           NEW strict \in BOOLEAN
    PROVE  SliceIsInverted(b, a, e, strict, SliceHex(BytesToHex(b, Undefined), a, e, strict))
BY SliceInverts DEF SliceIsInverted

\* ConversionsInvert says nothing of the calls of other kinds.
LEMMA AnotherKind ==
    ASSUME NEW k,
           k \notin {"number", "bytes", "hex", "bool", "text", "trim", "trimBytes", "slice"},
           task'.kind = k
    PROVE  ConversionsInvert'
BY DEF ConversionsInvert, NumberInverts, BytesInvert, HexReads, TextInverts, PartsInvert, Calling

\* After every step the call in progress, if there is one, is inverted.
LEMMA InvertsCalls ==
    ASSUME Next
    PROVE  ConversionsInvert'
<1> USE DEF Call
<1>1. ASSUME Return PROVE ConversionsInvert'
      BY <1>1 DEF Return, ConversionsInvert, NumberInverts, BytesInvert, HexReads, TextInverts,
                  PartsInvert, Calling
<1>2. ASSUME ConvertNumber PROVE ConversionsInvert'
  <2>1. PICK n \in Numbers, big \in BOOLEAN, signed \in BOOLEAN, s \in Sizes :
          /\ signed => Given(s)
          /\ task' = [kind |-> "number", value |-> n, big |-> big, signed |-> signed, size |-> s]
          /\ result' = NumberToHex(n, big, signed, s)
        BY <1>2 DEF ConvertNumber
  <2>2. task'.kind = "number" /\ task'.value = n /\ task'.big = big /\ task'.signed = signed
        /\ task'.size = s
        BY <2>1
  <2>3. n \in Int /\ s \in Nat \union {Undefined}
        BY InputsAssumption
  <2>4. NumberIsInverted(n, big, signed, s, result')
        BY <2>1, <2>3, NumbersInvert
  <2>5. NumberInverts'
        BY <2>2, <2>4 DEF NumberInverts, NumberIsInverted
  <2>6. HexReads' /\ BytesInvert' /\ TextInverts' /\ PartsInvert'
        BY <2>2 DEF HexReads, BytesInvert, TextInverts, PartsInvert, Calling
  <2>7. QED BY <2>5, <2>6 DEF ConversionsInvert
<1>3. ASSUME ConvertBytes PROVE ConversionsInvert'
  <2>1. PICK b \in ByteArrays, s \in Sizes :
          task' = [kind |-> "bytes", value |-> b, size |-> s] /\ result' = BytesToHex(b, s)
        BY <1>3 DEF ConvertBytes
  <2>2. task'.kind = "bytes" /\ task'.value = b /\ task'.size = s
        BY <2>1
  <2>3. b \in Seq(0 .. 255) /\ s \in Nat \union {Undefined}
        BY InputsAssumption
  <2>4. IF ~Fits(Len(b), s) THEN result' = Thrown
        ELSE HexToBytes(result', Undefined) = StringToBytes(b, s)
        BY <2>1, <2>3, BytesRoundTrip
  <2>5. BytesInvert'
        BY <2>2, <2>4 DEF BytesInvert, Calling
  <2>6. HexReads' /\ NumberInverts' /\ TextInverts' /\ PartsInvert'
        BY <2>2 DEF HexReads, NumberInverts, TextInverts, PartsInvert, Calling
  <2>7. QED BY <2>5, <2>6 DEF ConversionsInvert
<1>4. ASSUME ConvertHex PROVE ConversionsInvert'
  <2>1. PICK h \in HexValues, s \in Sizes :
          task' = [kind |-> "hex", value |-> h, size |-> s] /\ result' = HexToBytes(h, s)
        BY <1>4 DEF ConvertHex
  <2>2. task'.kind = "hex" /\ task'.value = h /\ task'.size = s
        BY <2>1
  <2>3. h \in Seq(0 .. 15) /\ s \in Nat \union {Undefined}
        BY InputsAssumption
  <2>4. IF Given(s) /\ Size(h) > s THEN result' = Thrown
        ELSE IF Given(s)
        THEN Len(h) % 2 = 0 =>
               /\ Len(result') = s
               /\ SliceHex(BytesToHex(result', Undefined), 0, Size(h), FALSE) = h
        ELSE Len(result') = Size(h) /\ Worth(result', 256) = Worth(h, 16)
        BY <2>1, <2>3, HexRoundTrip, ZenonT(60)
  <2>5. BytesInvert'
        BY <2>2, <2>4 DEF BytesInvert, Calling
  <2>6. NumberInverts' /\ TextInverts' /\ PartsInvert'
        BY <2>2 DEF NumberInverts, TextInverts, PartsInvert, Calling
  <2>7. \A signed \in BOOLEAN : HexIsRead(h, signed, s)
        BY <2>3, HexReadAgain
  <2>8. HexReads'
        BY <2>2, <2>7, Zenon DEF HexReads, HexIsRead
  <2>9. QED BY <2>5, <2>6, <2>8 DEF ConversionsInvert
<1>5. ASSUME ConvertBool PROVE ConversionsInvert'
  <2>1. PICK v \in BOOLEAN, s \in Sizes :
          task' = [kind |-> "bool", value |-> v, size |-> s] /\ result' = BoolToHex(v, s)
        BY <1>5 DEF ConvertBool
  <2>2. task'.kind = "bool" /\ task'.value = v /\ task'.size = s
        BY <2>1
  <2>3. s \in Nat \union {Undefined}
        BY InputsAssumption
  <2>4. IF s = 0 THEN result' = Thrown
        ELSE /\ HexToBool(result', s) = v
             /\ HexToBytes(result', Undefined) = BoolToBytes(v, s)
        BY <2>1, <2>3, BoolRoundTrip
  <2>5. BytesInvert'
        BY <2>2, <2>4 DEF BytesInvert, Calling
  <2>6. HexReads' /\ NumberInverts' /\ TextInverts' /\ PartsInvert'
        BY <2>2 DEF HexReads, NumberInverts, TextInverts, PartsInvert, Calling
  <2>7. QED BY <2>5, <2>6 DEF ConversionsInvert
<1>6. ASSUME ConvertText PROVE ConversionsInvert'
  <2>1. PICK t \in Strings, s \in Sizes :
          task' = [kind |-> "text", value |-> t, size |-> s] /\ result' = StringToHex(t, s)
        BY <1>6 DEF ConvertText
  <2>2. task'.kind = "text" /\ task'.value = t /\ task'.size = s
        BY <2>1
  <2>3. t \in Seq(0 .. 255) /\ s \in Nat \union {Undefined}
        BY InputsAssumption
  <2>4. IF ~Fits(Len(t), s) THEN result' = Thrown
        ELSE LET read == HexToString(result', s)
             IN  \/ t = IF Marked(t) THEN Mark \o read ELSE read
                 \/ Given(s) /\ (t = <<>> \/ t[Len(t)] = 0)
        BY <2>1, <2>3, TextRoundTrip
  <2>5. TextInverts'
        BY <2>2, <2>4 DEF TextInverts
  <2>6. HexReads' /\ NumberInverts' /\ BytesInvert' /\ PartsInvert'
        BY <2>2 DEF HexReads, NumberInverts, BytesInvert, PartsInvert, Calling
  <2>7. QED BY <2>5, <2>6 DEF ConversionsInvert
<1>7. ASSUME TrimValue PROVE ConversionsInvert'
  <2>1. PICK dir \in {"left", "right"} :
          \/ \E h \in HexValues : /\ task' = [kind |-> "trim", value |-> h, dir |-> dir]
                                  /\ result' = TrimHex(h, dir)
          \/ \E b \in ByteArrays : /\ task' = [kind |-> "trimBytes", value |-> b, dir |-> dir]
                                   /\ result' = TrimBytes(b, dir)
        BY <1>7 DEF TrimValue
  <2>2. ASSUME NEW h \in HexValues, task' = [kind |-> "trim", value |-> h, dir |-> dir],
               result' = TrimHex(h, dir)
        PROVE  ConversionsInvert'
    <3>1. task'.kind = "trim" /\ task'.value = h /\ task'.dir = dir
          BY <2>2
    <3>2. h \in Seq(0 .. 15)
          BY InputsAssumption
    <3>3. dir = "left" => /\ Worth(result', 16) = Worth(h, 16) /\ Len(result') % 2 = 0
                          /\ Len(result') > 2 => result'[1] # 0 \/ result'[2] # 0
          BY <2>2, <3>2, TrimHexInverts
    <3>4. PartsInvert'
          BY <3>1, <3>3 DEF PartsInvert, Calling
    <3>5. HexReads' /\ NumberInverts' /\ BytesInvert' /\ TextInverts'
          BY <3>1 DEF HexReads, NumberInverts, BytesInvert, TextInverts, Calling
    <3>6. QED BY <3>4, <3>5 DEF ConversionsInvert
  <2>3. ASSUME NEW b \in ByteArrays, task' = [kind |-> "trimBytes", value |-> b, dir |-> dir],
               result' = TrimBytes(b, dir)
        PROVE  ConversionsInvert'
    <3>1. task'.kind = "trimBytes" /\ task'.value = b /\ task'.dir = dir
          BY <2>3
    <3>2. b \in Seq(0 .. 255)
          BY InputsAssumption
    <3>3. /\ PadBytes(result', Len(b), dir) = b
          /\ Len(result') > 1 => result'[IF dir = "left" THEN 1 ELSE Len(result')] # 0
          BY <2>3, <3>2, TrimBytesInverts
    <3>7. dir = IF dir = "left" THEN "left" ELSE "right"
          OBVIOUS
    <3>4. PartsInvert'
          BY <3>1, <3>3, <3>7 DEF PartsInvert, Calling
    <3>5. HexReads' /\ NumberInverts' /\ BytesInvert' /\ TextInverts'
          BY <3>1 DEF HexReads, NumberInverts, BytesInvert, TextInverts, Calling
    <3>6. QED BY <3>4, <3>5 DEF ConversionsInvert
  <2>4. QED BY <2>1, <2>2, <2>3
<1>8. ASSUME SliceValue PROVE ConversionsInvert'
  <2>1. PICK b \in ByteArrays, a \in Offsets, e \in Offsets \union {Undefined}, strict \in BOOLEAN :
          /\ task' = [kind |-> "slice", value |-> b, start |-> a, end |-> e, strict |-> strict]
          /\ result' = SliceHex(BytesToHex(b, Undefined), a, e, strict)
        BY <1>8 DEF SliceValue
  <2>2. task'.kind = "slice" /\ task'.value = b /\ task'.start = a /\ task'.end = e
        /\ task'.strict = strict
        BY <2>1
  <2>3. b \in Seq(0 .. 255) /\ a \in Nat /\ e \in Nat \union {Undefined}
        BY InputsAssumption
  <2>4. SliceIsInverted(b, a, e, strict, result')
        BY <2>1, <2>3, SliceCall
  <2>5. PartsInvert'
        BY <2>2, <2>4 DEF PartsInvert, Calling, SliceIsInverted
  <2>6. HexReads' /\ NumberInverts' /\ BytesInvert' /\ TextInverts'
        BY <2>2 DEF HexReads, NumberInverts, BytesInvert, TextInverts, Calling
  <2>7. QED BY <2>5, <2>6 DEF ConversionsInvert
<1>9. ASSUME ParseDecimal \/ FormatDecimal \/ SerializeParameters \/ SerializeOverrides
             \/ ParseAnswer \/ CallProvider \/ CheckFleet \/ DelegateExecution \/ CaptureEvidence
             \/ SearchProofs
      PROVE  ConversionsInvert'
  <2>1. ASSUME ParseDecimal PROVE ConversionsInvert'
    <3>1. task'.kind = "parse"
          BY <2>1 DEF ParseDecimal
    <3>2. QED BY <3>1, AnotherKind
  <2>2. ASSUME FormatDecimal PROVE ConversionsInvert'
    <3>1. task'.kind = "format"
          BY <2>2 DEF FormatDecimal
    <3>2. QED BY <3>1, AnotherKind
  <2>3. ASSUME SerializeParameters PROVE ConversionsInvert'
    <3>1. task'.kind = "parameters"
          BY <2>3 DEF SerializeParameters
    <3>2. QED BY <3>1, AnotherKind
  <2>4. ASSUME SerializeOverrides PROVE ConversionsInvert'
    <3>1. task'.kind = "overrides"
          BY <2>4 DEF SerializeOverrides
    <3>2. QED BY <3>1, AnotherKind
  <2>5. ASSUME ParseAnswer PROVE ConversionsInvert'
    <3>1. task'.kind = "answer"
          BY <2>5 DEF ParseAnswer
    <3>2. QED BY <3>1, AnotherKind
  <2>6. ASSUME CallProvider PROVE ConversionsInvert'
    <3>1. task'.kind = "provider"
          BY <2>6 DEF CallProvider
    <3>2. QED BY <3>1, AnotherKind
  <2>7. ASSUME CheckFleet PROVE ConversionsInvert'
    <3>1. task'.kind = "fleet"
          BY <2>7 DEF CheckFleet
    <3>2. QED BY <3>1, AnotherKind
  <2>8. ASSUME DelegateExecution PROVE ConversionsInvert'
    <3>1. task'.kind = "delegated"
          BY <2>8 DEF DelegateExecution
    <3>2. QED BY <3>1, AnotherKind
  <2>9. ASSUME CaptureEvidence PROVE ConversionsInvert'
    <3>1. task'.kind = "evidence"
          BY <2>9 DEF CaptureEvidence
    <3>2. QED BY <3>1, AnotherKind
  <2>10. ASSUME SearchProofs PROVE ConversionsInvert'
    <3>1. task'.kind = "search"
          BY <2>10 DEF SearchProofs
    <3>2. QED BY <3>1, AnotherKind
  <2>11. QED BY <1>9, <2>1, <2>2, <2>3, <2>4, <2>5, <2>6, <2>7, <2>8, <2>9, <2>10
<1>10. QED
  BY <1>1, <1>2, <1>3, <1>4, <1>5, <1>6, <1>7, <1>8, <1>9 DEF Next

\* A conversion to hex or bytes is undone by the conversion back for every number, every
\* text and every size, but for a byte order mark in front of a text and its last zeros, and
\* is refused exactly when the value does not fit; hex of whole bytes is written again for
\* the number it is read as; trimming drops zeros only and the parts of a slice make up the
\* value (utils/encoding and utils/data).
THEOREM ConversionsAreInverted == Spec => []ConversionsInvert
<1>1. Init => ConversionsInvert
      BY DEF Init, ConversionsInvert, NumberInverts, BytesInvert, HexReads, TextInverts, PartsInvert,
             Calling
<1>2. ConversionsInvert /\ [Next]_vars => ConversionsInvert'
  <2>1. ASSUME ConversionsInvert, UNCHANGED vars
        PROVE  ConversionsInvert'
    <3>1. task' = task /\ result' = result
          BY <2>1 DEF vars
    <3>2. NumberInverts => NumberInverts'
          BY <3>1 DEF NumberInverts, Calling
    <3>3. BytesInvert => BytesInvert'
          BY <3>1 DEF BytesInvert, Calling
    <3>4. TextInverts => TextInverts'
          BY <3>1 DEF TextInverts, Calling
    <3>5. PartsInvert => PartsInvert'
          BY <3>1 DEF PartsInvert, Calling
    <3>6. HexReads => HexReads'
          BY <3>1 DEF HexReads, Calling
    <3>7. QED BY <2>1, <3>2, <3>3, <3>4, <3>5, <3>6 DEF ConversionsInvert
  <2>2. QED BY <2>1, InvertsCalls
<1>3. QED BY <1>1, <1>2, PTL DEF Spec

\* The powers of ten, and what decimal digits are worth.
LEMMA Tens ==
    /\ Power(10, 0) = 1
    /\ \A n \in Nat : Power(10, n) \in Nat /\ Power(10, n) > 0 /\ Power(10, n + 1) = 10 * Power(10, n)
    /\ \A d \in Seq(Nat) : Worth(d, 10) \in Nat
    /\ Worth(<<>>, 10) = 0
    /\ \A d \in Seq(0 .. 9) : Worth(d, 10) < Power(10, Len(d))
<1>1. PICK b \in Nat : b = 10
      OBVIOUS
<1>2. b > 0 /\ b - 1 = 9
      BY <1>1
<1>3. /\ Power(b, 0) = 1
      /\ \A n \in Nat : /\ Power(b, n) \in Nat
                        /\ Power(b, n + 1) = b * Power(b, n)
                        /\ b > 0 => Power(b, n) > 0
      BY PowerFacts
<1>4. Worth(<<>>, b) = 0 /\ \A d \in Seq(Nat) : Worth(d, b) \in Nat
      BY WorthFacts
<1>5. \A d \in Seq(0 .. b - 1) : Worth(d, b) < Power(b, Len(d))
      BY <1>2, WorthBound
<1>6. QED BY <1>1, <1>2, <1>3, <1>4, <1>5

\* A digit in front is worth its power.
LEMMA WorthOfFirst ==
    ASSUME NEW t \in Seq(0 .. 9), t # <<>>
    PROVE  \E q \in Nat, w \in Nat :
             /\ q > 0 /\ w < q /\ q = Power(10, Len(t) - 1)
             /\ Power(10, Len(t)) = 10 * q
             /\ Worth(t, 10) = t[1] * q + w
             /\ Worth(Tail(t), 10) = w
<1> DEFINE u == Tail(t)
<1>1. u \in Seq(0 .. 9) /\ Len(u) \in Nat /\ Len(u) = Len(t) - 1 /\ Len(t) \in Nat /\ Len(t) > 0 /\ t[1] \in 0 .. 9
      OBVIOUS
<1>2. PICK a : a = <<t[1]>>
      OBVIOUS
<1>3. a \in Seq(Nat) /\ a \o u = t
      BY <1>2
<1>4. u \in Seq(Nat) /\ 10 \in Nat /\ 10 > 0 /\ t[1] \in Nat
      BY <1>1, Narrower
<1>5. Worth(a, 10) = t[1]
      BY <1>2, <1>4, WorthOne
<1>6. Worth(t, 10) = t[1] * Power(10, Len(u)) + Worth(u, 10)
      BY <1>3, <1>4, <1>5, WorthConcat
<1>7. /\ Power(10, Len(u)) \in Nat /\ Power(10, Len(u)) > 0
      /\ Power(10, Len(u) + 1) = 10 * Power(10, Len(u))
  <2>1. PICK k \in Nat : k = Len(u)
        BY <1>1
  <2>2. QED BY <2>1, Tens
<1>8. Worth(u, 10) \in Nat
      BY <1>4, Tens
<1>9. Worth(u, 10) < Power(10, Len(u))
      BY <1>1, Tens
<1>10. Len(u) + 1 = Len(t)
      BY <1>1
<1>11. QED BY <1>1, <1>6, <1>7, <1>8, <1>9, <1>10

\* The digits t behind the one that is rounded carry c into it, 0 or 1: exactly half up, or
\* up from a little less than the half.
RoundsBy(t, c) ==
    LET p == Power(10, Len(t))
        w == Worth(t, 10)
        q == Power(2, Bits - 3)
    IN  /\ c \in {0, 1}
        /\ 2 * w >= p => c = 1
        /\ 2 * w < p /\ c = 1 => q <= p /\ (p - 2 * w) * q <= 2 * p

\* The numbers in it.
LEMMA RoundingFacts ==
    ASSUME NEW t \in Seq(0 .. 9)
    PROVE  /\ Power(10, Len(t)) \in Nat /\ Power(10, Len(t)) > 0
           /\ Worth(t, 10) \in Nat /\ Worth(t, 10) < Power(10, Len(t))
           /\ Power(2, Bits - 3) \in Nat /\ Power(2, Bits - 3) > 1
<1>1. PICK k \in Nat : k = Len(t)
      OBVIOUS
<1>2. Power(10, k) \in Nat /\ Power(10, k) > 0
      BY Tens
<1>3. t \in Seq(Nat)
      BY Narrower
<1>4. Worth(t, 10) \in Nat /\ Worth(t, 10) < Power(10, Len(t))
      BY <1>3, Tens
<1>5. PICK j \in Nat : j + 1 = Bits - 3
  <2>1. Bits - 4 \in Nat /\ (Bits - 4) + 1 = Bits - 3
        BY DoubleAssumption
  <2>2. QED BY <2>1
<1>6. PICK b \in Nat : b = 2 /\ b > 0
      OBVIOUS
<1>7. Power(b, j) \in Nat /\ Power(b, j) > 0 /\ Power(b, j + 1) = b * Power(b, j)
      BY <1>6, PowerFacts
<1>8. Power(2, j + 1) \in Nat /\ Power(2, j + 1) > 1
      BY <1>6, <1>7
<1>9. QED BY <1>1, <1>2, <1>4, <1>5, <1>8

\* Products of differences that are to be compared.
LEMMA Precisely ==
    ASSUME NEW z \in Nat, NEW w \in Nat, NEW q \in Nat, NEW f \in Nat, f > 0
    PROVE  LET p == 10 * z
           IN  /\ 2 * w >= p => (p - 2 * w) * (q * f) <= 2 * p
               /\ 2 * w < p /\ (p - 2 * w) * (q * f) <= 2 * p =>
                    q <= p /\ (p - 2 * w) * q <= 2 * p
<1>1. PICK p \in Nat : p = 10 * z
      OBVIOUS
<1>2. PICK g \in Nat : g = q * f
      BY MulFacts
<1>3. g >= q
  <2>1. 1 * q <= f * q
        BY MulFacts
  <2>2. f * q = q * f
        BY MulFacts
  <2>3. QED BY <1>2, <2>1, <2>2
<1>4. ASSUME 2 * w >= p PROVE (p - 2 * w) * g <= 2 * p
  <2>1. PICK y \in Nat : y = 2 * w - p
    <3>1. 2 * w - p \in Nat
          BY <1>4
    <3>2. QED BY <3>1
  <2>2. y * g \in Nat
        BY MulFacts
  <2>3. (p - 2 * w) * g = - (y * g)
        BY <2>1
  <2>4. QED BY <2>2, <2>3
<1>5. ASSUME 2 * w < p, (p - 2 * w) * g <= 2 * p PROVE q <= p /\ (p - 2 * w) * q <= 2 * p
  <2>1. PICK x \in Nat : x = p - 2 * w /\ x >= 2
        BY <1>1, <1>5
  <2>2. q * x <= g * x /\ 2 * q <= x * q
        BY <1>3, <2>1, MulFacts
  <2>3. x * q = q * x /\ x * g = g * x /\ x * q \in Nat /\ x * g \in Nat
        BY MulFacts
  <2>4. x * g <= 2 * p
        BY <1>5, <2>1
  <2>5. x * q <= 2 * p /\ 2 * q <= 2 * p
        BY <2>2, <2>3, <2>4
  <2>6. QED BY <2>1, <2>5
<1>6. QED BY <1>1, <1>2, <1>4, <1>5

\* What Round makes of digits carries so.
LEMMA DigitsRounded ==
    ASSUME NEW u \in 0 .. 9, NEW s \in Seq(0 .. 9), s # <<>>
    PROVE  \E c \in {0, 1} : Round(u, s) = u + c /\ RoundsBy(s, c)
<1>1. PICK w \in Nat, q \in Nat : w = Worth(s, 10) /\ q = Power(2, Bits - 3)
      BY RoundingFacts
<1>2. PICK z \in Nat : Power(10, Len(s)) = 10 * z
      BY WorthOfFirst
<1> DEFINE e == CASE u = 0 -> 2 [] u = 1 -> 0 [] u \in 2 .. 3 -> -1 [] u \in 4 .. 7 -> -2
                  [] OTHER -> -3
<1>3. PICK d \in Nat : Bits + e = (Bits - 3) + d
  <2>1. e + 3 \in Nat /\ Bits + e = (Bits - 3) + (e + 3)
    <3>1. e \in {2, 0, -1, -2, -3}
          OBVIOUS
    <3> HIDE DEF e
    <3>2. QED BY <3>1, DoubleAssumption
  <2> HIDE DEF e
  <2>2. QED BY <2>1
<1>4. PICK f \in Nat : f = Power(2, d) /\ f > 0
  <2>1. PICK b \in Nat : b = 2 /\ b > 0
        OBVIOUS
  <2>2. Power(b, d) \in Nat /\ Power(b, d) > 0
        BY <2>1, PowerFacts
  <2>3. QED BY <2>1, <2>2
<1>5. Power(2, Bits + e) = q * f
  <2>1. Bits - 3 \in Nat
        BY DoubleAssumption
  <2>2. PICK i \in Nat : i = Bits - 3
        BY <2>1
  <2>3. Power(2, i + d) = Power(2, i) * Power(2, d)
        BY PowerSum
  <2>4. QED BY <1>1, <1>3, <1>4, <2>2, <2>3
<1> DEFINE up == (10 * z - 2 * w) * (q * f) <= 2 * (10 * z)
<1>6. Round(u, s) = u + (IF up THEN 1 ELSE 0)
      BY <1>1, <1>2, <1>5, Zenon DEF Round
<1>7. /\ 2 * w >= 10 * z => up
      /\ 2 * w < 10 * z /\ up => q <= 10 * z /\ (10 * z - 2 * w) * q <= 2 * (10 * z)
      BY <1>4, Precisely
<1>8. CASE up
  <2>1. Round(u, s) = u + 1 /\ RoundsBy(s, 1)
        BY <1>1, <1>2, <1>6, <1>7, <1>8, Zenon DEF RoundsBy
  <2>2. QED BY <2>1
<1>9. CASE ~up
  <2>1. Round(u, s) = u + 0
        BY <1>6, <1>9
  <2>2. ~(2 * w >= 10 * z) /\ 0 # 1
        BY <1>7, <1>9
  <2>3. RoundsBy(s, 0)
        BY <1>1, <1>2, <2>2, Zenon DEF RoundsBy
  <2>4. QED BY <2>1, <2>3
<1>10. QED BY <1>8, <1>9

\* Zeros behind them change nothing.
LEMMA RoundsWithZeros ==
    ASSUME NEW s \in Seq(0 .. 9), NEW c, RoundsBy(s, c), NEW j \in Nat,
           NEW t \in Seq(0 .. 9), t = s \o Zeros(j)
    PROVE  RoundsBy(t, c)
<1>1. PICK p \in Nat, w \in Nat, q \in Nat :
        /\ p = Power(10, Len(s)) /\ w = Worth(s, 10) /\ q = Power(2, Bits - 3) /\ p > 0
      BY RoundingFacts
<1>2. PICK z \in Nat : z = Power(10, j) /\ z > 0
      BY Tens
<1>3. Worth(t, 10) = w * z
  <2>1. PICK b \in Nat : b = 10
        OBVIOUS
  <2>2. s \in Seq(Nat)
        BY Narrower
  <2>3. Worth(s \o Zeros(j), b) = Worth(s, b) * Power(b, j)
        BY <2>2, WorthOfZeros
  <2>4. QED BY <1>1, <1>2, <2>1, <2>3
<1>4. Power(10, Len(t)) = p * z
  <2>1. Len(t) = Len(s) + j
    <3>1. Zeros(j) \in Seq(Nat) /\ Len(Zeros(j)) = j
          BY ZerosFacts
    <3>2. s \in Seq(Nat)
          BY Narrower
    <3>3. Len(s \o Zeros(j)) = Len(s) + Len(Zeros(j))
          BY <3>1, <3>2, ConcatFacts
    <3>4. QED BY <3>1, <3>3
  <2>2. PICK k \in Nat, b \in Nat : k = Len(s) /\ b = 10
        OBVIOUS
  <2>3. Power(b, k + j) = Power(b, k) * Power(b, j)
        BY PowerSum
  <2>4. QED BY <1>1, <1>2, <2>1, <2>2, <2>3
<1>5. /\ c \in {0, 1}
      /\ 2 * w >= p => c = 1
      /\ 2 * w < p /\ c = 1 => q <= p /\ (p - 2 * w) * q <= 2 * p
      BY <1>1, Zenon DEF RoundsBy
<1>6. 2 * (w * z) >= p * z => c = 1
  <2> SUFFICES ASSUME 2 * (w * z) >= p * z PROVE 2 * w >= p
      BY <1>5
  <2>1. PICK x \in Nat : x = 2 * w /\ x * z = 2 * (w * z)
        BY MulFacts
  <2>2. x < p => x * z < p * z
        BY <1>2, MulFacts
  <2>3. x * z \in Nat /\ p * z \in Nat
        BY MulFacts
  <2>4. QED BY <2>1, <2>2, <2>3
<1>7. ASSUME 2 * (w * z) < p * z, c = 1
      PROVE  q <= p * z /\ (p * z - 2 * (w * z)) * q <= 2 * (p * z)
  <2>1. 2 * w < p
    <3>1. PICK x \in Nat : x = 2 * w /\ x * z = 2 * (w * z)
          BY MulFacts
    <3>2. p <= x => p * z <= x * z
          BY MulFacts
    <3>3. x * z \in Nat /\ p * z \in Nat
          BY MulFacts
    <3>4. QED BY <1>7, <3>1, <3>2, <3>3
  <2>2. q <= p /\ (p - 2 * w) * q <= 2 * p
        BY <1>5, <1>7, <2>1
  <2>3. p <= p * z
    <3>1. 1 <= z
          BY <1>2
    <3>2. 1 * p <= z * p
          BY <3>1, MulFacts
    <3>3. 1 * p = p /\ z * p = p * z
          BY MulFacts
    <3>4. QED BY <3>2, <3>3, Zenon
  <2>4. PICK x \in Nat : x = p - 2 * w
        BY <2>1
  <2>5. PICK y \in Nat : y = x * q /\ y <= 2 * p
    <3>1. x * q \in Nat
          BY MulFacts
    <3>2. QED BY <2>2, <2>4, <3>1
  <2>6. y * z <= (2 * p) * z
        BY <2>5, MulFacts
  <2>7. (p * z - 2 * (w * z)) * q = y * z
    <3>1. p * z - 2 * (w * z) = x * z
          BY <2>4
    <3>2. (x * z) * q = (x * q) * z
      <4>1. (x * z) * q = x * (z * q) /\ (x * q) * z = x * (q * z) /\ z * q = q * z
            BY MulFacts
      <4>2. QED BY <4>1
    <3>3. QED BY <2>5, <3>1, <3>2
  <2>8. (2 * p) * z = 2 * (p * z) /\ p * z \in Nat
        BY MulFacts
  <2>9. QED BY <2>2, <2>3, <2>6, <2>7, <2>8
<1>8. QED BY <1>1, <1>3, <1>4, <1>5, <1>6, <1>7, Zenon DEF RoundsBy

\* Only zeros carry nothing.
LEMMA ZerosRound ==
    ASSUME NEW t \in Seq(0 .. 9), \A i \in 1 .. Len(t) : t[i] = 0
    PROVE  RoundsBy(t, 0)
<1>1. PICK m \in Nat : m = Len(t)
      OBVIOUS
<1>2. PICK z \in Seq(Nat) : z = Zeros(m) /\ Len(z) = m /\ \A i \in 1 .. m : z[i] = 0
      BY ZerosFacts
<1>3. t = z
  <2>1. t \in Seq(Nat)
        BY Narrower
  <2>2. QED BY <1>1, <1>2, <2>1, SameSequence
<1>4. Worth(t, 10) = 0
  <2>1. PICK b \in Nat : b = 10
        OBVIOUS
  <2>2. Worth(Zeros(m), b) = 0
        BY WorthOfZeros
  <2>3. QED BY <1>2, <1>3, <2>1, <2>2
<1>5. ~(2 * 0 >= Power(10, Len(t))) /\ 0 # 1
  <2>1. PICK p \in Nat : p = Power(10, Len(t)) /\ p > 0
        BY RoundingFacts
  <2>2. QED BY <2>1
<1>6. QED BY <1>4, <1>5, Zenon DEF RoundsBy

\* The value of digits rounded to the first of them: the digits behind carry c.
LEMMA RoundedDigits ==
    ASSUME NEW h \in Seq(Nat), NEW t \in Seq(0 .. 9), NEW c, RoundsBy(t, c)
    PROVE  /\ Worth(h, 10) + c \in Nat
           /\ RoundsTo(Worth(h \o t, 10), Power(10, Len(t)), Worth(h, 10) + c)
<1>1. PICK p \in Nat, w \in Nat, q \in Nat :
        /\ p = Power(10, Len(t)) /\ w = Worth(t, 10) /\ q = Power(2, Bits - 3) /\ w < p
      BY RoundingFacts
<1>2. PICK v \in Nat : v = Worth(h, 10)
      BY Tens
<1>3. Worth(h \o t, 10) = v * p + w
  <2>1. t \in Seq(Nat) /\ 10 \in Nat
        BY Narrower
  <2>2. QED BY <1>1, <1>2, <2>1, WorthConcat
<1>4. /\ c \in {0, 1}
      /\ 2 * w >= p => c = 1
      /\ 2 * w < p /\ c = 1 => q <= p /\ (p - 2 * w) * q <= 2 * p
      BY <1>1, Zenon DEF RoundsBy
<1>5. PICK x \in Nat : x = v * p
      BY MulFacts
<1>6. PICK r \in Nat : r = 2 * (x + w) + p
      OBVIOUS
<1>7. CASE c = 0
  <2>1. 2 * w < p
        BY <1>4, <1>7
  <2>2. 2 * p * (v + 1) = 2 * x + 2 * p /\ 2 * p * v = 2 * x
        BY <1>5
  <2>3. r < 2 * p * (v + 1) /\ 2 * p * v <= r
        BY <1>6, <2>1, <2>2
  <2>4. v + c = v
        BY <1>7
  <2>5. QED BY <1>1, <1>2, <1>3, <1>5, <1>6, <2>3, <2>4, Zenon DEF RoundsTo
<1>8. CASE c = 1
  <2>1. PICK n \in Nat : n = v + 1 /\ n = v + c
        BY <1>8
  <2>2. 2 * p * (n + 1) = 2 * x + 4 * p /\ 2 * p * n = 2 * x + 2 * p
        BY <1>5, <2>1
  <2>8. w < p /\ w \in Nat /\ p \in Nat /\ x \in Nat
        BY <1>1
  <2>7. r < 2 * x + 4 * p
    <3>1. r = 2 * x + 2 * w + p
          BY <1>6
    <3>2. QED BY <2>8, <3>1
  <2>3. r < 2 * p * (n + 1)
        BY <2>2, <2>7, Zenon
  <2>4. CASE 2 * w >= p
    <3>1. 2 * p * n <= r
          BY <1>6, <2>2, <2>4
    <3>2. QED BY <1>1, <1>2, <1>3, <1>5, <1>6, <2>1, <2>3, <3>1, Zenon DEF RoundsTo
  <2>5. CASE 2 * w < p
    <3>1. 2 * p * n - r = p - 2 * w
          BY <1>6, <2>2
    <3>2. q <= p /\ (2 * p * n - r) * q <= 2 * p
          BY <1>4, <1>8, <2>5, <3>1
    <3>3. QED BY <1>1, <1>2, <1>3, <1>5, <1>6, <2>1, <2>3, <3>2, Zenon DEF RoundsTo
  <2>6. QED BY <2>4, <2>5
<1>9. QED BY <1>4, <1>7, <1>8

\* TrimEnd drops the x a sequence ends in, and no more.
LEMMA TrimEndFacts ==
    ASSUME NEW T, NEW s \in Seq(T), NEW x
    PROVE  LET out == TrimEnd(s, x)
           IN  /\ out \in Seq(T) /\ Len(out) <= Len(s)
               /\ \A i \in 1 .. Len(out) : out[i] = s[i]
               /\ \A i \in Len(out) + 1 .. Len(s) : s[i] = x
               /\ out # <<>> => out[Len(out)] # x
<1> DEFINE Good(n) == /\ \A i \in 1 .. n : s[Len(s) + 1 - i] = x
                      /\ n < Len(s) => s[Len(s) - n] # x
           S == {n \in 0 .. Len(s) : n < Len(s) => s[Len(s) - n] # x}
<1>1. Len(s) \in S /\ S \subseteq Nat
      OBVIOUS
<1>2. PICK n \in S : \A j \in S : n <= j
      BY <1>1, LeastNumber
<1>3. ASSUME NEW i \in 1 .. n PROVE s[Len(s) + 1 - i] = x
  <2>1. i - 1 \in 0 .. Len(s) /\ i - 1 < n /\ n \in Nat /\ n <= Len(s)
        BY <1>2
  <2>2. ~(n <= i - 1)
        BY <2>1
  <2>6. i - 1 \notin S
        BY <1>2, <2>2
  <2>3. s[Len(s) - (i - 1)] = x
        BY <2>1, <2>6
  <2>4. Len(s) - (i - 1) = Len(s) + 1 - i
        BY <2>1
  <2>5. QED BY <2>3, <2>4
<1>4. n \in 0 .. Len(s) /\ Good(n)
      BY <1>2, <1>3
<1> DEFINE m == CHOOSE k \in 0 .. Len(s) : Good(k)
<1>5. m \in 0 .. Len(s) /\ Good(m)
      BY <1>4
<1>6. TrimEnd(s, x) = SubSeq(s, 1, Len(s) - m)
      BY DEF TrimEnd
<1> HIDE DEF m, S
<1>7. PICK k \in 0 .. Len(s) : k = Len(s) - m
      BY <1>5
<1>8. m = Len(s) - k
      BY <1>5, <1>7
<1> DEFINE out == SubSeq(s, 1, k)
<1>9. out \in Seq(T) /\ Len(out) = k /\ \A i \in 1 .. k : out[i] = s[i]
  <2>1. 0 \in Nat /\ k \in Nat /\ 0 <= k /\ k <= Len(s) /\ 0 + 1 = 1 /\ k - 0 = k
        OBVIOUS
  <2>2. /\ SubSeq(s, 0 + 1, k) \in Seq(T) /\ Len(SubSeq(s, 0 + 1, k)) = k - 0
        /\ \A i \in 1 .. k - 0 : SubSeq(s, 0 + 1, k)[i] = s[0 + i]
        BY <2>1, PartFacts
  <2>3. \A i \in 1 .. k : 0 + i = i
        OBVIOUS
  <2>4. QED BY <2>1, <2>2, <2>3
<1>10. ASSUME NEW i \in k + 1 .. Len(s) PROVE s[i] = x
  <2>0. Len(s) \in Nat /\ m \in Nat /\ i \in Nat /\ i >= k + 1 /\ i <= Len(s)
        BY <1>5, <1>7
  <2>1. PICK j \in 1 .. m : j = Len(s) + 1 - i
    <3>1. Len(s) + 1 - i \in 1 .. m
          BY <1>7, <2>0
    <3>2. QED BY <3>1
  <2>2. s[Len(s) + 1 - j] = x
        BY <1>5
  <2>3. Len(s) + 1 - j = i
        BY <2>1, <1>5
  <2>4. QED BY <2>2, <2>3
<1>11. ASSUME out # <<>> PROVE out[Len(out)] # x
  <2>1. k > 0
        BY <1>9, <1>11
  <2>2. m < Len(s) /\ Len(s) - m = k
        BY <2>1, <1>5, <1>7
  <2>3. s[k] # x
        BY <2>2, <1>5
  <2>4. QED BY <1>9, <2>1, <2>3
<1>12. QED BY <1>6, <1>7, <1>9, <1>10, <1>11

\* Succ: one more, written without a zero in front.
LEMMA SuccFacts ==
    ASSUME NEW s \in Seq(0 .. 9)
    PROVE  /\ Succ(s) \in Seq(0 .. 9) /\ Len(Succ(s)) >= 1 /\ Succ(s)[1] \in 1 .. 9
           /\ Worth(Succ(s), 10) = Worth(s, 10) + 1
           /\ Len(Succ(s)) <= Len(s) + 1
<1>1. PICK b \in Nat : b = 10
      OBVIOUS
<1>2. b > 1 /\ b - 1 = 9
      BY <1>1
<1>3. Worth(s, 10) \in Nat /\ s \in Seq(Nat) /\ Worth(s, 10) < Power(10, Len(s))
      BY Tens, Narrower
<1>4. PICK n \in Nat : n = Worth(s, 10) + 1
      BY <1>3
<1>5. /\ Digits(n, b) \in Seq(0 .. b - 1) /\ Len(Digits(n, b)) >= 1
      /\ Worth(Digits(n, b), b) = n
      /\ Len(Digits(n, b)) > 1 => Digits(n, b)[1] # 0
      BY <1>2, DigitsFacts
<1>6. Succ(s) = Digits(n, b)
      BY <1>1, <1>4 DEF Succ
<1>7. PICK d : d = Digits(n, b)
      OBVIOUS
<1>8. d \in Seq(0 .. 9) /\ Len(d) \in Nat /\ Len(d) >= 1 /\ d[1] \in 0 .. 9
      BY <1>2, <1>5, <1>7
<1>9. d[1] # 0
  <2>1. CASE Len(d) > 1
        BY <2>1, <1>5, <1>7
  <2>2. CASE Len(d) = 1
    <3>1. PICK x \in Nat : x = d[1]
          BY <1>8
    <3>2. d = <<x>>
      <4>1. d \in Seq(Nat) /\ <<x>> \in Seq(Nat) /\ Len(<<x>>) = 1 /\ <<x>>[1] = x
            BY <1>8, Narrower
      <4>2. QED BY <2>2, <3>1, <4>1, SameSequence
    <3>3. Worth(<<x>>, 10) = x
          BY WorthOne
    <3>4. n = x
          BY <1>1, <1>5, <1>7, <3>2, <3>3
    <3>5. n # 0
          BY <1>3, <1>4
    <3>6. QED BY <3>1, <3>4, <3>5
  <2>3. Len(d) = 1 \/ Len(d) > 1
    <3>1. PICK k \in Nat : k = Len(d)
          BY <1>8
    <3>2. k >= 1
          BY <1>8, <3>1
    <3>3. QED BY <3>1, <3>2
  <2>4. QED BY <2>1, <2>2, <2>3
<1>10. Len(d) <= Len(s) + 1
  <2>1. PICK k \in Nat : k = Len(s)
        OBVIOUS
  <2>2. Power(10, k + 1) = 10 * Power(10, k) /\ Power(10, k) \in Nat /\ Power(10, k) > 0
        BY Tens
  <2>3. n <= Power(10, k)
        BY <1>3, <1>4, <2>1, <2>2
  <2>4. n < Power(b, k + 1)
        BY <1>1, <2>2, <2>3
  <2>5. PICK j \in Nat : j = k + 1
        OBVIOUS
  <2>6. j > 0 /\ n < Power(b, j)
        BY <2>4, <2>5
  <2>7. Len(Digits(n, b)) <= j
        BY <1>2, <2>6, DigitsLength
  <2>8. QED BY <1>7, <2>1, <2>5, <2>7
<1>11. QED BY <1>1, <1>4, <1>5, <1>6, <1>7, <1>8, <1>9, <1>10

\* It is a digit longer only if all digits were 9; then the rest of it is worth nothing.
LEMMA SuccOverflows ==
    ASSUME NEW s \in Seq(0 .. 9), Len(Succ(s)) = Len(s) + 1
    PROVE  /\ Worth(s, 10) + 1 = Power(10, Len(s))
           /\ Worth(Tail(Succ(s)), 10) = 0
<1>0. /\ Succ(s) \in Seq(0 .. 9) /\ Succ(s)[1] \in 1 .. 9
      /\ Worth(Succ(s), 10) = Worth(s, 10) + 1
      BY SuccFacts
<1>1. PICK d \in Seq(0 .. 9) : d = Succ(s)
      BY <1>0
<1>2. d # <<>> /\ d[1] \in 1 .. 9 /\ Len(d) - 1 = Len(s) /\ Worth(d, 10) = Worth(s, 10) + 1
  <2>1. Len(d) = Len(s) + 1 /\ Len(s) \in Nat /\ Len(d) \in Nat
        BY <1>1
  <2>2. QED BY <1>0, <1>1, <2>1
<1>3. PICK q \in Nat, w \in Nat :
             /\ q > 0 /\ w < q /\ q = Power(10, Len(s))
             /\ Worth(d, 10) = d[1] * q + w
             /\ Worth(Tail(d), 10) = w
      BY <1>2, WorthOfFirst
<1>4. Worth(s, 10) \in Nat /\ Worth(s, 10) < q
      BY <1>3, Tens, Narrower
<1>5. \A x \in 1 .. 9 : x * q + w <= q => x * q + w = q /\ w = 0
      BY <1>3
<1>6. d[1] * q + w <= q
      BY <1>2, <1>3, <1>4
<1>7. d[1] * q + w = q /\ w = 0
      BY <1>2, <1>5, <1>6
<1>8. QED BY <1>1, <1>2, <1>3, <1>7

\* A digit behind, and digits in front.
LEMMA WorthOfTwo ==
    ASSUME NEW i \in Seq(0 .. 9), NEW s \in Seq(0 .. 9)
    PROVE  /\ i \o s \in Seq(Nat) /\ i \in Seq(Nat) /\ s \in Seq(Nat)
           /\ Worth(i \o s, 10) = Worth(i, 10) * Power(10, Len(s)) + Worth(s, 10)
           /\ \A x \in Nat : /\ i \o Append(s, x) = Append(i \o s, x)
                             /\ Append(s, x) \in Seq(Nat)
                             /\ Worth(i \o Append(s, x), 10) = 10 * Worth(i \o s, 10) + x
                             /\ Worth(Append(s, x), 10) = 10 * Worth(s, 10) + x
<1>1. i \in Seq(Nat) /\ s \in Seq(Nat) /\ i \o s \in Seq(Nat)
      BY Narrower, ConcatFacts
<1>2. PICK b \in Nat : b = 10
      OBVIOUS
<1>3. Worth(i \o s, b) = Worth(i, b) * Power(b, Len(s)) + Worth(s, b)
      BY <1>1, WorthConcat
<1>4. ASSUME NEW x \in Nat
      PROVE  /\ i \o Append(s, x) = Append(i \o s, x)
             /\ Append(s, x) \in Seq(Nat)
             /\ Worth(Append(i \o s, x), b) = b * Worth(i \o s, b) + x
             /\ Worth(Append(s, x), b) = b * Worth(s, b) + x
  <2>1. i \o Append(s, x) = Append(i \o s, x) /\ Append(s, x) \in Seq(Nat)
        BY <1>1
  <2>2. QED BY <1>1, <2>1, WorthFacts
<1>5. QED BY <1>1, <1>2, <1>3, <1>4

\* The fraction with the carry, as ParseUnits makes it.
Longer(left, r) ==
    IF r > 9 THEN Append(Zeros(Len(left) - Len(Succ(left))) \o Succ(left), 0) ELSE Append(left, r)

\* The digits of integer and fraction, after the carry.
CarriedDigits(i, left, r, d) ==
    LET longer == Longer(left, r)
    IN  IF Len(longer) > d THEN Succ(i) \o SubSeq(Tail(longer), 1, d) ELSE i \o longer

\* They are worth the carry more.
CarriesOver(i, left, x, c, d) ==
    LET out == CarriedDigits(i, left, x + c, d)
    IN  /\ out \in Seq(Nat) /\ out # <<>>
        /\ Worth(out, 10) = Worth(i \o Append(left, x), 10) + c

\* The carry into the fraction and, when it has no room there, into the integer.
LEMMA Carried ==
    ASSUME NEW i \in Seq(0 .. 9), NEW left \in Seq(0 .. 9), NEW x \in 0 .. 9, NEW c \in {0, 1},
           NEW d \in Nat, d = Len(left) + 1
    PROVE  CarriesOver(i, left, x, c, d)
<1> DEFINE longer == Longer(left, x + c)
           out == IF Len(longer) > d THEN Succ(i) \o SubSeq(Tail(longer), 1, d)
                  ELSE i \o longer
           p == Power(10, Len(left))
<1> HIDE DEF p
<1>0. /\ x + c <= 9 => longer = Append(left, x + c)
      /\ x + c > 9 => longer = Append(Zeros(Len(left) - Len(Succ(left))) \o Succ(left), 0)
      /\ Len(longer) > d => out = Succ(i) \o SubSeq(Tail(longer), 1, d)
      /\ ~(Len(longer) > d) => out = i \o longer
  <2>1. x + c \in Nat /\ (x + c <= 9 => ~(x + c > 9))
        OBVIOUS
  <2>2. x + c <= 9 => longer = Append(left, x + c)
        BY <2>1 DEF Longer
  <2>3. x + c > 9 => longer = Append(Zeros(Len(left) - Len(Succ(left))) \o Succ(left), 0)
        BY <2>1 DEF Longer
  <2> HIDE DEF longer
  <2>4. /\ Len(longer) > d => out = Succ(i) \o SubSeq(Tail(longer), 1, d)
        /\ ~(Len(longer) > d) => out = i \o longer
        OBVIOUS
  <2>5. QED BY <2>2, <2>3, <2>4
<1> HIDE DEF longer, out
<1>1. /\ Worth(i \o Append(left, x), 10) = 10 * Worth(i \o left, 10) + x
      /\ Worth(i \o left, 10) = Worth(i, 10) * p + Worth(left, 10)
      /\ Worth(i, 10) \in Nat /\ Worth(left, 10) \in Nat /\ p \in Nat
      /\ Power(10, d) = 10 * p
  <2>1. x \in Nat
        OBVIOUS
  <2>2. PICK k \in Nat : k = Len(left)
        OBVIOUS
  <2>3. Power(10, k) \in Nat /\ Power(10, k + 1) = 10 * Power(10, k)
        BY Tens
  <2>4. Worth(i, 10) \in Nat /\ Worth(left, 10) \in Nat
        BY WorthOfTwo, Tens
  <2>5. QED BY <2>1, <2>2, <2>3, <2>4, WorthOfTwo DEF p
<1>6. Worth(i \o left, 10) \in Nat /\ x \in Nat /\ c \in Nat
  <2>1. i \o left \in Seq(Nat)
        BY WorthOfTwo
  <2>2. Worth(i \o left, 10) \in Nat
        BY <2>1, Tens
  <2>3. x \in Nat /\ c \in Nat
        OBVIOUS
  <2>4. QED BY <2>2, <2>3
<1> DEFINE Goal == out \in Seq(Nat) /\ out # <<>> /\ Worth(out, 10) = 10 * Worth(i \o left, 10) + x + c
<1>2. ASSUME x + c <= 9 PROVE Goal
  <2>1. longer = Append(left, x + c) /\ x + c \in Nat
        BY <1>0, <1>2, <1>6
  <2>2. Len(longer) = d /\ ~(Len(longer) > d)
        BY <2>1
  <2>3. out = i \o Append(left, x + c)
        BY <1>0, <2>1, <2>2
  <2>4. PICK y \in Nat : y = x + c
        BY <2>1
  <2>5. /\ Worth(i \o Append(left, y), 10) = 10 * Worth(i \o left, 10) + y
        /\ i \o Append(left, y) = Append(i \o left, y) /\ i \o left \in Seq(Nat)
        BY WorthOfTwo
  <2>6. Append(i \o left, y) \in Seq(Nat) /\ Append(i \o left, y) # <<>>
        BY <2>5
  <2>7. QED BY <1>6, <2>3, <2>4, <2>5, <2>6
<1>3. ASSUME x + c > 9 PROVE Goal
  <2>1. x = 9 /\ c = 1
        BY <1>3
  <2>0. /\ Succ(left) \in Seq(0 .. 9) /\ Len(Succ(left)) >= 1 /\ Succ(left)[1] \in 1 .. 9
        /\ Worth(Succ(left), 10) = Worth(left, 10) + 1
        /\ Len(Succ(left)) <= Len(left) + 1
        BY SuccFacts
  <2>2. PICK s \in Seq(0 .. 9) : s = Succ(left)
        BY <2>0
  <2>3. /\ Len(s) \in Nat /\ Len(s) >= 1 /\ s[1] \in 1 .. 9 /\ Worth(s, 10) = Worth(left, 10) + 1
        /\ Len(s) <= d
        BY <2>0, <2>2
  <2>4. longer = Append(Zeros(Len(left) - Len(s)) \o s, 0)
        BY <1>0, <1>3, <2>2
  <2>5. CASE Len(s) < d
    <3>1. PICK k \in Nat : k = Len(left) - Len(s)
      <4>1. Len(left) - Len(s) \in Nat
            BY <2>3, <2>5
      <4>2. QED BY <4>1
    <3>2. PICK z : z = Zeros(k)
          OBVIOUS
    <3>3. /\ z \in Seq(0 .. 9) /\ Len(z) = k /\ z \o s \in Seq(0 .. 9) /\ Len(z \o s) = Len(left)
          /\ Worth(z \o s, 10) = Worth(s, 10)
      <4>1. Zeros(k) \in Seq({0}) /\ Len(Zeros(k)) = k
            BY ZerosFacts
      <4>2. z \in Seq(0 .. 9) /\ Len(z) = k
            BY <3>2, <4>1
      <4>3. z \o s \in Seq(0 .. 9) /\ Len(z \o s) = k + Len(s)
            BY <4>2, ConcatFacts
      <4>4. PICK b \in Nat : b = 10
            OBVIOUS
      <4>5. Worth(Zeros(k) \o s, b) = Worth(s, b)
            BY WorthOfZeros, Narrower
      <4>6. k + Len(s) = Len(left)
            BY <3>1, <2>3
      <4>7. QED BY <3>2, <4>2, <4>3, <4>4, <4>5, <4>6
    <3>4. PICK e \in Seq(0 .. 9) : e = z \o s
          BY <3>3
    <3>5. longer = Append(e, 0) /\ Len(e) = Len(left)
          BY <2>4, <3>1, <3>2, <3>3, <3>4
    <3>6. Len(longer) = d /\ ~(Len(longer) > d)
          BY <3>5
    <3>7. out = i \o Append(e, 0)
          BY <1>0, <3>5, <3>6
    <3>8. /\ Worth(i \o Append(e, 0), 10) = 10 * Worth(i \o e, 10) + 0
          /\ Worth(i \o e, 10) = Worth(i, 10) * Power(10, Len(e)) + Worth(e, 10)
          /\ i \o Append(e, 0) = Append(i \o e, 0) /\ i \o e \in Seq(Nat)
          BY WorthOfTwo
    <3>9. Append(i \o e, 0) \in Seq(Nat) /\ Append(i \o e, 0) # <<>>
          BY <3>8
    <3>10. Worth(e, 10) = Worth(left, 10) + 1
          BY <3>3, <3>4, <2>3
    <3>11. Worth(i \o e, 10) = Worth(i, 10) * p + Worth(left, 10) + 1
          BY <3>5, <3>8, <3>10, <1>1 DEF p
    <3>12. Worth(i \o e, 10) = Worth(i \o left, 10) + 1
          BY <3>11, <1>1
    <3>13. Worth(out, 10) = 10 * (Worth(i \o left, 10) + 1)
          BY <3>7, <3>8, <3>12, <1>6
    <3>14. QED BY <1>6, <2>1, <3>7, <3>8, <3>9, <3>13, SMTT(60)
  <2>6. CASE Len(s) = d
    <3>1. Worth(left, 10) + 1 = p /\ Worth(Tail(s), 10) = 0
      <4>1. Len(Succ(left)) = Len(left) + 1
            BY <2>2, <2>6
      <4>2. QED BY <2>2, <4>1, SuccOverflows DEF p
    <3>2. Zeros(Len(left) - Len(s)) = <<>>
      <4>1. Len(left) - Len(s) = -1
            BY <2>6
      <4>2. 1 .. -1 = {}
            OBVIOUS
      <4>3. QED BY <4>1, <4>2 DEF Zeros
    <3>3. longer = Append(s, 0)
          BY <2>4, <3>2
    <3>4. PICK u \in Seq(0 .. 9) : u = Tail(s)
      <4>1. s # <<>>
            BY <2>3
      <4>2. Tail(s) \in Seq(0 .. 9)
            BY <4>1
      <4>3. QED BY <4>2
    <3>5. Tail(longer) = Append(u, 0) /\ Len(longer) = d + 1 /\ Len(Append(u, 0)) = d
      <4>1. s # <<>> /\ Len(s) = d /\ Len(u) = d - 1
            BY <3>4, <2>3, <2>6
      <4>2. Tail(Append(s, 0)) = Append(Tail(s), 0)
            BY <4>1
      <4>3. Len(Append(u, 0)) = d /\ Len(Append(s, 0)) = d + 1
            BY <4>1
      <4>4. QED BY <3>3, <3>4, <4>2, <4>3
    <3>6. SubSeq(Tail(longer), 1, d) = Append(u, 0)
      <4>1. Append(u, 0) \in Seq(0 .. 9)
            BY <3>4
      <4>2. QED BY <3>5, <4>1
    <3>16. Succ(i) \in Seq(0 .. 9) /\ Worth(Succ(i), 10) = Worth(i, 10) + 1
          BY SuccFacts
    <3>7. PICK j \in Seq(0 .. 9) : j = Succ(i)
          BY <3>16
    <3>8. out = j \o Append(u, 0)
      <4>1. Len(longer) > d
            BY <3>5
      <4>2. out = Succ(i) \o SubSeq(Tail(longer), 1, d)
            BY <1>0, <4>1
      <4>3. QED BY <3>6, <3>7, <4>2
    <3>9. /\ Worth(j \o Append(u, 0), 10) = 10 * Worth(j \o u, 10) + 0
          /\ Worth(j \o u, 10) = Worth(j, 10) * Power(10, Len(u)) + Worth(u, 10)
          /\ j \o Append(u, 0) = Append(j \o u, 0) /\ j \o u \in Seq(Nat)
      <4>1. 0 \in Nat
            OBVIOUS
      <4>2. QED BY <4>1, WorthOfTwo, ZenonT(60)
    <3>10. Append(j \o u, 0) \in Seq(Nat) /\ Append(j \o u, 0) # <<>>
          BY <3>9
    <3>11. Worth(j, 10) = Worth(i, 10) + 1 /\ Len(u) = Len(left) /\ Worth(u, 10) = 0
          BY <3>1, <3>4, <3>7, <3>16, <2>3, <2>6
    <3>12. Worth(j \o u, 10) = (Worth(i, 10) + 1) * p
          BY <3>9, <3>11, <1>1 DEF p
    <3>13. Worth(i \o left, 10) + 1 = (Worth(i, 10) + 1) * p
      <4>1. PICK v \in Nat, q \in Nat, r \in Nat : v = Worth(i, 10) /\ q = p /\ r = Worth(left, 10)
            BY <1>1, Zenon
      <4>2. Worth(i \o left, 10) = v * q + r /\ r + 1 = q
            BY <3>1, <1>1, <4>1, Zenon
      <4>3. v * q + r + 1 = (v + 1) * q
            BY <4>2
      <4>4. QED BY <4>1, <4>2, <4>3, Zenon
    <3>14. Worth(out, 10) = 10 * (Worth(i \o left, 10) + 1)
          BY <3>8, <3>9, <3>12, <3>13, <1>6
    <3>15. out \in Seq(Nat) /\ out # <<>>
          BY <3>8, <3>9, <3>10
    <3>17. x + c = 10
          BY <2>1
    <3>18. Worth(out, 10) = 10 * Worth(i \o left, 10) + x + c
          BY <1>6, <3>14, <3>17
    <3>19. QED BY <3>15, <3>18
  <2>7. Len(s) < d \/ Len(s) = d
        BY <2>3
  <2>8. QED BY <2>5, <2>6, <2>7
<1>4. Goal
      BY <1>2, <1>3, <1>6
<1>5. /\ out \in Seq(Nat) /\ out # <<>>
      /\ Worth(out, 10) = Worth(i \o Append(left, x), 10) + c
      BY <1>1, <1>4, <1>6
<1>7. out = CarriedDigits(i, left, x + c, d)
      BY DEF longer, out, CarriedDigits
<1>8. QED BY <1>5, <1>7, Zenon DEF CarriesOver

\* The two ways to concatenate three sequences: named, because the provers instantiate a
\* predicate where they would search an equality.
Assoc(a, b, c) == a \o b \o c = a \o (b \o c)

\* Concatenation is associative.
LEMMA Associative ==
    ASSUME NEW T, NEW a \in Seq(T), NEW b \in Seq(T), NEW c \in Seq(T)
    PROVE  Assoc(a, b, c)
BY ConcatAssociative DEF Assoc

\* A sequence of some length is not empty.
LEMMA NotEmpty ==
    ASSUME NEW T, NEW s \in Seq(T)
    PROVE  Len(s) > 0 <=> s # <<>>
OBVIOUS

\* Two ways to take apart what follows a sequence.
SameParts(i, g, t, f, z) == (i \o g) \o t = i \o f \o z

\* They are the same when the rest is.
LEMMA Regrouped ==
    ASSUME NEW T, NEW i \in Seq(T), NEW g \in Seq(T), NEW t \in Seq(T), NEW f \in Seq(T),
           NEW z \in Seq(T), g \o t = f \o z
    PROVE  SameParts(i, g, t, f, z)
<1>1. Assoc(i, g, t)
      BY Associative, Zenon
<1>2. Assoc(i, f, z)
      BY Associative, Zenon
<1>3. QED BY <1>1, <1>2, Zenon DEF Assoc, SameParts

\* The elements of g are those of f and then the k of y.
MadeUpOf(g, f, y, k) ==
    /\ Len(y) = k /\ Len(g) = Len(f) + k
    /\ \A i \in 1 .. Len(f) : g[i] = f[i]
    /\ \A i \in 1 .. k : g[Len(f) + i] = y[i]

\* g is f and then y.
Joins(g, f, y) == f \o y = g

\* A sequence made up of two is the one and then the other.
LEMMA ConcatIs ==
    ASSUME NEW T, NEW f \in Seq(T), NEW y \in Seq(T), NEW g \in Seq(T), NEW k \in Nat
    PROVE  MadeUpOf(g, f, y, k) => Joins(g, f, y)
<1>1. /\ f \o y \in Seq(T) /\ Len(f \o y) = Len(f) + Len(y)
      /\ \A i \in 1 .. Len(f) : (f \o y)[i] = f[i]
      /\ \A i \in 1 .. Len(y) : (f \o y)[Len(f) + i] = y[i]
      BY ConcatFacts
<1> SUFFICES ASSUME Len(y) = k, Len(g) = Len(f) + k,
                    \A i \in 1 .. Len(f) : g[i] = f[i],
                    \A i \in 1 .. k : g[Len(f) + i] = y[i]
             PROVE  f \o y = g
    BY Zenon DEF MadeUpOf, Joins
<1> PICK d \in Nat : d = Len(g)
    OBVIOUS
<1>2. Len(f \o y) = d /\ Len(f) \in Nat
      BY <1>1
<1>3. ASSUME NEW i \in 1 .. d PROVE (f \o y)[i] = g[i]
  <2>1. CASE i <= Len(f)
    <3>1. i \in 1 .. Len(f)
          BY <1>2, <2>1
    <3>2. (f \o y)[i] = f[i] /\ g[i] = f[i]
          BY <1>1, <3>1
    <3>3. QED BY <3>2
  <2>2. CASE i > Len(f)
    <3>1. PICK j \in 1 .. k : j = i - Len(f)
      <4>1. i - Len(f) \in 1 .. k
            BY <1>2, <2>2
      <4>2. QED BY <4>1
    <3>2. i = Len(f) + j
          BY <1>2, <3>1
    <3>3. (f \o y)[Len(f) + j] = y[j] /\ g[Len(f) + j] = y[j]
          BY <1>1, <3>1
    <3>4. QED BY <3>2, <3>3
  <2>3. QED BY <1>2, <2>1, <2>2
<1>4. QED BY <1>1, <1>2, <1>3, SameSequence

\* The elements of g are the e of s and then x.
Extends(g, s, x, e) ==
    Len(s) = e /\ Len(g) = e + 1 /\ (\A i \in 1 .. e : g[i] = s[i]) /\ g[e + 1] = x

\* g is s and then x.
Appends(g, s, x) == Append(s, x) = g

\* A sequence of the elements of another and one more is that one with the element appended.
LEMMA AppendIs ==
    ASSUME NEW T, NEW g \in Seq(T), NEW s \in Seq(T), NEW x \in T, NEW e \in Nat
    PROVE  Extends(g, s, x, e) => Appends(g, s, x)
<1> SUFFICES ASSUME Len(s) = e, Len(g) = e + 1, \A i \in 1 .. e : g[i] = s[i], g[e + 1] = x
             PROVE  Append(s, x) = g
    BY Zenon DEF Extends, Appends
<1>1. Append(s, x) \in Seq(T) /\ Len(Append(s, x)) = e + 1
      OBVIOUS
<1>2. ASSUME NEW i \in 1 .. e + 1 PROVE Append(s, x)[i] = g[i]
  <2>1. CASE i = e + 1
        BY <2>1
  <2>2. CASE i # e + 1
    <3>1. i \in 1 .. e
          BY <2>2
    <3>2. Append(s, x)[i] = s[i]
          BY <3>1
    <3>3. QED BY <3>1, <3>2
  <2>3. QED BY <2>1, <2>2
<1>3. QED BY <1>1, <1>2, SameSequence

\* The parts of a sequence before and after its element d.
Around(T, f, d) ==
    \E e \in Nat, left \in Seq(T), x \in T, right \in Seq(T) :
        /\ d = e + 1 /\ Len(left) = e /\ x = f[d]
        /\ left = SubSeq(f, 1, d - 1) /\ right = SubSeq(f, d + 1, Len(f))
        /\ right # <<>> /\ right[1] = f[d + 1]
        /\ \A i \in 1 .. e : left[i] = f[i]

\* An element before the last has such parts.
LEMMA AroundElement ==
    ASSUME NEW T, NEW f \in Seq(T), NEW d \in Nat, d > 0, d < Len(f)
    PROVE  Around(T, f, d)
<1>1. PICK m \in Nat : m = Len(f)
      OBVIOUS
<1>2. PICK e \in Nat : d = e + 1 /\ e = d - 1
  <2>1. d - 1 \in Nat /\ d = (d - 1) + 1
        OBVIOUS
  <2>2. QED BY <2>1
<1>3. PICK left \in Seq(T) : left = SubSeq(f, 1, d - 1) /\ Len(left) = e /\ \A i \in 1 .. e : left[i] = f[i]
  <2>1. e <= Len(f)
        BY <1>1, <1>2
  <2>2. /\ SubSeq(f, 1, e) \in Seq(T) /\ Len(SubSeq(f, 1, e)) = e
        /\ \A i \in 1 .. e : SubSeq(f, 1, e)[i] = f[i]
        BY <2>1, FrontAndRest
  <2>3. QED BY <1>2, <2>2
<1>4. PICK x \in T : x = f[d]
  <2>1. d \in 1 .. Len(f)
        BY <1>1
  <2>2. QED BY <2>1, ElementsOf
<1>5. PICK right \in Seq(T) : right = SubSeq(f, d + 1, Len(f)) /\ Len(right) = m - d /\ right[1] = f[d + 1]
  <2>1. d <= Len(f) /\ 1 \in 1 .. Len(f) - d
        BY <1>1
  <2>2. /\ SubSeq(f, d + 1, Len(f)) \in Seq(T) /\ Len(SubSeq(f, d + 1, Len(f))) = Len(f) - d
        /\ \A i \in 1 .. Len(f) - d : SubSeq(f, d + 1, Len(f))[i] = f[d + i]
        BY <2>1, FrontAndRest
  <2>3. QED BY <1>1, <2>1, <2>2
<1>6. right # <<>>
  <2>1. Len(right) > 0
        BY <1>1, <1>5
  <2>2. QED BY <2>1, NotEmpty
<1>7. QED BY <1>2, <1>3, <1>4, <1>5, <1>6 DEF Around

\* parseUnits of a text given by its parts.
Parsed(negative, integer, fraction, decimals) ==
    ParseUnits([negative |-> negative, integer |-> integer, fraction |-> fraction], decimals)

\* The digits h of a decimal text that count, those dropped, t, and the digits `out` that
\* parseUnits makes of them: one more when those dropped carry into them.
Rounds(T, negative, I, F, d, n) ==
    \E h \in Seq(T), t \in Seq(T), out \in Seq(Nat), c \in {0, 1} :
        /\ h \o t = I \o F \o Zeros(n - Len(F))
        /\ Len(t) = n - d
        /\ Parsed(negative, I, F, d) = BigIntOf(negative, out)
        /\ RoundsBy(t, c)
        /\ Worth(out, 10) = Worth(h, 10) + c
        /\ out = <<>> <=> I = <<>> /\ d = 0 /\ c = 0

\* parseUnits does so, whatever the digits and the decimals: with fewer digits than decimals it
\* fills up, with none wanted it rounds the integer, otherwise it carries.
LEMMA ParsedDigits ==
    ASSUME NEW T, T = 0 .. 9, NEW I \in Seq(T), NEW F \in Seq(T), NEW negative,
           NEW d \in Nat, NEW n \in Nat, n = Greatest(d, Len(F))
    PROVE  Rounds(T, negative, I, F, d, n)
<1>0. T = 0 .. 9
      OBVIOUS
<1>1. I \in Seq(T) /\ F \in Seq(T) /\ 0 \in T /\ T \subseteq Nat
      BY <1>0
<1>2. d <= n /\ Len(F) <= n /\ Len(F) \in Nat
      BY DEF Greatest
<1>3. PICK z \in Seq(T) : z = Zeros(n - Len(F)) /\ Len(z) = n - Len(F) /\ \A i \in 1 .. Len(z) : z[i] = 0
  <2>1. PICK k \in Nat : k = n - Len(F)
    <3>1. n - Len(F) \in Nat
          BY <1>2
    <3>2. QED BY <3>1
  <2>2. Zeros(k) \in Seq({0}) /\ Len(Zeros(k)) = k /\ \A i \in 1 .. k : Zeros(k)[i] = 0
        BY ZerosFacts
  <2>3. Zeros(k) \in Seq(T)
        BY <1>1, <2>2
  <2>4. QED BY <2>1, <2>2, <2>3
<1>4. PICK G \in Seq(T) : G = F \o z
      BY <1>1, ConcatFacts
<1>5. /\ Len(G) = n
      /\ \A i \in 1 .. Len(F) : G[i] = F[i]
      /\ \A i \in Len(F) + 1 .. n : G[i] = 0
  <2>1. Len(G) = Len(F) + Len(z)
        /\ (\A i \in 1 .. Len(F) : G[i] = F[i])
        /\ (\A i \in 1 .. Len(z) : G[Len(F) + i] = z[i])
        BY <1>1, <1>4, ConcatFacts
  <2>2. ASSUME NEW i \in Len(F) + 1 .. n PROVE G[i] = 0
    <3>1. PICK j \in 1 .. Len(z) : j = i - Len(F)
      <4>1. i - Len(F) \in 1 .. Len(z)
            BY <1>2, <1>3
      <4>2. QED BY <4>1
    <3>2. i = Len(F) + j
          BY <1>2, <3>1
    <3>3. QED BY <1>3, <2>1, <3>2
  <2>3. Len(G) = n
        BY <1>2, <1>3, <2>1
  <2>4. QED BY <2>1, <2>2, <2>3
<1>13. d <= Len(G)
      BY <1>2, <1>5
<1>14. /\ SubSeq(G, 1, d) \in Seq(T) /\ Len(SubSeq(G, 1, d)) = d
       /\ \A i \in 1 .. d : SubSeq(G, 1, d)[i] = G[i]
       /\ SubSeq(G, d + 1, Len(G)) \in Seq(T) /\ Len(SubSeq(G, d + 1, Len(G))) = Len(G) - d
       /\ \A i \in 1 .. Len(G) - d : SubSeq(G, d + 1, Len(G))[i] = G[d + i]
       /\ SubSeq(G, 1, d) \o SubSeq(G, d + 1, Len(G)) = G
      BY <1>13, FrontAndRest, ZenonT(60)
<1>6. PICK g \in Seq(T) : g = SubSeq(G, 1, d) /\ Len(g) = d /\ \A i \in 1 .. d : g[i] = G[i]
      BY <1>14
<1>7. PICK t \in Seq(T) : /\ Len(t) = n - d /\ \A i \in 1 .. n - d : t[i] = G[d + i]
                          /\ g \o t = G
      BY <1>5, <1>6, <1>14
<1>8. PICK h \in Seq(T) : h = I \o g
      BY <1>1, ConcatFacts
<1>9. h \o t = I \o F \o z
  <2>1. I \in Seq(T) /\ F \in Seq(T) /\ z \in Seq(T) /\ g \in Seq(T) /\ t \in Seq(T) /\ g \o t = F \o z
        BY <1>1, <1>3, <1>4, <1>6, <1>7
  <2>2. SameParts(I, g, t, F, z)
        BY <2>1, Regrouped, ZenonT(40)
  <2>3. (I \o g) \o t = I \o F \o z
        BY <2>2, Zenon DEF SameParts
  <2>4. QED BY <1>8, <2>3, Zenon
<1>10. PICK f \in Seq(T) : /\ f = NoTrailingZeros(F) /\ Len(f) <= Len(F)
                           /\ \A i \in 1 .. Len(f) : f[i] = F[i]
                           /\ \A i \in Len(f) + 1 .. Len(F) : F[i] = 0
                           /\ f # <<>> => f[Len(f)] # 0
      BY <1>1, TrimEndFacts DEF NoTrailingZeros
<1>11. Len(f) \in Nat /\ Len(f) <= n
      BY <1>2, <1>10
<1>12. /\ \A i \in 1 .. Len(f) : G[i] = f[i]
       /\ \A i \in Len(f) + 1 .. n : G[i] = 0
  <2>1. ASSUME NEW i \in 1 .. Len(f) PROVE G[i] = f[i]
    <3>1. i \in 1 .. Len(F)
          BY <1>2, <1>10, <1>11
    <3>2. QED BY <1>5, <1>10, <3>1
  <2>2. ASSUME NEW i \in Len(f) + 1 .. n PROVE G[i] = 0
    <3>1. CASE i <= Len(F)
      <4>1. i \in Len(f) + 1 .. Len(F) /\ i \in 1 .. Len(F)
            BY <3>1, <1>2, <1>11
      <4>2. QED BY <1>5, <1>10, <4>1
    <3>2. CASE i > Len(F)
      <4>1. i \in Len(F) + 1 .. n
            BY <3>2, <1>2, <1>11
      <4>2. QED BY <1>5, <4>1
    <3>3. QED BY <3>1, <3>2, <1>2, <1>11
  <2>3. QED BY <2>1, <2>2
<1> DEFINE Goal(out, c) ==
      /\ Parsed(negative, I, F, d) = BigIntOf(negative, out)
      /\ RoundsBy(t, c)
      /\ Worth(out, 10) = Worth(h, 10) + c
      /\ out = <<>> <=> I = <<>> /\ d = 0 /\ c = 0
<1>15. /\ h \in Seq(Nat) /\ Len(h) = Len(I) + d /\ Len(I) \in Nat
       /\ h = <<>> <=> I = <<>> /\ d = 0
  <2>1. Len(h) = Len(I) + Len(g)
        BY <1>1, <1>6, <1>8, ConcatFacts
  <2>2. h \in Seq(Nat) /\ I \in Seq(Nat)
    <3>1. h \in Seq(0 .. 9) /\ I \in Seq(0 .. 9)
          BY <1>0, <1>1, <1>8
    <3>2. QED BY <3>1, Narrower
  <2>3. Len(h) = Len(I) + d
        BY <1>6, <2>1
  <2>4. (h = <<>> <=> Len(h) = 0) /\ (I = <<>> <=> Len(I) = 0) /\ Len(I) \in Nat
        BY <2>2
  <2>5. QED BY <2>2, <2>3, <2>4
<1>17. Parsed(negative, I, F, d) =
        IF d = 0
        THEN BigIntOf(negative, IF Round(0, f) = 1 THEN Succ(I) ELSE I)
        ELSE IF Len(f) > d
        THEN BigIntOf(negative,
                      CarriedDigits(I, SubSeq(f, 1, d - 1),
                                    Round(f[d], SubSeq(f, d + 1, Len(f))), d))
        ELSE BigIntOf(negative, I \o f \o Zeros(d - Len(f)))
      BY <1>10 DEF Parsed, ParseUnits, Longer, CarriedDigits
<1>20. ASSUME Len(f) <= d PROVE \E out \in Seq(Nat), c \in {0, 1} : Goal(out, c)
  <2>1. PICK k \in Nat : k = d - Len(f)
    <3>1. d - Len(f) \in Nat
          BY <1>11, <1>20
    <3>2. QED BY <3>1
  <2>2. PICK y \in Seq(T) : y = Zeros(k) /\ Len(y) = k /\ \A i \in 1 .. k : y[i] = 0
    <3>1. Zeros(k) \in Seq({0}) /\ Len(Zeros(k)) = k /\ \A i \in 1 .. k : Zeros(k)[i] = 0
          BY ZerosFacts
    <3>2. Zeros(k) \in Seq(T)
          BY <1>1, <3>1
    <3>3. QED BY <3>1, <3>2
  <2>3. f \o y = g
    <3>1. d = Len(f) + k
          BY <1>11, <2>1
    <3>2. ASSUME NEW i \in 1 .. Len(f) PROVE g[i] = f[i]
      <4>1. i \in 1 .. d
            BY <1>11, <1>20, <3>2
      <4>2. g[i] = G[i] /\ G[i] = f[i]
            BY <1>6, <1>12, <4>1, <3>2
      <4>3. QED BY <4>2
    <3>3. ASSUME NEW i \in 1 .. k PROVE g[Len(f) + i] = y[i]
      <4>1. Len(f) + i \in 1 .. d /\ Len(f) + i \in Len(f) + 1 .. n
            BY <1>2, <1>11, <3>1, <3>3
      <4>2. g[Len(f) + i] = G[Len(f) + i] /\ G[Len(f) + i] = 0 /\ y[i] = 0
            BY <1>6, <1>12, <2>2, <4>1, <3>3
      <4>3. QED BY <4>2
    <3>4. f \in Seq(T) /\ y \in Seq(T) /\ g \in Seq(T) /\ Len(y) = k /\ Len(g) = d
          BY <1>6, <1>10, <2>2
    <3>5. MadeUpOf(g, f, y, k)
          BY <3>1, <3>2, <3>3, <3>4, Zenon DEF MadeUpOf
    <3>6. Joins(g, f, y)
          BY <3>4, <3>5, ConcatIs, Zenon
    <3>7. QED BY <3>6, Zenon DEF Joins
  <2>4. RoundsBy(t, 0)
    <3>1. \A i \in 1 .. Len(t) : t[i] = 0
      <4> SUFFICES ASSUME NEW i \in 1 .. Len(t) PROVE t[i] = 0
          OBVIOUS
      <4>1. i \in 1 .. n - d /\ d + i \in Len(f) + 1 .. n
            BY <1>2, <1>7, <1>11, <1>20
      <4>2. QED BY <1>7, <1>12, <4>1
    <3>2. t \in Seq(0 .. 9)
          BY <1>7
    <3>3. QED BY <3>1, <3>2, ZerosRound
  <2>5. Parsed(negative, I, F, d) = BigIntOf(negative, h)
    <3>1. CASE d = 0
      <4>1. Len(f) = 0 /\ f = <<>>
            BY <1>10, <1>11, <1>20, <3>1
      <4>2. Round(0, f) = 0
            BY <4>1 DEF Round
      <4>3. g = <<>>
            BY <1>6, <3>1
      <4>4. h = I
            BY <1>1, <1>8, <4>3
      <4>5. QED BY <1>17, <3>1, <4>2, <4>4
    <3>2. CASE d # 0
      <4>1. ~(Len(f) > d)
            BY <1>11, <1>20
      <4>2. Parsed(negative, I, F, d) = BigIntOf(negative, I \o f \o Zeros(d - Len(f)))
            BY <1>17, <3>2, <4>1
      <4>3. Assoc(I, f, y)
        <5>1. I \in Seq(T) /\ f \in Seq(T) /\ y \in Seq(T)
              BY <1>1, <1>10, <2>2
        <5>2. QED BY <5>1, Associative, Zenon
      <4>4. I \o f \o y = I \o g
            BY <2>3, <4>3, Zenon DEF Assoc
      <4>5. Parsed(negative, I, F, d) = BigIntOf(negative, I \o f \o y)
            BY <2>1, <2>2, <4>2
      <4>6. QED BY <1>8, <4>4, <4>5, Zenon
    <3>3. QED BY <3>1, <3>2
  <2>6. Worth(h, 10) + 0 = Worth(h, 10)
    <3>1. Worth(h, 10) \in Nat
          BY <1>15, Tens
    <3>2. QED BY <3>1
  <2>7. Goal(h, 0)
        BY <1>15, <2>4, <2>5, <2>6
  <2>8. QED BY <1>15, <2>7
<1>18. ASSUME Len(f) > d, NEW s \in Seq(T), Len(s) = Len(f) - d,
              \A i \in 1 .. Len(f) - d : s[i] = f[d + i]
       PROVE  s # <<>> /\ \A c : RoundsBy(s, c) => RoundsBy(t, c)
  <2>1. PICK k \in Nat, j \in Nat : k = Len(f) - d /\ j = n - Len(f) /\ k > 0
    <3>1. Len(f) - d \in Nat /\ n - Len(f) \in Nat /\ Len(f) - d > 0
          BY <1>11, <1>18
    <3>2. QED BY <3>1
  <2>2. s # <<>>
    <3>1. Len(s) > 0
          BY <1>18, <2>1
    <3>2. QED BY <3>1
  <2>3. PICK y \in Seq(T) : y = Zeros(j) /\ Len(y) = j /\ \A i \in 1 .. j : y[i] = 0
    <3>1. Zeros(j) \in Seq({0}) /\ Len(Zeros(j)) = j /\ \A i \in 1 .. j : Zeros(j)[i] = 0
          BY ZerosFacts
    <3>2. Zeros(j) \in Seq(T)
          BY <1>1, <3>1
    <3>3. QED BY <3>1, <3>2
  <2>4. Len(t) = k + j /\ Len(s) = k
        BY <1>2, <1>7, <1>11, <1>18, <2>1
  <2>5. ASSUME NEW i \in 1 .. k PROVE t[i] = s[i]
    <3>1. i \in 1 .. n - d /\ d + i \in 1 .. Len(f) /\ i \in 1 .. Len(f) - d
      <4>1. PICK l \in Nat : l = Len(f) /\ l <= n /\ k = l - d
            BY <1>11, <2>1
      <4>2. i \in 1 .. n - d /\ d + i \in 1 .. l /\ i \in 1 .. l - d
            BY <4>1
      <4>3. QED BY <4>1, <4>2
    <3>2. t[i] = G[d + i] /\ G[d + i] = f[d + i] /\ s[i] = f[d + i]
          BY <1>7, <1>12, <1>18, <3>1
    <3>3. QED BY <3>2
  <2>6. ASSUME NEW i \in 1 .. j PROVE t[k + i] = y[i]
    <3>1. k + i \in 1 .. n - d /\ d + (k + i) \in Len(f) + 1 .. n
      <4>1. PICK l \in Nat : l = Len(f) /\ l <= n /\ k = l - d /\ j = n - l
            BY <1>11, <2>1
      <4>2. k + i \in 1 .. n - d /\ d + (k + i) \in l + 1 .. n
            BY <4>1, SMTT(40)
      <4>3. QED BY <4>1, <4>2
    <3>2. t[k + i] = G[d + (k + i)] /\ G[d + (k + i)] = 0 /\ y[i] = 0
          BY <1>7, <1>12, <2>3, <3>1
    <3>3. QED BY <3>2
  <2>7. s \in Seq(T) /\ y \in Seq(T) /\ t \in Seq(T) /\ Len(y) = j
        BY <1>7, <1>18, <2>3
  <2>8. MadeUpOf(t, s, y, j)
        BY <2>4, <2>5, <2>6, <2>7, Zenon DEF MadeUpOf
  <2>9. Joins(t, s, y)
        BY <2>7, <2>8, ConcatIs, Zenon
  <2>10. t = s \o Zeros(j)
         BY <2>3, <2>9, Zenon DEF Joins
  <2>11. ASSUME NEW c, RoundsBy(s, c) PROVE RoundsBy(t, c)
    <3>1. s \in Seq(0 .. 9) /\ t \in Seq(0 .. 9)
          BY <2>7
    <3>2. QED BY <2>10, <2>11, <3>1, RoundsWithZeros
  <2>12. QED BY <2>2, <2>11
<1>21. ASSUME Len(f) > d, d = 0 PROVE \E out \in Seq(Nat), c \in {0, 1} : Goal(out, c)
  <2>1. /\ f # <<>> /\ f \in Seq(0 .. 9) /\ 0 \in 0 .. 9
        /\ \A c : RoundsBy(f, c) => RoundsBy(t, c)
    <3>1. Len(f) = Len(f) - d /\ \A i \in 1 .. Len(f) - d : f[i] = f[d + i]
          BY <1>11, <1>21
    <3>2. f \in Seq(T)
          BY <1>10
    <3>3. f # <<>> /\ \A c : RoundsBy(f, c) => RoundsBy(t, c)
          BY <1>18, <1>21, <3>1, <3>2, Zenon
    <3>4. QED BY <1>0, <3>2, <3>3
  <2>2. PICK c \in {0, 1} : Round(0, f) = 0 + c /\ RoundsBy(t, c)
        BY <2>1, DigitsRounded
  <2>3. h = I
    <3>1. g = <<>>
          BY <1>6, <1>21
    <3>2. QED BY <1>1, <1>8, <3>1
  <2>9. I \in Seq(0 .. 9)
        BY <1>0, <1>1
  <2>4. Succ(I) \in Seq(0 .. 9) /\ Len(Succ(I)) >= 1 /\ Worth(Succ(I), 10) = Worth(I, 10) + 1
        BY <2>9, SuccFacts
  <2>5. Worth(I, 10) \in Nat /\ Succ(I) \in Seq(Nat) /\ Succ(I) # <<>> /\ I \in Seq(Nat)
    <3>1. Succ(I) \in Seq(Nat) /\ I \in Seq(Nat)
          BY <2>4, <2>9, Narrower
    <3>2. QED BY <2>4, <3>1, Tens
  <2>6. CASE c = 1
    <3>1. Goal(Succ(I), 1)
          BY <1>17, <1>21, <2>2, <2>3, <2>4, <2>5, <2>6
    <3>2. QED BY <2>5, <3>1
  <2>7. CASE c = 0
    <3>1. Goal(I, 0)
          BY <1>15, <1>17, <1>21, <2>2, <2>3, <2>5, <2>7
    <3>2. QED BY <2>5, <3>1
  <2>8. QED BY <2>2, <2>6, <2>7
<1>22. ASSUME Len(f) > d, d > 0 PROVE \E out \in Seq(Nat), c \in {0, 1} : Goal(out, c)
  <2>1. f \in Seq(T) /\ d > 0 /\ d < Len(f)
        BY <1>10, <1>11, <1>22
  <2>2. Around(T, f, d)
        BY <2>1, AroundElement, ZenonT(40)
  <2>3. PICK e \in Nat, left \in Seq(T), x \in T, right \in Seq(T) :
          /\ d = e + 1 /\ Len(left) = e /\ x = f[d]
          /\ left = SubSeq(f, 1, d - 1) /\ right = SubSeq(f, d + 1, Len(f))
          /\ right # <<>> /\ right[1] = f[d + 1]
          /\ \A i \in 1 .. e : left[i] = f[i]
        BY <2>2, Zenon DEF Around
  <2>5. right # <<>> /\ right \in Seq(0 .. 9) /\ \A c : RoundsBy(right, c) => RoundsBy(t, c)
    <3>1. /\ SubSeq(f, d + 1, Len(f)) \in Seq(T) /\ Len(SubSeq(f, d + 1, Len(f))) = Len(f) - d
          /\ \A i \in 1 .. Len(f) - d : SubSeq(f, d + 1, Len(f))[i] = f[d + i]
      <4>1. d \in Nat /\ d <= Len(f)
            BY <1>11, <2>1
      <4>2. QED BY <2>1, <4>1, FrontAndRest
    <3>2. /\ right \in Seq(T) /\ Len(right) = Len(f) - d
          /\ \A i \in 1 .. Len(f) - d : right[i] = f[d + i]
          BY <2>3, <3>1, Zenon
    <3>3. right # <<>> /\ \A c : RoundsBy(right, c) => RoundsBy(t, c)
          BY <1>18, <1>22, <3>2, Zenon
    <3>4. QED BY <1>0, <3>2, <3>3
  <2>6. PICK c \in {0, 1} : Round(x, right) = x + c /\ RoundsBy(t, c)
    <3>1. x \in 0 .. 9
          BY <1>0
    <3>2. QED BY <2>5, <3>1, DigitsRounded
  <2>7. Append(left, x) = g
    <3>1. ASSUME NEW i \in 1 .. e PROVE g[i] = left[i]
      <4>1. i \in 1 .. Len(f) /\ i \in 1 .. d
            BY <1>11, <1>22, <2>3
      <4>2. g[i] = G[i] /\ G[i] = f[i] /\ left[i] = f[i]
            BY <1>6, <1>12, <2>3, <4>1
      <4>3. QED BY <4>2, Zenon
    <3>2. g[e + 1] = x
      <4>1. d \in 1 .. Len(f) /\ d \in 1 .. d
            BY <1>11, <1>22
      <4>2. g[d] = G[d] /\ G[d] = f[d]
            BY <1>6, <1>12, <4>1, Zenon
      <4>3. QED BY <2>3, <4>2, Zenon
    <3>3. left \in Seq(T) /\ x \in T /\ e \in Nat /\ Len(left) = e /\ Len(g) = e + 1
          BY <1>6, <2>3, Zenon
    <3>4. Extends(g, left, x, e)
          BY <3>1, <3>2, <3>3, Zenon DEF Extends
    <3>5. Appends(g, left, x)
          BY <1>6, <3>3, <3>4, AppendIs, Zenon
    <3>6. QED BY <3>5, Zenon DEF Appends
  <2> DEFINE out == CarriedDigits(I, left, x + c, d)
  <2>8. Parsed(negative, I, F, d) = BigIntOf(negative, out)
    <3>1. d # 0
          BY <1>22
    <3>2. QED BY <1>17, <1>22, <2>3, <2>6, <3>1
  <2>9. out \in Seq(Nat) /\ out # <<>> /\ Worth(out, 10) = Worth(I \o Append(left, x), 10) + c
    <3>1. left \in Seq(0 .. 9) /\ x \in 0 .. 9 /\ d = Len(left) + 1 /\ I \in Seq(0 .. 9)
          BY <1>0, <1>1, <2>3
    <3>2. CarriesOver(I, left, x, c, d)
          BY <2>6, <3>1, Carried, ZenonT(40)
    <3>3. QED BY <3>2, Zenon DEF CarriesOver
  <2> HIDE DEF out
  <2>10. Goal(out, c)
        BY <1>8, <1>22, <2>6, <2>7, <2>8, <2>9
  <2>11. QED BY <2>6, <2>9, <2>10
<1>30. \E out \in Seq(Nat), c \in {0, 1} : Goal(out, c)
  <2>1. Len(f) <= d \/ (Len(f) > d /\ d = 0) \/ (Len(f) > d /\ d > 0)
        BY <1>11
  <2>2. QED BY <2>1, <1>20, <1>21, <1>22
<1>31. QED BY <1>0, <1>3, <1>7, <1>9, <1>30, ZenonT(40) DEF Rounds

\* What parseUnits makes of a text given by its parts, as UnitsRound says it.
RoundedTo(r, negative, I, d) ==
    IF negative /\ I = <<>> /\ d = 0 /\ r = 0 THEN Thrown ELSE IF negative THEN - r ELSE r

\* The value of a text given by its parts is rounded to r.
RoundingOf(r, I, F, d) ==
    \A n, k, m \in Nat : n = Greatest(d, Len(F)) /\ k = n - Len(F) /\ m = n - d =>
        RoundsTo(Worth(I \o F \o Zeros(k), 10), Power(10, m), r)

\* parseUnits gives that value, or throws for a minus with no digit left.
ParsedAs(r, negative, I, F, d) == Parsed(negative, I, F, d) = RoundedTo(r, negative, I, d)

\* It does for every text.
LEMMA ParsedIsRounded ==
    ASSUME NEW T, T = 0 .. 9, NEW I \in Seq(T), NEW F \in Seq(T), NEW negative,
           NEW d \in Nat
    PROVE  \E r \in Nat : RoundingOf(r, I, F, d) /\ ParsedAs(r, negative, I, F, d)
<1>1. PICK n \in Nat : n = Greatest(d, Len(F))
  <2>1. Len(F) \in Nat
        OBVIOUS
  <2>2. QED BY <2>1 DEF Greatest
<1>2. Rounds(T, negative, I, F, d, n)
      BY <1>1, ParsedDigits, Zenon
<1>3. PICK h \in Seq(T), t \in Seq(T), out \in Seq(Nat), c \in {0, 1} :
        /\ h \o t = I \o F \o Zeros(n - Len(F))
        /\ Len(t) = n - d
        /\ Parsed(negative, I, F, d) = BigIntOf(negative, out)
        /\ RoundsBy(t, c)
        /\ Worth(out, 10) = Worth(h, 10) + c
        /\ out = <<>> <=> I = <<>> /\ d = 0 /\ c = 0
      BY <1>2, Zenon DEF Rounds
<1>4. h \in Seq(Nat) /\ t \in Seq(0 .. 9)
  <2>1. h \in Seq(0 .. 9) /\ t \in Seq(0 .. 9)
        BY <1>3, Zenon
  <2>2. QED BY <2>1, Narrower, Zenon
<1>5. PICK r \in Nat : /\ r = Worth(out, 10) /\ r = Worth(h, 10) + c
                       /\ RoundsTo(Worth(h \o t, 10), Power(10, Len(t)), r)
      BY <1>3, <1>4, RoundedDigits, Zenon
<1>6. RoundingOf(r, I, F, d)
      BY <1>1, <1>3, <1>5, Zenon DEF RoundingOf
<1>7. r = 0 => c = 0
  <2>1. PICK w \in Nat : w = Worth(h, 10)
        BY <1>4, Tens, Zenon
  <2>2. r = w + c
        BY <1>5, <2>1, Zenon
  <2>3. c \in Nat
        BY <1>3
  <2>4. QED BY <2>2, <2>3
<1>8. out = <<>> => r = 0
      BY <1>5, Tens, Zenon
<1>9. out = <<>> <=> I = <<>> /\ d = 0 /\ r = 0
      BY <1>3, <1>7, <1>8, Zenon
<1>10. ParsedAs(r, negative, I, F, d)
       BY <1>3, <1>5, <1>9, Zenon DEF BigIntOf, RoundedTo, ParsedAs
<1>11. QED BY <1>6, <1>10

\* The digits of a number, with zeros in front for the decimals.
ShownAs(s, k, D, d) ==
    /\ s = Zeros(d - Len(D)) \o D /\ Len(s) = k + d
    /\ Worth(s, 10) = Worth(D, 10)
    /\ k > 0 => s = D

\* Every number has such digits.
LEMMA Displayed ==
    ASSUME NEW T, T = 0 .. 9, NEW D \in Seq(T), Len(D) >= 1, NEW d \in Nat
    PROVE  \E s \in Seq(T), k \in Nat : ShownAs(s, k, D, d)
<1>1. PICK l \in Nat : l = Len(D)
      OBVIOUS
<1>2. CASE l <= d
  <2>1. PICK j \in Nat : j = d - l
    <3>1. d - l \in Nat
          BY <1>2
    <3>2. QED BY <3>1
  <2>2. PICK z \in Seq(T) : z = Zeros(j) /\ Len(z) = j
    <3>1. Zeros(j) \in Seq({0}) /\ Len(Zeros(j)) = j
          BY ZerosFacts
    <3>2. Zeros(j) \in Seq(T)
          BY <3>1
    <3>3. QED BY <3>1, <3>2
  <2>3. PICK s \in Seq(T) : s = z \o D /\ Len(s) = Len(z) + Len(D)
        BY ConcatFacts
  <2>4. Len(s) = 0 + d
        BY <1>1, <2>1, <2>2, <2>3
  <2>5. s = Zeros(d - Len(D)) \o D
        BY <1>1, <2>1, <2>2, <2>3, Zenon
  <2>6. Worth(s, 10) = Worth(D, 10)
    <3>1. D \in Seq(Nat)
      <4>1. D \in Seq(0 .. 9)
            BY Zenon
      <4>2. QED BY <4>1, Narrower, Zenon
    <3>2. PICK b \in Nat : b = 10
          OBVIOUS
    <3>3. Worth(Zeros(j) \o D, b) = Worth(D, b)
          BY <3>1, WorthOfZeros, Zenon
    <3>4. QED BY <2>2, <2>3, <3>2, <3>3, Zenon
  <2>7. ShownAs(s, 0, D, d)
        BY <2>4, <2>5, <2>6 DEF ShownAs
  <2>8. s \in Seq(T) /\ 0 \in Nat
        BY <2>3
  <2>9. QED BY <2>7, <2>8, Zenon
<1>3. CASE l > d
  <2>1. PICK k \in Nat : k + d = l
    <3>1. l - d \in Nat /\ (l - d) + d = l
          BY <1>3
    <3>2. QED BY <3>1
  <2>2. Zeros(d - Len(D)) = <<>>
    <3>1. 1 .. d - l = 1 .. 0
          BY <1>3
    <3>2. Zeros(d - l) = Zeros(0)
          BY <3>1, Zenon DEF Zeros
    <3>3. Zeros(0) = <<>>
          BY ZerosFacts
    <3>4. QED BY <1>1, <3>2, <3>3, Zenon
  <2>3. <<>> \o D = D
        OBVIOUS
  <2>4. D = Zeros(d - Len(D)) \o D
        BY <2>2, <2>3, Zenon
  <2>5. ShownAs(D, k, D, d)
        BY <1>1, <2>1, <2>4 DEF ShownAs
  <2>6. QED BY <2>5, Zenon
<1>4. QED BY <1>1, <1>2, <1>3

\* A fraction without its last zeros, filled up again.
Filled(T, fr, d) ==
    \E f \in Seq(T), j \in Nat :
        /\ f = NoTrailingZeros(fr) /\ j = d - Len(f)
        /\ Len(f) <= d
        /\ f # <<>> => f[Len(f)] # 0
        /\ Zeros(j) \in Seq(T) /\ f \o Zeros(j) = fr

\* Every fraction has one.
LEMMA FilledUp ==
    ASSUME NEW T, T = 0 .. 9, NEW fr \in Seq(T), NEW d \in Nat, Len(fr) = d
    PROVE  Filled(T, fr, d)
<1>1. PICK f \in Seq(T) : /\ f = NoTrailingZeros(fr) /\ Len(f) <= Len(fr)
                          /\ \A i \in 1 .. Len(f) : f[i] = fr[i]
                          /\ \A i \in Len(f) + 1 .. Len(fr) : fr[i] = 0
                          /\ f # <<>> => f[Len(f)] # 0
      BY TrimEndFacts DEF NoTrailingZeros
<1>2. PICK l \in Nat : l = Len(f)
      BY <1>1
<1>3. PICK j \in Nat : j = d - l
  <2>1. d - l \in Nat
        BY <1>1, <1>2
  <2>2. QED BY <2>1
<1>4. PICK z \in Seq(T) : z = Zeros(j) /\ Len(z) = j /\ \A i \in 1 .. j : z[i] = 0
  <2>1. Zeros(j) \in Seq({0}) /\ Len(Zeros(j)) = j /\ \A i \in 1 .. j : Zeros(j)[i] = 0
        BY ZerosFacts
  <2>2. Zeros(j) \in Seq(T)
        BY <2>1
  <2>3. QED BY <2>1, <2>2
<1>5. f \o z = fr
  <2>1. d = Len(f) + j
        BY <1>2, <1>3
  <2>2. ASSUME NEW i \in 1 .. Len(f) PROVE fr[i] = f[i]
        BY <1>1
  <2>3. ASSUME NEW i \in 1 .. j PROVE fr[Len(f) + i] = z[i]
    <3>1. l + i \in l + 1 .. d
          BY <1>3
    <3>2. QED BY <1>1, <1>2, <1>4, <3>1
  <2>4. f \in Seq(T) /\ z \in Seq(T) /\ Len(z) = j
        BY <1>1, <1>4, Zenon
  <2>5. MadeUpOf(fr, f, z, j)
        BY <2>1, <2>2, <2>3, <2>4, Zenon DEF MadeUpOf
  <2>6. Joins(fr, f, z)
        BY <2>4, <2>5, ConcatIs, Zenon
  <2>7. QED BY <2>6, Zenon DEF Joins
<1>6. QED BY <1>1, <1>2, <1>3, <1>4, <1>5 DEF Filled

\* What parseUnits gives for a text, as UnitsRound says it.
ParsesRounded(text, d) ==
    \E r \in Nat :
        LET places == Greatest(d, Len(text.fraction))
        IN  /\ RoundsTo(Scaled(text, places), Power(10, places - d), r)
            /\ ParseUnits(text, d) = RoundedTo(r, text.negative, text.integer, d)

\* The size of such a result is the value it was rounded to.
LEMMA RoundedSize ==
    ASSUME NEW r \in Nat, NEW negative \in BOOLEAN, NEW I, NEW d, NEW res,
           res = RoundedTo(r, negative, I, d)
    PROVE  /\ r = IF res = Thrown THEN 0 ELSE IF negative THEN - res ELSE res
           /\ res = Thrown <=> negative /\ I = <<>> /\ d = 0 /\ r = 0
<1>1. r # Thrown /\ - r # Thrown /\ - (- r) = r
  <2>1. r \in Int /\ - r \in Int /\ - (- r) = r
        OBVIOUS
  <2>2. QED BY <2>1, NotSpecial
<1>2. CASE negative /\ I = <<>> /\ d = 0 /\ r = 0
      BY <1>2, Zenon DEF RoundedTo
<1>3. CASE ~(negative /\ I = <<>> /\ d = 0 /\ r = 0)
      BY <1>1, <1>3, Zenon DEF RoundedTo
<1>4. QED BY <1>2, <1>3

\* A decimal text: its sign and its digits.
DecimalText(text) ==
    text.negative \in BOOLEAN /\ text.integer \in Seq(0 .. 9) /\ text.fraction \in Seq(0 .. 9)

\* parseUnits rounds every text to the number of decimals.
LEMMA ParseRounds ==
    ASSUME NEW text, DecimalText(text), NEW d \in Nat
    PROVE  ParsesRounded(text, d)
<1>1. PICK T : T = 0 .. 9
      OBVIOUS
<1>2. PICK I \in Seq(T) : I = text.integer
      BY <1>1 DEF DecimalText
<1>3. PICK F \in Seq(T) : F = text.fraction
      BY <1>1 DEF DecimalText
<1>4. PICK negative \in BOOLEAN : negative = text.negative
      BY DEF DecimalText
<1>5. PICK n \in Nat : n = Greatest(d, Len(F))
      BY <1>3 DEF Greatest
<1>6. d <= n /\ Len(F) <= n /\ Len(F) \in Nat
      BY <1>3, <1>5 DEF Greatest
<1>7. PICK k \in Nat : k = n - Len(F)
  <2>1. n - Len(F) \in Nat
        BY <1>6
  <2>2. QED BY <2>1
<1>8. PICK m \in Nat : m = n - d
  <2>1. n - d \in Nat
        BY <1>6
  <2>2. QED BY <2>1
<1>9. PICK r \in Nat : RoundingOf(r, I, F, d) /\ ParsedAs(r, negative, I, F, d)
  <2>1. I \in Seq(T) /\ F \in Seq(T)
        BY <1>2, <1>3, Zenon
  <2>2. QED BY <1>1, <2>1, ParsedIsRounded, Zenon
<1>10. Parsed(negative, I, F, d) = RoundedTo(r, negative, I, d)
      BY <1>9, Zenon DEF ParsedAs
<1>11. ParseUnits(text, d) = Parsed(negative, I, F, d)
      BY <1>2, <1>3, <1>4 DEF Parsed, ParseUnits
<1>12. Scaled(text, n) = Worth(I \o F \o Zeros(k), 10)
      BY <1>2, <1>3, <1>7, Zenon DEF Scaled
<1>13. RoundsTo(Scaled(text, n), Power(10, n - d), r)
      BY <1>5, <1>7, <1>8, <1>9, <1>12, Zenon DEF RoundingOf
<1>14. n = Greatest(d, Len(text.fraction))
      BY <1>3, <1>5, Zenon
<1>15. QED BY <1>2, <1>4, <1>10, <1>11, <1>13, <1>14, Zenon DEF ParsesRounded

\* A zero in front changes nothing.
LEMMA ZeroInFront ==
    ASSUME NEW s \in Seq(0 .. 9)
    PROVE  Worth(<<0>> \o s, 10) = Worth(s, 10)
<1>1. PICK b \in Nat, z \in Nat : b = 10 /\ z = 1
      OBVIOUS
<1>2. Zeros(z) = <<0>>
  <2>1. Zeros(0) = <<>> /\ Zeros(0 + 1) = Append(Zeros(0), 0)
        BY ZerosFacts
  <2>2. Append(<<>>, 0) = <<0>> /\ 0 + 1 = 1
        OBVIOUS
  <2>3. QED BY <1>1, <2>1, <2>2, Zenon
<1>3. s \in Seq(Nat)
      BY Narrower, Zenon
<1>4. Worth(Zeros(z) \o s, b) = Worth(s, b)
      BY <1>3, WorthOfZeros, Zenon
<1>5. QED BY <1>1, <1>2, <1>4, Zenon

\* A number and its sign.
Signed(negative, a) == IF negative THEN - a ELSE a

\* parseUnits of a text given by its parts is a, with its sign.
ParsedTo(a, negative, I, F, d) == Parsed(negative, I, F, d) = Signed(negative, a)

\* A text that says a value exactly is parsed to it.
LEMMA ParsesExactly ==
    ASSUME NEW T, T = 0 .. 9, NEW I \in Seq(T), NEW F \in Seq(T), NEW negative,
           NEW d \in Nat, Len(F) <= d, NEW j \in Nat, j = d - Len(F),
           NEW a \in Nat, Worth(I \o F \o Zeros(j), 10) = a, I # <<>>
    PROVE  ParsedTo(a, negative, I, F, d)
<1>1. d = Greatest(d, Len(F))
      BY DEF Greatest
<1>2. PICK m \in Nat : m = d - d
      OBVIOUS
<1>3. Power(10, m) = 1
  <2>1. m = 0
        BY <1>2
  <2>2. QED BY <2>1, Tens, Zenon
<1>4. PICK r \in Nat : RoundingOf(r, I, F, d) /\ ParsedAs(r, negative, I, F, d)
      BY ParsedIsRounded, Zenon
<1>5. RoundsTo(a, 1, r)
      BY <1>1, <1>2, <1>3, <1>4, Zenon DEF RoundingOf
<1>6. r = a
  <2>1. PICK q \in Nat : q = Power(2, Bits - 3) /\ q > 1
    <3>1. <<>> \in Seq(0 .. 9)
          OBVIOUS
    <3>2. QED BY <3>1, RoundingFacts
  <2>2. ~(q <= 1)
        BY <2>1
  <2>3. 2 * a + 1 < 2 * 1 * (r + 1) /\ 2 * 1 * r <= 2 * a + 1
        BY <1>5, <2>1, <2>2, Zenon DEF RoundsTo
  <2>4. QED BY <2>3
<1>7. Parsed(negative, I, F, d) = RoundedTo(r, negative, I, d)
      BY <1>4, Zenon DEF ParsedAs
<1>8. QED BY <1>6, <1>7, Zenon DEF RoundedTo, Signed, ParsedTo

\* What formatUnits promises, as UnitsRound says it.
FormatsBack(text, d, value) ==
    /\ ParseUnits(text, d) = value
    /\ text.integer # <<>>
    /\ Len(text.integer) > 1 => text.integer[1] # 0
    /\ text.fraction # <<>> => text.fraction[Len(text.fraction)] # 0

\* The parts of the digits of a number before and behind the point.
Divided(T, s, k, d) ==
    \E integer \in Seq(T), fr \in Seq(T) :
        /\ integer = SubSeq(s, 1, Len(s) - d) /\ fr = SubSeq(s, Len(s) - d + 1, Len(s))
        /\ Len(integer) = k /\ Len(fr) = d
        /\ integer \o fr = s
        /\ k > 0 => integer[1] = s[1]

\* They make up the digits.
LEMMA DividedAt ==
    ASSUME NEW T, NEW s \in Seq(T), NEW k \in Nat, NEW d \in Nat, Len(s) = k + d
    PROVE  Divided(T, s, k, d)
<1>1. k <= Len(s) /\ Len(s) - d = k
      OBVIOUS
<1>2. /\ SubSeq(s, 1, k) \in Seq(T) /\ Len(SubSeq(s, 1, k)) = k
      /\ \A i \in 1 .. k : SubSeq(s, 1, k)[i] = s[i]
      /\ SubSeq(s, k + 1, Len(s)) \in Seq(T) /\ Len(SubSeq(s, k + 1, Len(s))) = Len(s) - k
      /\ SubSeq(s, 1, k) \o SubSeq(s, k + 1, Len(s)) = s
      BY <1>1, FrontAndRest
<1>3. PICK integer \in Seq(T) : integer = SubSeq(s, 1, k)
      BY <1>2, Zenon
<1>4. PICK fr \in Seq(T) : fr = SubSeq(s, k + 1, Len(s))
      BY <1>2, Zenon
<1>5. Len(integer) = k /\ integer \o fr = s /\ \A i \in 1 .. k : integer[i] = s[i]
      BY <1>2, <1>3, <1>4, Zenon
<1>6. Len(fr) = d
  <2>1. Len(fr) = Len(s) - k
        BY <1>2, <1>4, Zenon
  <2>2. QED BY <2>1
<1>7. k > 0 => integer[1] = s[1]
  <2>1. k > 0 => 1 \in 1 .. k
        OBVIOUS
  <2>2. QED BY <1>5, <2>1, Zenon
<1>8. integer = SubSeq(s, 1, Len(s) - d) /\ fr = SubSeq(s, Len(s) - d + 1, Len(s))
      BY <1>1, <1>3, <1>4, Zenon
<1>9. QED BY <1>5, <1>6, <1>7, <1>8, Zenon DEF Divided

\* formatUnits gives the shortest text that parses back.
LEMMA FormatRounds ==
    ASSUME NEW value \in Int, NEW d \in Nat
    PROVE  FormatsBack(FormatUnits(value, d), d, value)
<1>1. PICK T : T = 0 .. 9
      OBVIOUS
<1>2. PICK a \in Nat : a = IF value < 0 THEN - value ELSE value
  <2>1. (IF value < 0 THEN - value ELSE value) \in Nat
        OBVIOUS
  <2>2. QED BY <2>1
<1>3. PICK D \in Seq(T) : /\ D = Digits(a, 10) /\ Len(D) >= 1 /\ Worth(D, 10) = a
                          /\ Len(D) > 1 => D[1] # 0
  <2>1. PICK b \in Nat : b = 10
        OBVIOUS
  <2>2. b > 1 /\ 0 .. b - 1 = T
        BY <1>1, <2>1
  <2>3. /\ Digits(a, b) \in Seq(0 .. b - 1) /\ Len(Digits(a, b)) >= 1
        /\ Worth(Digits(a, b), b) = a
        /\ Len(Digits(a, b)) > 1 => Digits(a, b)[1] # 0
        BY <2>2, DigitsFacts
  <2>4. QED BY <2>1, <2>2, <2>3, Zenon
<1>4. PICK s \in Seq(T), k \in Nat : ShownAs(s, k, D, d)
      BY <1>1, <1>3, Displayed, Zenon
<1>5. /\ s = Zeros(d - Len(D)) \o D /\ Len(s) = k + d /\ Worth(s, 10) = a
      /\ k > 0 => s = D
      BY <1>3, <1>4, Zenon DEF ShownAs
<1>6. Divided(T, s, k, d)
  <2>1. s \in Seq(T) /\ k \in Nat /\ Len(s) = k + d
        BY <1>4, <1>5, Zenon
  <2>2. QED BY <2>1, DividedAt, Zenon
<1>7. PICK integer \in Seq(T), fr \in Seq(T) :
        /\ integer = SubSeq(s, 1, Len(s) - d) /\ fr = SubSeq(s, Len(s) - d + 1, Len(s))
        /\ Len(integer) = k /\ Len(fr) = d
        /\ integer \o fr = s
        /\ k > 0 => integer[1] = s[1]
      BY <1>6, Zenon DEF Divided
<1>8. Filled(T, fr, d)
      BY <1>1, <1>7, FilledUp, Zenon
<1>9. PICK f \in Seq(T), j \in Nat :
        /\ f = NoTrailingZeros(fr) /\ j = d - Len(f)
        /\ Len(f) <= d
        /\ f # <<>> => f[Len(f)] # 0
        /\ Zeros(j) \in Seq(T) /\ f \o Zeros(j) = fr
      BY <1>8, Zenon DEF Filled
<1>10. PICK I \in Seq(T) : I = IF integer = <<>> THEN <<0>> ELSE integer
  <2>1. integer \in Seq(T)
        BY <1>7, Zenon
  <2>2. <<0>> \in Seq(T)
        BY <1>1
  <2>3. QED BY <2>1, <2>2, Zenon
<1>11. PICK negative \in BOOLEAN : negative = (value < 0)
  <2>1. (value < 0) \in BOOLEAN
        OBVIOUS
  <2>2. QED BY <2>1, Zenon
<1>12. FormatUnits(value, d) = [negative |-> negative, integer |-> I, fraction |-> f]
      BY <1>2, <1>3, <1>5, <1>7, <1>9, <1>10, <1>11, ZenonT(60) DEF FormatUnits
<1>13. (integer = <<>> <=> k = 0) /\ (k > 1 => integer # <<>>) /\ k \in Nat
  <2>1. integer \in Seq(T) /\ Len(integer) = k /\ k \in Nat
        BY <1>4, <1>7, Zenon
  <2>2. QED BY <2>1
<1>14. I # <<>>
  <2>1. <<0>> # <<>>
        OBVIOUS
  <2>2. QED BY <1>10, <2>1, Zenon
<1>15. Worth(I \o fr, 10) = a
  <2>1. CASE integer = <<>>
    <3>1. <<>> \o fr = fr
          BY <1>7
    <3>2. s = fr
          BY <1>7, <2>1, <3>1, Zenon
    <3>3. fr \in Seq(0 .. 9)
          BY <1>1, <1>7, Zenon
    <3>4. Worth(<<0>> \o fr, 10) = Worth(fr, 10)
          BY <3>3, ZeroInFront, Zenon
    <3>5. QED BY <1>5, <1>10, <2>1, <3>2, <3>4, Zenon
  <2>2. CASE integer # <<>>
        BY <1>5, <1>7, <1>10, <2>2, Zenon
  <2>3. QED BY <2>1, <2>2, Zenon
<1>16. Worth(I \o f \o Zeros(j), 10) = a
  <2>1. I \in Seq(T) /\ f \in Seq(T) /\ Zeros(j) \in Seq(T)
        BY <1>9, <1>10, Zenon
  <2>2. Assoc(I, f, Zeros(j))
        BY <2>1, Associative, Zenon
  <2>3. I \o f \o Zeros(j) = I \o fr
        BY <1>9, <2>2, Zenon DEF Assoc
  <2>4. QED BY <1>15, <2>3, Zenon
<1>17. Parsed(negative, I, f, d) = Signed(negative, a)
  <2>1. I \in Seq(T) /\ f \in Seq(T) /\ j \in Nat /\ a \in Nat
        BY <1>2, <1>9, <1>10, Zenon
  <2>2. Len(f) <= d /\ j = d - Len(f)
        BY <1>9, Zenon
  <2>3. ParsedTo(a, negative, I, f, d)
        BY <1>1, <1>14, <1>16, <2>1, <2>2, ParsesExactly, Zenon
  <2>4. QED BY <2>3, Zenon DEF ParsedTo
<1>18. Signed(negative, a) = value
  <2>1. CASE value < 0
    <3>1. - (- value) = value
          OBVIOUS
    <3>2. QED BY <1>2, <1>11, <2>1, <3>1, Zenon DEF Signed
  <2>2. CASE ~(value < 0)
        BY <1>2, <1>11, <2>2, Zenon DEF Signed
  <2>3. QED BY <2>1, <2>2, Zenon
<1>19. ParseUnits(FormatUnits(value, d), d) = value
      BY <1>12, <1>17, <1>18, Zenon DEF Parsed
<1>20. Len(I) > 1 => I[1] # 0
  <2>1. CASE integer = <<>>
    <3>1. I = <<0>>
          BY <1>10, <2>1, Zenon
    <3>2. Len(<<0>>) = 1
          OBVIOUS
    <3>3. Len(I) = 1
          BY <3>1, <3>2, Zenon
    <3>4. QED BY <3>3
  <2>2. CASE integer # <<>>
    <3>1. I = integer /\ Len(I) = k
          BY <1>7, <1>10, <2>2, Zenon
    <3>2. SUFFICES ASSUME k > 1 PROVE I[1] # 0
          BY <3>1, Zenon
    <3>3. k > 0 /\ k + d > 1
          BY <1>13, <3>2
    <3>4. s = D /\ Len(s) = k + d /\ I[1] = s[1]
          BY <1>5, <1>7, <3>1, <3>3, Zenon
    <3>5. QED BY <1>3, <3>3, <3>4, Zenon
  <2>3. QED BY <2>1, <2>2, Zenon
<1>21. PICK text : text = FormatUnits(value, d)
      BY Zenon
<1>22. text.integer = I /\ text.fraction = f
      BY <1>12, <1>21
<1>23. QED BY <1>9, <1>14, <1>19, <1>20, <1>21, <1>22, Zenon DEF FormatsBack

\* The kinds of the calls of the providers' clients.
LEMMA ProviderCalls ==
    ASSUME CallProvider \/ CheckFleet \/ DelegateExecution \/ CaptureEvidence \/ SearchProofs
    PROVE  task'.kind \in {"provider", "fleet", "delegated", "evidence", "search"}
<1>1. ASSUME CallProvider PROVE task'.kind = "provider"
      BY <1>1 DEF CallProvider, Call
<1>2. ASSUME CheckFleet PROVE task'.kind = "fleet"
      BY <1>2 DEF CheckFleet, Call
<1>3. ASSUME DelegateExecution PROVE task'.kind = "delegated"
      BY <1>3 DEF DelegateExecution, Call
<1>4. ASSUME CaptureEvidence PROVE task'.kind = "evidence"
      BY <1>4 DEF CaptureEvidence, Call
<1>5. ASSUME SearchProofs PROVE task'.kind = "search"
      BY <1>5 DEF SearchProofs, Call
<1>6. QED BY <1>1, <1>2, <1>3, <1>4, <1>5

\* UnitsRound is about no other call.
LEMMA OtherThanUnits ==
    ASSUME task'.kind \notin {"parse", "format"}
    PROVE  UnitsRound'
BY DEF UnitsRound, Calling

\* Every call keeps UnitsRound.
LEMMA UnitsCalls ==
    ASSUME Next
    PROVE  UnitsRound'
<1>1. ASSUME Return PROVE UnitsRound'
      BY <1>1 DEF Return, UnitsRound, Calling
<1>2. ASSUME ParseDecimal PROVE UnitsRound'
  <2>1. PICK text \in UnitTexts, d \in Decimals :
          /\ task' = [kind |-> "parse", value |-> text, decimals |-> d]
          /\ result' = ParseUnits(text, d)
        BY <1>2 DEF ParseDecimal, Call
  <2>2. task'.kind = "parse" /\ task'.value = text /\ task'.decimals = d
        BY <2>1
  <2>3. ParsesRounded(text, d)
    <3>1. DecimalText(text) /\ d \in Nat
          BY InputsAssumption DEF DecimalText
    <3>2. QED BY <3>1, ParseRounds, Zenon
  <2>4. PICK r \in Nat :
          /\ RoundsTo(Scaled(text, Greatest(d, Len(text.fraction))),
                      Power(10, Greatest(d, Len(text.fraction)) - d), r)
          /\ result' = RoundedTo(r, text.negative, text.integer, d)
        BY <2>1, <2>3, Zenon DEF ParsesRounded
  <2>5. /\ r = IF result' = Thrown THEN 0 ELSE IF text.negative THEN - result' ELSE result'
        /\ result' = Thrown <=> text.negative /\ text.integer = <<>> /\ d = 0 /\ r = 0
    <3>1. PICK res : res = result'
          OBVIOUS
    <3>2. PICK negative \in BOOLEAN : negative = text.negative
          BY InputsAssumption
    <3>3. res = RoundedTo(r, negative, text.integer, d)
          BY <2>4, <3>1, <3>2, Zenon
    <3>4. /\ r = IF res = Thrown THEN 0 ELSE IF negative THEN - res ELSE res
          /\ res = Thrown <=> negative /\ text.integer = <<>> /\ d = 0 /\ r = 0
      <4>1. PICK I : I = text.integer
            OBVIOUS
      <4>2. res = RoundedTo(r, negative, I, d)
            BY <3>3, <4>1, Zenon
      <4>3. r = (IF res = Thrown THEN 0 ELSE IF negative THEN - res ELSE res)
            BY <2>4, <3>2, <4>2, RoundedSize
      <4>4. res = Thrown <=> negative /\ I = <<>> /\ d = 0 /\ r = 0
            BY <2>4, <3>2, <4>2, RoundedSize
      <4>5. QED BY <4>1, <4>3, <4>4, Zenon
    <3>5. QED BY <3>1, <3>2, <3>4, Zenon
  <2>6. task'.kind # "format"
        BY <2>2
  <2>7. QED BY <2>2, <2>4, <2>5, <2>6, Zenon DEF UnitsRound, Calling
<1>3. ASSUME FormatDecimal PROVE UnitsRound'
  <2>1. PICK n \in UnitValues, d \in Decimals :
          /\ task' = [kind |-> "format", value |-> n, decimals |-> d]
          /\ result' = FormatUnits(n, d)
        BY <1>3 DEF FormatDecimal, Call
  <2>2. task'.kind = "format" /\ task'.value = n /\ task'.decimals = d
        BY <2>1
  <2>3. FormatsBack(result', d, n)
    <3>1. n \in Int /\ d \in Nat
          BY InputsAssumption
    <3>2. QED BY <2>1, <3>1, FormatRounds, Zenon
  <2>4. QED BY <2>2, <2>3 DEF UnitsRound, Calling, FormatsBack
<1>4. ASSUME ConvertNumber \/ ConvertBytes \/ ConvertHex \/ ConvertBool \/ ConvertText
             \/ TrimValue \/ SliceValue
      PROVE  UnitsRound'
  <2>1. task'.kind \in {"number", "bytes", "hex", "bool", "text", "trim", "trimBytes", "slice"}
        BY <1>4 DEF ConvertNumber, ConvertBytes, ConvertHex, ConvertBool, ConvertText, TrimValue,
                    SliceValue, Call
  <2>2. QED BY <2>1, OtherThanUnits
<1>5. ASSUME SerializeParameters \/ SerializeOverrides \/ ParseAnswer \/ CallProvider \/ CheckFleet
             \/ DelegateExecution \/ CaptureEvidence \/ SearchProofs
      PROVE  UnitsRound'
  <2>1. ASSUME SerializeParameters PROVE UnitsRound'
    <3>1. task'.kind = "parameters"
          BY <2>1 DEF SerializeParameters, Call
    <3>2. QED BY <3>1, OtherThanUnits
  <2>2. ASSUME SerializeOverrides PROVE UnitsRound'
    <3>1. task'.kind = "overrides"
          BY <2>2 DEF SerializeOverrides, Call
    <3>2. QED BY <3>1, OtherThanUnits
  <2>3. ASSUME ParseAnswer PROVE UnitsRound'
    <3>1. task'.kind = "answer"
          BY <2>3 DEF ParseAnswer, Call
    <3>2. QED BY <3>1, OtherThanUnits
  <2>4. ASSUME CallProvider \/ CheckFleet \/ DelegateExecution \/ CaptureEvidence \/ SearchProofs
        PROVE  UnitsRound'
        BY <2>4, ProviderCalls, OtherThanUnits
  <2>5. QED BY <1>5, <2>1, <2>2, <2>3, <2>4
<1>6. QED BY <1>1, <1>2, <1>3, <1>4, <1>5 DEF Next

\* parseUnits rounds every decimal text half away from zero to every number of decimals, up to
\* the precision of a double of any number of bits, with the carry into each digit it concerns,
\* and throws only for a minus with no digit left; formatUnits gives the shortest text that parses back to the value (utils/unit).
THEOREM UnitsAreRounded == Spec => []UnitsRound
<1>1. Init => UnitsRound
      BY DEF Init, UnitsRound, Calling
<1>2. UnitsRound /\ [Next]_vars => UnitsRound'
  <2>1. ASSUME UnitsRound, UNCHANGED vars
        PROVE  UnitsRound'
    <3>1. task' = task /\ result' = result
          BY <2>1 DEF vars
    <3>2. QED BY <2>1, <3>1 DEF UnitsRound, Calling
  <2>2. QED BY <2>1, UnitsCalls
<1>3. QED BY <1>1, <1>2, PTL DEF Spec

-----------------------------------------------------------------------------
\* The formats of parameters: a field that is there when it is truthy is no quantity, so that
\* it is there whenever it is given.
ParameterMade(made) ==
    /\ made.form \in {"plain", "quantity", "account", "block"}
    /\ made.when \in {"always", "defined", "truthy"}
    /\ made.when = "truthy" => made.form # "quantity"

ParameterFormat(format) == \A n \in DOMAIN format : ParameterMade(format[n])

\* The formats of answers: a field keeps its name, and one that may be missing is no quantity.
AnswerMade(made, n) ==
    /\ made.of = n
    /\ made.form \in {"plain", "quantity", "quantity?", "account", "quantities", "rows"}
    /\ made.when \in {"always", "truthy"}
    /\ made.when = "truthy" => made.form \notin {"quantity", "quantity?"}

AnswerFormat(format) == \A n \in DOMAIN format : AnswerMade(format[n], n)

\* Formats of parameters make one together.
LEMMA ParameterFormatsJoin ==
    ASSUME NEW f, NEW g, ParameterFormat(f), ParameterFormat(g)
    PROVE  ParameterFormat(f ++ g)
BY DEF ParameterFormat, ++

\* Formats of answers make one together.
LEMMA AnswerFormatsJoin ==
    ASSUME NEW f, NEW g, AnswerFormat(f), AnswerFormat(g)
    PROVE  AnswerFormat(f ++ g)
BY DEF AnswerFormat, ++

\* Fields of one form make a format of parameters.
LEMMA ParameterFields ==
    ASSUME NEW form \in {"plain", "quantity", "account", "block"}, NEW names
    PROVE  /\ ParameterFormat(Always(form, names)) /\ ParameterFormat(IfDefined(form, names))
           /\ form # "quantity" => ParameterFormat(IfTruthy(form, names))
BY DEF ParameterFormat, ParameterMade, Always, IfDefined, IfTruthy, Made

\* A field made of one of another name is a format of parameters.
LEMMA ParameterField ==
    ASSUME NEW form \in {"plain", "quantity", "account", "block"}, NEW n, NEW name,
           NEW when \in {"always", "defined"}
    PROVE  ParameterFormat(Renamed(n, Made(when, form, name)))
BY DEF ParameterFormat, ParameterMade, Made, Renamed

\* Fields of one form make a format of answers.
LEMMA AnswerFields ==
    ASSUME NEW form \in {"plain", "quantity", "quantity?", "account", "quantities", "rows"}, NEW names
    PROVE  /\ AnswerFormat(Always(form, names))
           /\ form \notin {"quantity", "quantity?"} => AnswerFormat(IfTruthy(form, names))
BY DEF AnswerFormat, AnswerMade, Always, IfTruthy, Made

\* All the formats of serialize* are formats of parameters.
LEMMA SerializeFormatsAre ==
    \A format \in SerializeFormats : ParameterFormat(format)
<1> USE ParameterFormatsJoin, ParameterFields, ParameterField
<1>1. ParameterFormat(RpcTransactionRequest)
      BY DEF RpcTransactionRequest
<1>2. ParameterFormat(LeaseDeploy)
      BY DEF LeaseDeploy
<1>3. ParameterFormat(PrivTransfer) /\ ParameterFormat(PrivShield) /\ ParameterFormat(PrivUnshield)
      BY DEF PrivTransfer, PrivShield, PrivUnshield
<1>4. ParameterFormat(LeaseClose) /\ ParameterFormat(LeaseRenew)
      BY DEF LeaseClose, LeaseRenew
<1>5. /\ ParameterFormat(DisclosureProof) /\ ParameterFormat(VerifyDisclosure)
      /\ ParameterFormat(DecryptionToken)
      BY DEF DisclosureProof, VerifyDisclosure, DecryptionToken
<1>6. ParameterFormat(OverrideAccount)
      BY DEF OverrideAccount
<1>7. ParameterFormat(Maintenance) /\ ParameterFormat(Evidence) /\ ParameterFormat(SetSigner)
      BY DEF Maintenance, Evidence, SetSigner
<1>8. ParameterFormat(AgentPublish) /\ ParameterFormat(AgentPublishSuggested)
      BY DEF AgentPublish, AgentPublishSuggested
<1>9. ParameterFormat(SystemAction)
      BY DEF SystemAction
<1> QED
    BY <1>1, <1>2, <1>3, <1>4, <1>5, <1>6, <1>7, <1>8, <1>9 DEF SerializeFormats

\* All the formats of parse* are formats of answers.
LEMMA ParseFormatsAre ==
    \A format \in ParseFormats : AnswerFormat(format)
<1> USE AnswerFormatsJoin, AnswerFields
<1>1. AnswerFormat(LeaseRecord)
      BY DEF LeaseRecord
<1>2. AnswerFormat(CodeObjectMeta) /\ AnswerFormat(CodeObject)
      BY DEF CodeObjectMeta, CodeObject
<1>3. AnswerFormat(PrivBalanceRecord)
      BY DEF PrivBalanceRecord
<1>4. AnswerFormat(FeeHistory)
      BY DEF FeeHistory
<1>5. AnswerFormat(BuiltTransaction) /\ AnswerFormat(BuiltTxResult)
      BY DEF BuiltTransaction, BuiltTxResult
<1> QED
    BY <1>1, <1>2, <1>3, <1>4, <1>5 DEF ParseFormats

-----------------------------------------------------------------------------
\* An address has the length of a word, and its lower case is the address again.
LEMMA LowerCaseFacts ==
    ASSUME NEW a \in Seq(0 .. 31)
    PROVE  LowerCase(a) \in Seq(Nat) /\ Len(LowerCase(a)) = Len(a)
<1>1. DOMAIN a = 1 .. Len(a) /\ Len(a) \in Nat
      BY LenProperties
<1>2. \A i \in 1 .. Len(a) : a[i] \in 0 .. 31
      BY ElementOfSeq
<1>3. LowerCase(a) = [i \in 1 .. Len(a) |-> IF a[i] > 15 THEN a[i] - 16 ELSE a[i]]
      BY <1>1 DEF LowerCase
<1>4. \A i \in 1 .. Len(a) : (IF a[i] > 15 THEN a[i] - 16 ELSE a[i]) \in Nat
  <2>1. \A x \in 0 .. 31 : (IF x > 15 THEN x - 16 ELSE x) \in Nat
        OBVIOUS
  <2>2. QED BY <1>2, <2>1
<1>5. QED BY <1>1, <1>3, <1>4

\* getAddress gives the lower case of what is as long as a word, and throws otherwise.
LEMMA AddressIsRead ==
    ASSUME NEW a \in Seq(0 .. 31)
    PROVE  /\ GetAddress(a) = IF Len(a) = 2 * Word THEN LowerCase(a) ELSE Thrown
           /\ LowerCase(a) # Thrown
<1>1. a \in Seq(Nat)
  <2>1. 0 .. 31 \subseteq Nat
        OBVIOUS
  <2>2. QED BY <2>1, SeqMonotonic
<1>2. a \notin {Undefined, Null}
      BY <1>1, NotSpecial
<1>3. LowerCase(a) # Thrown
      BY LowerCaseFacts, NotSpecial
<1>4. QED BY <1>2, <1>3 DEF GetAddress

\* A quantity is written as its digits, and refused when it is negative.
LEMMA QuantityIsSaid ==
    ASSUME NEW value \in Int
    PROVE  /\ Quantity(value) = IF value >= 0 THEN Digits(value, 16) ELSE Thrown
           /\ value >= 0 => Digits(value, 16) # Thrown
<1>1. value # Undefined /\ ~Given(Undefined)
      BY NotSpecial
<1>2. MaxValue(TRUE, FALSE, Undefined) = Undefined
      BY <1>1 DEF MaxValue
<1>3. Quantity(value) = IF value < 0 THEN Thrown ELSE Digits(value, 16)
      BY <1>1, <1>2 DEF Quantity, NumberToHex, Sized
<1>4. value >= 0 => Digits(value, 16) # Thrown
      BY HexDigits, NotSpecial
<1>5. QED BY <1>3, <1>4

WrittenAsSaid(form, value) ==
    /\ Written(form, value) = IF FitsForm(form, value) THEN SaidBy(form, value) ELSE Thrown
    /\ FitsForm(form, value) => SaidBy(form, value) # Thrown

\* Every form of a parameter is written as the node should read it, or refused.
LEMMA FormsAreSaid ==
    ASSUME NEW form \in {"plain", "quantity", "account", "block"}, NEW value, OfForm(form, value)
    PROVE  WrittenAsSaid(form, value)
<1>1. CASE form = "plain"
      BY <1>1 DEF WrittenAsSaid, Written, SaidBy, FitsForm, OfForm
<1>2. CASE form = "quantity"
      BY <1>2, QuantityIsSaid DEF WrittenAsSaid, Written, SaidBy, FitsForm, OfForm
<1>3. CASE form = "account"
      BY <1>3, AddressIsRead DEF WrittenAsSaid, Written, SaidBy, FitsForm, OfForm
<1>4. CASE form = "block"
  <2>1. CASE DOMAIN value = {"number"}
        BY <1>4, <2>1, QuantityIsSaid DEF WrittenAsSaid, Written, Block, SaidBy, FitsForm, OfForm
  <2>2. CASE DOMAIN value # {"number"}
        BY <1>4, <2>2 DEF WrittenAsSaid, Written, Block, SaidBy, FitsForm, OfForm
  <2>3. QED BY <2>1, <2>2
<1>5. QED BY <1>1, <1>2, <1>3, <1>4

SerializedAs(format, p) ==
    SerializeFields(format, p) = IF Unfit(format, p) THEN Thrown ELSE Expected(format, p)

\* The fields that are written are those that are given.
LEMMA ParametersAreSaid ==
    ASSUME NEW format, NEW p, ParameterFormat(format), TypedParameters(format, p)
    PROVE  SerializedAs(format, p)
<1> DEFINE there == {n \in DOMAIN format : IsThere(format[n], p[format[n].of])}
           out == [n \in there |-> Written(format[n].form, p[format[n].of])]
<1>1. ASSUME NEW n \in DOMAIN format
      PROVE  /\ IsThere(format[n], p[format[n].of]) <=> p[format[n].of] # Undefined
             /\ p[format[n].of] # Undefined => WrittenAsSaid(format[n].form, p[format[n].of])
  <2>1. ParameterMade(format[n])
        BY DEF ParameterFormat
  <2>2. PICK value : value = p[format[n].of]
        OBVIOUS
  <2>3. IF value = Undefined THEN format[n].when # "always" ELSE OfForm(format[n].form, value)
        BY <2>2 DEF TypedParameters
  <2>4. value # Undefined => value \notin {Undefined, Null} /\ OfForm(format[n].form, value)
        BY <2>3 DEF OfForm
  <2>5. IsThere(format[n], value) <=> value # Undefined
        BY <2>1, <2>3, <2>4 DEF IsThere, Truthy, ParameterMade
  <2>6. value # Undefined => WrittenAsSaid(format[n].form, value)
        BY <2>1, <2>4, FormsAreSaid DEF ParameterMade
  <2>7. QED BY <2>2, <2>5, <2>6
<1>2. there = GivenFields(format, p)
      BY <1>1 DEF GivenFields
<1>3. DOMAIN out = GivenFields(format, p)
      BY <1>2
<1>4. \A n \in GivenFields(format, p) : out[n] = Written(format[n].form, p[format[n].of])
      BY <1>2
<1>5. \A n \in GivenFields(format, p) : WrittenAsSaid(format[n].form, p[format[n].of])
      BY <1>1 DEF GivenFields
<1>6. SerializeFields(format, p) = Throwing(out)
      BY DEF SerializeFields
<1> HIDE DEF there, out
<1>7. CASE Unfit(format, p)
  <2>1. PICK n \in GivenFields(format, p) : ~FitsForm(format[n].form, p[format[n].of])
        BY <1>7 DEF Unfit
  <2>2. out[n] = Thrown
        BY <1>4, <1>5, <2>1 DEF WrittenAsSaid
  <2>3. Throwing(out) = Thrown
        BY <1>3, <2>2 DEF Throwing
  <2>4. QED BY <1>6, <1>7, <2>3 DEF SerializedAs
<1>8. CASE ~Unfit(format, p)
  <2>1. \A n \in GivenFields(format, p) :
           /\ out[n] = SaidBy(format[n].form, p[format[n].of])
           /\ out[n] # Thrown
        BY <1>4, <1>5, <1>8 DEF Unfit, WrittenAsSaid
  <2>2. Throwing(out) = out
        BY <1>3, <2>1 DEF Throwing
  <2>3. out = [n \in DOMAIN out |-> out[n]]
        BY DEF out
  <2>4. out = Expected(format, p)
        BY <1>3, <2>1, <2>3 DEF Expected
  <2>5. QED BY <1>6, <1>8, <2>2, <2>4 DEF SerializedAs
<1>9. QED BY <1>7, <1>8

-----------------------------------------------------------------------------
\* Every set of numbers up to a bound has a greatest one.
LEMMA GreatestNumber ==
    ASSUME NEW n \in Nat, NEW S, S \subseteq 1 .. n, S # {}
    PROVE  \E i \in S : \A j \in S : j <= i
<1> DEFINE rest == {n - i : i \in S}
<1>1. rest \subseteq Nat /\ rest # {}
  <2>1. \A i \in 1 .. n : n - i \in Nat
        OBVIOUS
  <2>2. QED BY <2>1
<1>2. PICK r \in rest : \A q \in rest : r <= q
      BY <1>1, LeastNumber
<1>3. PICK i \in S : r = n - i
      BY <1>2
<1>4. ASSUME NEW j \in S PROVE j <= i
  <2>1. n - j \in rest
        OBVIOUS
  <2>2. n - i <= n - j
        BY <1>2, <1>3, <2>1
  <2>3. i \in Int /\ j \in Int
        OBVIOUS
  <2>4. QED BY <2>2, <2>3
<1>5. QED BY <1>4

OverridesReadBack(o, out) ==
    LET Of(address) == {i \in DOMAIN o : LowerCase(o[i][1]) = address}
    IN  IF \E i \in DOMAIN o : Len(o[i][1]) # 2 * Word \/ Unfit(OverrideAccount, o[i][2])
        THEN out = Thrown
        ELSE /\ DOMAIN out = {LowerCase(o[i][1]) : i \in DOMAIN o}
             /\ \A a \in DOMAIN out : \E i \in Of(a) : out[a] = Expected(OverrideAccount, o[i][2])

\* Of the spellings of an address the latest has a number, and its override is the one sent.
LEMMA OverridesAreSaid ==
    ASSUME NEW o \in Overrides
    PROVE  OverridesReadBack(o, SerializeOverrideMap(o))
<1> DEFINE Key(i) == GetAddress(o[i][1])
           Spelt(address) == {i \in DOMAIN o : Key(i) = address}
           Latest(address) == CHOOSE i \in Spelt(address) : \A j \in Spelt(address) : j <= i
           out == [a \in {Key(i) : i \in DOMAIN o} |->
                     SerializeFields(OverrideAccount, o[Latest(a)][2])]
           refused == \E i \in DOMAIN o :
                        Key(i) = Thrown \/ SerializeFields(OverrideAccount, o[i][2]) = Thrown
<1>1. SerializeOverrideMap(o) = IF refused THEN Thrown ELSE out
      BY DEF SerializeOverrideMap
<1>2. Len(o) \in Nat /\ DOMAIN o = 1 .. Len(o)
      BY FieldsAssumption
<1>3. ASSUME NEW i \in DOMAIN o
      PROVE  /\ Key(i) = IF Len(o[i][1]) = 2 * Word THEN LowerCase(o[i][1]) ELSE Thrown
             /\ LowerCase(o[i][1]) # Thrown
             /\ SerializeFields(OverrideAccount, o[i][2]) =
                  IF Unfit(OverrideAccount, o[i][2]) THEN Thrown
                  ELSE Expected(OverrideAccount, o[i][2])
             /\ Unfit(OverrideAccount, o[i][2]) \/ Expected(OverrideAccount, o[i][2]) # Thrown
  <2>1. /\ o[i][1] \in Seq(0 .. 31) /\ TypedParameters(OverrideAccount, o[i][2])
        /\ Unfit(OverrideAccount, o[i][2]) \/ Expected(OverrideAccount, o[i][2]) # Thrown
        BY FieldsAssumption
  <2>2. ParameterFormat(OverrideAccount)
        BY SerializeFormatsAre DEF SerializeFormats
  <2>3. SerializedAs(OverrideAccount, o[i][2])
        BY <2>1, <2>2, ParametersAreSaid
  <2>4. QED BY <2>1, <2>3, AddressIsRead DEF SerializedAs
<1>4. refused <=> \E i \in DOMAIN o :
                    Len(o[i][1]) # 2 * Word \/ Unfit(OverrideAccount, o[i][2])
      BY <1>3
<1>5. CASE refused
      BY <1>1, <1>4, <1>5 DEF OverridesReadBack
<1>6. CASE ~refused
  <2>1. \A i \in DOMAIN o : /\ Key(i) = LowerCase(o[i][1])
                            /\ SerializeFields(OverrideAccount, o[i][2])
                                 = Expected(OverrideAccount, o[i][2])
        BY <1>3, <1>4, <1>6
  <2>2. DOMAIN out = {LowerCase(o[i][1]) : i \in DOMAIN o}
        BY <2>1
  <2>3. ASSUME NEW a \in DOMAIN out
        PROVE  \E i \in {i \in DOMAIN o : LowerCase(o[i][1]) = a} :
                  out[a] = Expected(OverrideAccount, o[i][2])
    <3>1. Spelt(a) \subseteq 1 .. Len(o) /\ Spelt(a) # {}
          BY <1>2
    <3>2. Latest(a) \in Spelt(a)
      <4>1. \E i \in Spelt(a) : \A j \in Spelt(a) : j <= i
            BY <1>2, <3>1, GreatestNumber
      <4>2. QED BY <4>1
    <3>3. out[a] = SerializeFields(OverrideAccount, o[Latest(a)][2])
          OBVIOUS
    <3>4. QED BY <2>1, <3>2, <3>3
  <2>4. PICK sent : sent = SerializeOverrideMap(o) /\ sent = out
        BY <1>1, <1>6
  <2>5. ~ \E i \in DOMAIN o : Len(o[i][1]) # 2 * Word \/ Unfit(OverrideAccount, o[i][2])
        BY <1>4, <1>6
  <2> HIDE DEF out
  <2>6. DOMAIN sent = {LowerCase(o[i][1]) : i \in DOMAIN o}
        BY <2>2, <2>4
  <2>7. \A a \in DOMAIN sent : \E i \in {i \in DOMAIN o : LowerCase(o[i][1]) = a} :
           sent[a] = Expected(OverrideAccount, o[i][2])
        BY <2>3, <2>4
  <2>8. OverridesReadBack(o, sent)
        BY <2>5, <2>6, <2>7 DEF OverridesReadBack
  <2>9. QED BY <2>4, <2>8
<1>7. QED BY <1>5, <1>6

-----------------------------------------------------------------------------
RowOf(row) == [i \in DOMAIN row |-> Digits(row[i], 16)]

\* parseRpcQuantity reads the number that was written.
LEMMA QuantityIsRead ==
    ASSUME NEW n \in Nat
    PROVE  /\ Digits(n, 16) \in Seq(Nat) /\ Digits(n, 16) \notin {Undefined, Null, <<>>}
           /\ ParseRpcQuantity(Digits(n, 16)) = n
<1>1. /\ Digits(n, 16) \in Seq(Nat) /\ Digits(n, 16) # <<>>
      /\ Worth(Digits(n, 16), 16) = n
      BY HexDigits
<1>2. Digits(n, 16) \notin {Undefined, Null, <<>>}
      BY <1>1, NotSpecial
<1>3. QED BY <1>1, <1>2 DEF ParseRpcQuantity

\* A row of digits is read as the row of numbers it was written from.
LEMMA RowIsRead ==
    ASSUME NEW row \in Seq(Nat)
    PROVE  RowOf(row) \in Seq(Seq(Nat)) /\ QuantityRow(RowOf(row)) = row
<1>1. DOMAIN row = 1 .. Len(row) /\ Len(row) \in Nat
      BY LenProperties
<1>2. \A i \in 1 .. Len(row) : row[i] \in Nat
      BY ElementOfSeq
<1>3. \A i \in 1 .. Len(row) : RowOf(row)[i] \in Seq(Nat)
      BY <1>1, <1>2, QuantityIsRead DEF RowOf
<1>4. RowOf(row) \in Seq(Seq(Nat))
      BY <1>1, <1>3 DEF RowOf
<1>5. \A i \in DOMAIN row : ParseRpcQuantity(RowOf(row)[i]) = row[i] /\ row[i] # Thrown
  <2>1. \A i \in DOMAIN row : row[i] \in Nat
        BY <1>1, <1>2
  <2>2. \A i \in DOMAIN row : RowOf(row)[i] = Digits(row[i], 16)
        BY DEF RowOf
  <2>3. \A i \in DOMAIN row : row[i] # Thrown
        BY <2>1, NotSpecial
  <2>4. QED BY <2>1, <2>2, <2>3, QuantityIsRead
<1>6. [i \in DOMAIN RowOf(row) |-> ParseRpcQuantity(RowOf(row)[i])] = row
  <2>1. DOMAIN RowOf(row) = DOMAIN row
        BY DEF RowOf
  <2>2. row = [i \in DOMAIN row |-> row[i]]
        BY LenProperties
  <2>3. QED BY <1>5, <2>1, <2>2
<1>7. Throwing(row) = row
      BY <1>5 DEF Throwing
<1>8. QED BY <1>4, <1>6, <1>7 DEF QuantityRow

\* A function on the first numbers is a sequence.
LEMMA SequenceOf ==
    ASSUME NEW T, NEW n \in Nat, NEW w \in [1 .. n -> T]
    PROVE  w \in Seq(T) /\ Len(w) = n
OBVIOUS

ReadAs(form, value) ==
    /\ WrittenByNode(form, value) \notin {Undefined, Null}
    /\ Read(form, WrittenByNode(form, value)) = value

\* An address is read in lower case, whichever case the node writes.
LEMMA AccountIsRead ==
    ASSUME NEW value \in Seq(0 .. 15), Len(value) = 2 * Word
    PROVE  ReadAs("account", value)
<1> DEFINE w == [i \in DOMAIN value |-> IF value[i] > 9 THEN value[i] + 16 ELSE value[i]]
<1>1. DOMAIN value = 1 .. Len(value) /\ Len(value) \in Nat
      BY LenProperties
<1>2. \A i \in 1 .. Len(value) : value[i] \in 0 .. 15
      BY ElementOfSeq
<1>3. \A x \in 0 .. 15 : LET y == IF x > 9 THEN x + 16 ELSE x
                         IN  y \in 0 .. 31 /\ (IF y > 15 THEN y - 16 ELSE y) = x
      OBVIOUS
<1>4. w \in Seq(0 .. 31) /\ Len(w) = Len(value)
  <2>1. \A i \in 1 .. Len(value) : w[i] \in 0 .. 31
        BY <1>1, <1>2, <1>3
  <2>2. w \in [1 .. Len(value) -> 0 .. 31]
        BY <1>1, <2>1
  <2>3. PICK v : v = w
        OBVIOUS
  <2>4. v \in Seq(0 .. 31) /\ Len(v) = Len(value)
    <3>1. PICK n \in Nat : n = Len(value)
          BY <1>1
    <3>2. v \in [1 .. n -> 0 .. 31]
          BY <2>2, <2>3, <3>1
    <3>3. v \in Seq(0 .. 31) /\ Len(v) = n
          BY <3>2, SequenceOf
    <3>4. QED BY <3>1, <3>3
  <2>5. QED BY <2>3, <2>4, Zenon
<1>5. LowerCase(w) = value
  <2>1. \A i \in DOMAIN value : (IF w[i] > 15 THEN w[i] - 16 ELSE w[i]) = value[i]
        BY <1>1, <1>2, <1>3
  <2>2. LowerCase(w) = [i \in DOMAIN value |-> value[i]]
        BY <2>1 DEF LowerCase
  <2>3. value = [i \in DOMAIN value |-> value[i]]
        BY LenProperties
  <2>4. QED BY <2>2, <2>3
<1>6. value \notin {Undefined, Null} /\ w \notin {Undefined, Null}
  <2>1. 0 .. 31 \subseteq Nat
        OBVIOUS
  <2>2. value \in Seq(Nat) /\ w \in Seq(Nat)
        BY <1>4, <2>1, Narrower, SeqMonotonic
  <2>3. QED BY <2>2, NotSpecial
<1>7. WrittenByNode("account", value) = w
      BY <1>6 DEF WrittenByNode
<1>8. Read("account", w) = value
      BY <1>4, <1>5, AddressIsRead DEF Read
<1>9. QED BY <1>6, <1>7, <1>8 DEF ReadAs

\* Rows of rewards are read row by row.
LEMMA RowsAreRead ==
    ASSUME NEW value \in Seq(Seq(Nat)), value \notin {Undefined, Null, Thrown}
    PROVE  ReadAs("rows", value)
<1> DEFINE w == [i \in DOMAIN value |-> RowOf(value[i])]
<1>1. DOMAIN value = 1 .. Len(value) /\ Len(value) \in Nat
      BY LenProperties
<1>2. \A i \in 1 .. Len(value) : value[i] \in Seq(Nat)
      BY ElementOfSeq
<1>3. \A i \in 1 .. Len(value) : w[i] \in Seq(Seq(Nat)) /\ QuantityRow(w[i]) = value[i]
      BY <1>1, <1>2, RowIsRead
<1>4. w \in Seq(Seq(Seq(Nat)))
      BY <1>1, <1>3
<1>5. w \notin {Undefined, Null}
      BY <1>4, SpecialAssumption
<1>6. WrittenByNode("rows", value) = w
      BY DEF WrittenByNode, RowOf
<1>7. [i \in DOMAIN w |-> QuantityRow(w[i])] = value
  <2>1. value = [i \in DOMAIN value |-> value[i]]
        BY LenProperties
  <2>2. QED BY <1>1, <1>3, <2>1
<1>8. Throwing(value) = value
      BY <1>1, <1>2, NotSpecial DEF Throwing
<1>9. Read("rows", w) = value
      BY <1>7, <1>8 DEF Read
<1>10. QED BY <1>5, <1>6, <1>9 DEF ReadAs

AnswerForms == {"plain", "quantity", "quantity?", "account", "quantities", "rows"}

\* What a node writes into a field is read as what it has for it.
LEMMA FormsAreRead ==
    ASSUME NEW form \in AnswerForms, NEW value, OfForm(form, value),
           form \in {"quantity", "quantity?"} => value >= 0,
           form = "account" => value \in Seq(0 .. 15) /\ Len(value) = 2 * Word
    PROVE  ReadAs(form, value) /\ value # Thrown
<1>1. value \notin {Undefined, Null, Thrown}
      BY DEF OfForm
<1>2. CASE form = "plain"
      BY <1>1, <1>2 DEF ReadAs, Read, WrittenByNode
<1>3. CASE form \in {"quantity", "quantity?"}
  <2>1. value \in Nat
        BY <1>3 DEF OfForm
  <2>2. WrittenByNode(form, value) = Digits(value, 16)
        BY <1>1, <1>3 DEF WrittenByNode
  <2>3. Digits(value, 16) \notin {Undefined, Null} /\ ParseRpcQuantity(Digits(value, 16)) = value
        BY <2>1, QuantityIsRead
  <2>4. QED BY <1>1, <1>3, <2>2, <2>3 DEF ReadAs, Read
<1>4. CASE form = "account"
      BY <1>1, <1>4, AccountIsRead
<1>5. CASE form = "quantities"
  <2>1. value \in Seq(Nat)
        BY <1>5 DEF OfForm
  <2>2. WrittenByNode(form, value) = RowOf(value)
        BY <1>1, <1>5 DEF WrittenByNode, RowOf
  <2>3. RowOf(value) \in Seq(Seq(Nat)) /\ QuantityRow(RowOf(value)) = value
        BY <2>1, RowIsRead
  <2>4. RowOf(value) \notin {Undefined, Null}
        BY <2>3, SpecialAssumption
  <2>5. Read(form, RowOf(value)) = value
        BY <1>5, <2>3 DEF Read
  <2>6. QED BY <1>1, <2>2, <2>4, <2>5 DEF ReadAs
<1>6. CASE form = "rows"
      BY <1>1, <1>6, RowsAreRead DEF OfForm
<1>7. QED BY <1>2, <1>3, <1>4, <1>5, <1>6 DEF AnswerForms

AnswerReadBack(format, p, out) ==
    \A n \in DOMAIN format :
        LET made == format[n]
            value == p[made.of]
        IN  IF value \notin {Undefined, Null} THEN out[n] = value
            ELSE IF made.form = "quantity?" THEN out[n] = 0
            ELSE n \notin DOMAIN out

\* No field of a typed answer throws, and each is read as the node has it.
LEMMA AnswersAreRead ==
    ASSUME NEW format, NEW p, AnswerFormat(format), TypedAnswer(format, p),
           AnswerOf(format, p) # Null, p # Null
    PROVE  AnswerReadBack(format, p, ParseFields(format, AnswerOf(format, p)))
<1> DEFINE record == AnswerOf(format, p)
           there == {n \in DOMAIN format : IsThere(format[n], record[format[n].of])}
           out == [n \in there |-> Read(format[n].form, record[format[n].of])]
           Absent(n) == p[n] \in {Undefined, Null}
<1>1. \A n \in DOMAIN format : AnswerMade(format[n], n)
      BY DEF AnswerFormat
<1>2. DOMAIN p = DOMAIN format
  <2>1. {format[n].of : n \in DOMAIN format} = DOMAIN format
        BY <1>1 DEF AnswerMade
  <2>2. QED BY <2>1 DEF TypedAnswer
<1>3. \A n \in DOMAIN format : record[n] = WrittenByNode(format[n].form, p[n])
  <2>1. TAKE n \in DOMAIN format
  <2>2. (CHOOSE m \in DOMAIN format : format[m].of = n) = n
        BY <1>1 DEF AnswerMade
  <2>3. QED BY <1>2, <2>2 DEF AnswerOf
<1>4. \A n \in DOMAIN format : format[n].of = n
      BY <1>1 DEF AnswerMade
<1>5. \A n \in DOMAIN format :
         ~Absent(n) => ReadAs(format[n].form, p[n]) /\ p[n] # Thrown
  <2>1. SUFFICES ASSUME NEW n \in DOMAIN format, ~Absent(n)
                 PROVE  ReadAs(format[n].form, p[n]) /\ p[n] # Thrown
        OBVIOUS
  <2>2. PICK form \in {"plain", "quantity", "quantity?", "account", "quantities", "rows"} :
            form = format[n].form
        BY <1>1 DEF AnswerMade
  <2>3. PICK value : value = p[n]
        OBVIOUS
  <2>4. /\ OfForm(form, value)
        /\ form \in {"quantity", "quantity?"} => value >= 0
        /\ form = "account" => value \in Seq(0 .. 15) /\ Len(value) = 2 * Word
        BY <1>4, <2>1, <2>2, <2>3 DEF TypedAnswer
  <2>5. QED BY <2>2, <2>3, <2>4, FormsAreRead DEF AnswerForms
<1>6. \A n \in DOMAIN format :
         /\ Absent(n) => /\ record[n] = p[n]
                         /\ format[n].form = "quantity?" \/ format[n].when # "always"
         /\ ~Absent(n) => record[n] \notin {Undefined, Null}
  <2>1. SUFFICES ASSUME NEW n \in DOMAIN format
                 PROVE  /\ Absent(n) => /\ record[n] = p[n]
                                        /\ format[n].form = "quantity?" \/ format[n].when # "always"
                        /\ ~Absent(n) => record[n] \notin {Undefined, Null}
        OBVIOUS
  <2>2. Absent(n) => WrittenByNode(format[n].form, p[n]) = p[n]
        BY DEF WrittenByNode
  <2>3. Absent(n) => format[n].form = "quantity?" \/ format[n].when # "always"
        BY <1>4 DEF TypedAnswer
  <2>4. ~Absent(n) => record[n] \notin {Undefined, Null}
        BY <1>3, <1>5 DEF ReadAs
  <2>5. QED BY <1>3, <2>2, <2>3, <2>4
<1>7. \A n \in DOMAIN format : n \in there <=> ~Absent(n) \/ format[n].form = "quantity?"
  <2>1. SUFFICES ASSUME NEW n \in DOMAIN format
                 PROVE  IsThere(format[n], record[n]) <=> ~Absent(n) \/ format[n].form = "quantity?"
        BY <1>4
  <2>2. PICK value : value = record[n]
        OBVIOUS
  <2>3. CASE format[n].when = "always"
        BY <1>6, <2>3 DEF IsThere
  <2>4. CASE format[n].when = "truthy"
        BY <1>1, <1>6, <2>4 DEF IsThere, Truthy, AnswerMade
  <2>5. QED BY <1>1, <2>3, <2>4 DEF AnswerMade
<1>8. \A n \in there : /\ ~Absent(n) => out[n] = p[n]
                       /\ Absent(n) => out[n] = 0
                       /\ out[n] # Thrown
  <2>1. SUFFICES ASSUME NEW n \in there
                 PROVE  /\ ~Absent(n) => out[n] = p[n]
                        /\ Absent(n) => out[n] = 0
                        /\ out[n] # Thrown
        OBVIOUS
  <2>2. n \in DOMAIN format /\ out[n] = Read(format[n].form, record[n])
        BY <1>4
  <2>3. CASE ~Absent(n)
        BY <1>3, <1>5, <2>2, <2>3 DEF ReadAs
  <2>4. CASE Absent(n)
    <3>1. format[n].form = "quantity?"
          BY <1>7, <2>2, <2>4
    <3>2. out[n] = 0
          BY <1>6, <2>2, <2>4, <3>1 DEF Read
    <3>3. QED BY <2>4, <3>2, NotSpecial
  <2>5. QED BY <2>3, <2>4
<1>9. ParseFields(format, record) = Throwing(out)
      BY DEF ParseFields
<1>10. DOMAIN out = there
      OBVIOUS
<1> HIDE DEF record, there, out
<1>11. Throwing(out) = out
      BY <1>8, <1>10 DEF Throwing
<1>12. ASSUME NEW n \in DOMAIN format
       PROVE  IF p[n] \notin {Undefined, Null} THEN out[n] = p[n]
              ELSE IF format[n].form = "quantity?" THEN out[n] = 0
              ELSE n \notin DOMAIN out
       BY <1>7, <1>8, <1>10
<1>13. AnswerReadBack(format, p, out)
       BY <1>4, <1>12 DEF AnswerReadBack
<1>14. QED BY <1>9, <1>11, <1>13 DEF record

-----------------------------------------------------------------------------
\* ParametersReadBack is about no other call.
LEMMA OtherThanParameters ==
    ASSUME task'.kind \notin {"parameters", "overrides", "answer"}
    PROVE  ParametersReadBack'
BY DEF ParametersReadBack, Calling

\* After every step the call in progress, if there is one, is read as it was meant.
LEMMA ParameterCalls ==
    ASSUME Next
    PROVE  ParametersReadBack'
<1>1. ASSUME Return PROVE ParametersReadBack'
      BY <1>1 DEF Return, ParametersReadBack, Calling
<1>2. ASSUME SerializeParameters PROVE ParametersReadBack'
  <2>1. PICK format \in SerializeFormats : \E p \in Parameters(format) :
          /\ task' = [kind |-> "parameters", format |-> format, p |-> p]
          /\ result' = SerializeFields(format, p)
        BY <1>2 DEF SerializeParameters, Call
  <2>2. PICK p \in Parameters(format) :
          /\ task' = [kind |-> "parameters", format |-> format, p |-> p]
          /\ result' = SerializeFields(format, p)
        BY <2>1
  <2>3. task'.kind = "parameters" /\ task'.format = format /\ task'.p = p
        BY <2>2
  <2>4. SerializedAs(format, p)
        BY SerializeFormatsAre, FieldsAssumption, ParametersAreSaid
  <2>5. QED BY <2>2, <2>3, <2>4 DEF ParametersReadBack, Calling, SerializedAs
<1>3. ASSUME SerializeOverrides PROVE ParametersReadBack'
  <2>1. PICK o \in Overrides : /\ task' = [kind |-> "overrides", overrides |-> o]
                               /\ result' = SerializeOverrideMap(o)
        BY <1>3 DEF SerializeOverrides, Call
  <2>2. task'.kind = "overrides" /\ task'.overrides = o
        BY <2>1
  <2>3. OverridesReadBack(o, result')
        BY <2>1, OverridesAreSaid
  <2>4. QED BY <2>2, <2>3 DEF ParametersReadBack, Calling, OverridesReadBack
<1>4. ASSUME ParseAnswer PROVE ParametersReadBack'
  <2>1. PICK format \in ParseFormats : \E p \in Answers(format) :
          /\ task' = [kind |-> "answer", format |-> format, p |-> p]
          /\ result' = ParseFields(format, AnswerOf(format, p))
        BY <1>4 DEF ParseAnswer, Call
  <2>2. PICK p \in Answers(format) :
          /\ task' = [kind |-> "answer", format |-> format, p |-> p]
          /\ result' = ParseFields(format, AnswerOf(format, p))
        BY <2>1
  <2>3. task'.kind = "answer" /\ task'.format = format /\ task'.p = p
        BY <2>2
  <2>4. CASE p = Null
    <3>1. result' = Null
          BY <2>2, <2>4 DEF AnswerOf, ParseFields
    <3>2. QED BY <2>3, <2>4, <3>1 DEF ParametersReadBack, Calling
  <2>5. CASE p # Null
    <3>1. AnswerReadBack(format, p, result')
          BY <2>2, <2>5, ParseFormatsAre, FieldsAssumption, AnswersAreRead
    <3>2. QED BY <2>3, <2>5, <3>1 DEF ParametersReadBack, Calling, AnswerReadBack
  <2>6. QED BY <2>4, <2>5
<1>5. ASSUME ConvertNumber \/ ConvertBytes \/ ConvertHex \/ ConvertBool \/ ConvertText
             \/ TrimValue \/ SliceValue \/ ParseDecimal \/ FormatDecimal
      PROVE  ParametersReadBack'
  <2>1. task'.kind \in {"number", "bytes", "hex", "bool", "text", "trim", "trimBytes", "slice",
                        "parse", "format"}
        BY <1>5 DEF ConvertNumber, ConvertBytes, ConvertHex, ConvertBool, ConvertText, TrimValue,
                    SliceValue, ParseDecimal, FormatDecimal, Call
  <2>2. QED BY <2>1, OtherThanParameters
<1>6. ASSUME CallProvider \/ CheckFleet \/ DelegateExecution \/ CaptureEvidence \/ SearchProofs
      PROVE  ParametersReadBack'
      BY <1>6, ProviderCalls, OtherThanParameters
<1>7. QED BY <1>1, <1>2, <1>3, <1>4, <1>5, <1>6 DEF Next

\* What the node reads in a request is what the caller gave, field by field and for every
\* format of the two clients; an address spelt twice among the overrides gets one override, the
\* latest; and every answer is read back in full (serialize* and parse* of createPublicClient
\* and createWalletClient).
THEOREM ParametersAreReadBack == Spec => []ParametersReadBack
<1>1. Init => ParametersReadBack
      BY DEF Init, ParametersReadBack, Calling
<1>2. ParametersReadBack /\ [Next]_vars => ParametersReadBack'
  <2>1. ASSUME ParametersReadBack, UNCHANGED vars
        PROVE  ParametersReadBack'
    <3>1. task' = task /\ result' = result
          BY <2>1 DEF vars
    <3>2. QED BY <2>1, <3>1 DEF ParametersReadBack, Calling
  <2>2. QED BY <2>1, ParameterCalls
<1>3. QED BY <1>1, <1>2, PTL DEF Spec

-----------------------------------------------------------------------------
\* The text is what is left of it and the slashes it ended in.
SlashesOf(text, cut) ==
    /\ text = cut \o [i \in 1 .. Len(text) - Len(cut) |-> 47]
    /\ cut # <<>> => Last(cut) # 47

\* trimTrailingSlash takes off the slashes at the end and nothing else.
LEMMA SlashesTrimmed ==
    ASSUME NEW text \in Seq(Nat)
    PROVE  SlashesOf(text, TrimTrailingSlash(text))
<1>1. PICK cut : cut = TrimEnd(text, 47)
      OBVIOUS
<1>2. /\ cut \in Seq(Nat) /\ Len(cut) <= Len(text)
      /\ \A i \in 1 .. Len(cut) : cut[i] = text[i]
      /\ \A i \in Len(cut) + 1 .. Len(text) : text[i] = 47
      /\ cut # <<>> => cut[Len(cut)] # 47
      BY <1>1, TrimEndFacts
<1>3. PICK k \in Nat : k = Len(text) - Len(cut)
  <2>1. Len(text) \in Nat /\ Len(cut) \in Nat
        BY <1>2
  <2>2. QED BY <1>2, <2>1
<1>4. PICK slashes : slashes = [i \in 1 .. k |-> 47]
      OBVIOUS
<1>5. slashes \in Seq(Nat) /\ Len(slashes) = k
  <2>1. slashes \in [1 .. k -> Nat]
        BY <1>4
  <2>2. QED BY <2>1, SequenceOf
<1>6. MadeUpOf(text, cut, slashes, k)
  <2>1. Len(text) = Len(cut) + k /\ Len(text) \in Nat /\ Len(cut) \in Nat
        BY <1>2, <1>3
  <2>2. \A i \in 1 .. k : text[Len(cut) + i] = slashes[i]
    <3>1. \A i \in 1 .. k : Len(cut) + i \in Len(cut) + 1 .. Len(text)
          BY <2>1
    <3>2. QED BY <1>2, <1>4, <3>1
  <2>3. QED BY <1>2, <1>5, <2>1, <2>2 DEF MadeUpOf
<1>7. cut \o slashes = text
  <2>1. Joins(text, cut, slashes)
        BY <1>2, <1>5, <1>6, ConcatIs, Zenon
  <2>2. QED BY <2>1, Zenon DEF Joins
<1>8. QED BY <1>1, <1>2, <1>3, <1>4, <1>7, Zenon DEF SlashesOf, TrimTrailingSlash, Last

\* No slash of an argument gets into the path, and the server decodes the argument again.
Escaped(text, id) ==
    /\ \A i \in DOMAIN id : id[i] # 47
    /\ Decoded(id) = text

\* encodeURIComponent leaves no slash, and decoding gives the argument back.
LEMMA ArgumentsEscaped ==
    ASSUME NEW text \in Seq(0 .. 255)
    PROVE  Escaped(text, EncodeURIComponent(text))
<1> DEFINE id == EncodeURIComponent(text)
<1>1. DOMAIN text = 1 .. Len(text)
      BY LenProperties
<1>2. \A i \in DOMAIN text : text[i] \in 0 .. 255
      BY <1>1, ElementOfSeq
<1>3. DOMAIN id = DOMAIN text
      /\ \A i \in DOMAIN text : id[i] = IF text[i] = 47 THEN text[i] + 256 ELSE text[i]
      BY DEF EncodeURIComponent
<1> HIDE DEF id
<1>4. \A i \in DOMAIN text : id[i] # 47 /\ (IF id[i] > 255 THEN id[i] - 256 ELSE id[i]) = text[i]
  <2>1. TAKE i \in DOMAIN text
  <2>2. PICK x \in 0 .. 255 : x = text[i]
        BY <1>2
  <2>3. id[i] = IF x = 47 THEN x + 256 ELSE x
        BY <1>3, <2>2
  <2>4. PICK y : y = IF x = 47 THEN x + 256 ELSE x
        OBVIOUS
  <2>5. y # 47 /\ (IF y > 255 THEN y - 256 ELSE y) = x
    <3>1. CASE x = 47
          BY <2>4, <3>1
    <3>2. CASE x # 47
          BY <2>4, <3>2
    <3>3. QED BY <3>1, <3>2
  <2>6. id[i] = y
        BY <2>3, <2>4
  <2>7. QED BY <2>2, <2>5, <2>6, ZenonT(60)
<1>5. Decoded(id) = [i \in DOMAIN text |-> text[i]]
      BY <1>3, <1>4 DEF Decoded
<1>6. text = [i \in DOMAIN text |-> text[i]]
      BY LenProperties
<1>7. QED BY <1>3, <1>4, <1>5, <1>6 DEF Escaped, id

\* What a call of a provider sends and returns.
Provided(endpoint, argument, base, headers, response, out) ==
    LET request == out.request
        answered == response # Unreachable /\ response.ok /\ response.json # Thrown
        slashes == Len(base) - Len(request.base)
    IN  /\ base = request.base \o [i \in 1 .. slashes |-> 47]
        /\ request.base # <<>> => Last(request.base) # 47
        /\ \A i \in DOMAIN request.id : request.id[i] # 47
        /\ endpoint.argument = "id" => Decoded(request.id) = argument
        /\ endpoint.argument = "body" => request.body = argument
        /\ HeadersArrive(endpoint, headers, request.headers)
        /\ out.answer = IF answered THEN response.json ELSE Thrown
        /\ out.answer # Thrown => out.check.healthy
        /\ out.check.baseUrl = request.base

\* Of the headers of a configuration those arrive that HeadersArrive names.
LEMMA HeadersSent ==
    ASSUME NEW endpoint, NEW headers, headers = Undefined \/ headers.form \in {"Headers", "array", "record"},
           NEW sent,
           sent = IF endpoint.argument = "body" THEN BuildHeaders(headers) ELSE Undefined
    PROVE  HeadersArrive(endpoint, headers, sent)
<1>1. CASE endpoint.argument # "body"
      BY <1>1 DEF HeadersArrive
<1>2. ASSUME endpoint.argument = "body",
             NEW own, own = OwnEntries(headers)
      PROVE  /\ DOMAIN sent = {"Content-Type"} \union DOMAIN own
             /\ \A h \in DOMAIN own : sent[h] = own[h]
             /\ "Content-Type" \notin DOMAIN own => sent["Content-Type"] = "application/json"
      BY <1>2 DEF BuildHeaders
<1>3. CASE endpoint.argument = "body" /\ (headers = Undefined \/ headers.form = "Headers")
  <2>1. OwnEntries(headers) = [h \in {} |-> h]
        BY <1>3 DEF OwnEntries
  <2>2. DOMAIN [h \in {} |-> h] = {}
        OBVIOUS
  <2>3. QED BY <1>2, <1>3, <2>1, <2>2 DEF HeadersArrive
<1>4. CASE endpoint.argument = "body" /\ headers # Undefined /\ headers.form = "array"
  <2>1. OwnEntries(headers) = [h \in {"0"} |-> "an entry"]
        BY <1>4 DEF OwnEntries
  <2>2. DOMAIN [h \in {"0"} |-> "an entry"] = {"0"}
        OBVIOUS
  <2>3. QED BY <1>2, <1>4, <2>1, <2>2 DEF HeadersArrive
<1>5. CASE endpoint.argument = "body" /\ headers # Undefined /\ headers.form = "record"
  <2>1. OwnEntries(headers) = headers.entries
        BY <1>5 DEF OwnEntries
  <2>2. QED BY <1>2, <1>5, <2>1 DEF HeadersArrive
<1>6. QED BY <1>1, <1>3, <1>4, <1>5

\* What a call of a provider does, whatever the endpoint and the answer.
LEMMA ProvidersCalled ==
    ASSUME NEW endpoint, NEW argument \in Seq(0 .. 255), NEW base \in Seq(Nat),
           NEW headers, headers = Undefined \/ headers.form \in {"Headers", "array", "record"},
           NEW response, response = Unreachable \/ response.ok \in BOOLEAN,
           NEW out,
           out = [request |-> ProviderRequest([baseUrl |-> base, headers |-> headers],
                                              endpoint, argument),
                  answer |-> ProviderAnswer(response),
                  check |-> CheckProviderHealth(RegisterProvider(argument, "signer", base), response)]
    PROVE  Provided(endpoint, argument, base, headers, response, out)
<1>1. PICK cut : cut = TrimTrailingSlash(base)
      OBVIOUS
<1>2. SlashesOf(base, cut)
      BY <1>1, SlashesTrimmed
<1>3. PICK request : request = out.request
      OBVIOUS
<1>4. request = [base |-> cut, path |-> endpoint.path, method |-> endpoint.method,
                 id |-> IF endpoint.argument = "id" THEN EncodeURIComponent(argument) ELSE <<>>,
                 body |-> IF endpoint.argument = "body" THEN argument ELSE Undefined,
                 headers |-> IF endpoint.argument = "body" THEN BuildHeaders(headers)
                             ELSE Undefined]
      BY <1>1, <1>3 DEF ProviderRequest
<1>5. out.answer = ProviderAnswer(response)
      OBVIOUS
<1>6. /\ out.check.baseUrl = cut
      /\ out.check.healthy = (response # Unreachable /\ response.ok)
      BY <1>1 DEF CheckProviderHealth, RegisterProvider
<1>7. base = request.base \o [i \in 1 .. Len(base) - Len(request.base) |-> 47]
      /\ (request.base # <<>> => Last(request.base) # 47)
  <2>1. request.base = cut
        BY <1>4
  <2>2. QED BY <1>2, <2>1, Zenon DEF SlashesOf
<1>8. /\ \A i \in DOMAIN request.id : request.id[i] # 47
      /\ endpoint.argument = "id" => Decoded(request.id) = argument
  <2>1. request.id = IF endpoint.argument = "id" THEN EncodeURIComponent(argument) ELSE <<>>
        BY <1>4
  <2>2. Escaped(argument, EncodeURIComponent(argument))
        BY ArgumentsEscaped
  <2>3. DOMAIN <<>> = {}
        OBVIOUS
  <2>4. QED BY <2>1, <2>2, <2>3, Zenon DEF Escaped
<1>9. /\ endpoint.argument = "body" => request.body = argument
      /\ HeadersArrive(endpoint, headers, request.headers)
  <2>1. /\ request.body = IF endpoint.argument = "body" THEN argument ELSE Undefined
        /\ request.headers = IF endpoint.argument = "body" THEN BuildHeaders(headers)
                             ELSE Undefined
        BY <1>4
  <2>2. QED BY <2>1, HeadersSent
<1>10. out.answer = IF response # Unreachable /\ response.ok /\ response.json # Thrown
                    THEN response.json ELSE Thrown
       BY <1>5 DEF ProviderAnswer, ReadJsonResponse
<1>11. out.answer # Thrown => out.check.healthy
       BY <1>6, <1>10
<1>12. out.check.baseUrl = request.base
       BY <1>4, <1>6
<1>13. QED BY <1>3, <1>7, <1>8, <1>9, <1>10, <1>11, <1>12, Zenon DEF Provided

-----------------------------------------------------------------------------
\* f gives what the filter keeps of every beginning of data up to n.
IsFilter(f, n, data, passing) ==
    f = [i \in 0 .. n |-> IF i = 0 THEN <<>>
                          ELSE IF i \in passing THEN Append(f[i - 1], data[i]) ELSE f[i - 1]]

\* There is such a function, for data of any length.
LEMMA FilterExists ==
    ASSUME NEW data, NEW passing
    PROVE  \A n \in Nat : \E f : IsFilter(f, n, data, passing)
<1> DEFINE S == {n \in Nat : \E f : IsFilter(f, n, data, passing)}
<1>1. 0 \in S
  <2> DEFINE f == [i \in 0 .. 0 |-> <<>>]
  <2>1. \A i \in 0 .. 0 : i = 0
        OBVIOUS
  <2>2. IsFilter(f, 0, data, passing)
        BY <2>1 DEF IsFilter
  <2>3. QED BY <2>2
<1>2. ASSUME NEW n \in Nat, n \in S
      PROVE  n + 1 \in S
  <2>1. PICK f : IsFilter(f, n, data, passing)
        BY <1>2
  <2>2. PICK last : last = IF n + 1 \in passing THEN Append(f[n], data[n + 1]) ELSE f[n]
        OBVIOUS
  <2> DEFINE g == [i \in 0 .. n + 1 |-> IF i <= n THEN f[i] ELSE last]
  <2>3. ASSUME NEW i \in 0 .. n + 1
        PROVE  g[i] = IF i = 0 THEN <<>>
                      ELSE IF i \in passing THEN Append(g[i - 1], data[i]) ELSE g[i - 1]
    <3>1. CASE i <= n
      <4>1. i \in 0 .. n /\ g[i] = f[i] /\ (i # 0 => g[i - 1] = f[i - 1])
            BY <3>1
      <4>2. f[i] = IF i = 0 THEN <<>>
                   ELSE IF i \in passing THEN Append(f[i - 1], data[i]) ELSE f[i - 1]
            BY <2>1, <4>1 DEF IsFilter
      <4>3. QED BY <4>1, <4>2
    <3>2. CASE i = n + 1
      <4>1. g[i] = last /\ g[i - 1] = f[n] /\ i # 0
            BY <3>2
      <4>2. QED BY <2>2, <3>2, <4>1
    <3>3. QED BY <3>1, <3>2
  <2>4. IsFilter(g, n + 1, data, passing)
        BY <2>3 DEF IsFilter
  <2>5. QED BY <2>4
<1> HIDE DEF S
<1>3. Nat \subseteq S
      BY <1>1, <1>2, SetInduction
<1>4. QED BY <1>3 DEF S

\* out has the elements of data at the places up to n that pass, as many as there are, and is
\* that beginning of data when all of them do.
Filtered(T, out, n, data, passing) ==
    /\ out \in Seq(T)
    /\ Len(out) = Cardinality(passing \intersect (1 .. n))
    /\ ToSet(out) = {data[k] : k \in passing \intersect (1 .. n)}
    /\ 1 .. n \subseteq passing => Len(out) = n /\ \A j \in 1 .. n : out[j] = data[j]

\* Of no places nothing is kept.
LEMMA FilteredNone ==
    ASSUME NEW T, NEW data, NEW passing
    PROVE  Filtered(T, <<>>, 0, data, passing)
<1>1. 1 .. 0 = {} /\ <<>> \in Seq(T) /\ Len(<<>>) = 0 /\ ToSet(<<>>) = {}
      BY DEF ToSet
<1>2. Cardinality({}) = 0
      BY FS_EmptySet
<1>3. QED BY <1>1, <1>2 DEF Filtered

\* t is s and x behind it.
AppendedTo(T, t, s, x) ==
    /\ t \in Seq(T) /\ Len(t) = Len(s) + 1
    /\ \A j \in 1 .. Len(s) : t[j] = s[j]
    /\ t[Len(s) + 1] = x
    /\ ToSet(t) = ToSet(s) \union {x}

\* Append puts one element behind the others.
LEMMA AppendFacts ==
    ASSUME NEW T, NEW s \in Seq(T), NEW x \in T
    PROVE  AppendedTo(T, Append(s, x), s, x)
<1>1. PICK t : t = Append(s, x)
      OBVIOUS
<1>2. /\ t \in Seq(T) /\ Len(t) = Len(s) + 1 /\ Len(s) \in Nat
      /\ (\A j \in 1 .. Len(s) : t[j] = s[j]) /\ t[Len(s) + 1] = x
      BY <1>1
<1>3. DOMAIN t = 1 .. Len(s) + 1 /\ DOMAIN s = 1 .. Len(s)
      BY <1>2
<1>4. 1 .. Len(s) + 1 = (1 .. Len(s)) \union {Len(s) + 1}
      BY <1>2
<1>5. ToSet(t) = ToSet(s) \union {x}
  <2>1. ASSUME NEW y \in ToSet(t) PROVE y \in ToSet(s) \union {x}
    <3>1. PICK j \in 1 .. Len(s) + 1 : y = t[j]
          BY <1>3 DEF ToSet
    <3>2. CASE j \in 1 .. Len(s)
          BY <1>2, <1>3, <3>1, <3>2 DEF ToSet
    <3>3. CASE j = Len(s) + 1
          BY <1>2, <3>1, <3>3
    <3>4. QED BY <1>4, <3>2, <3>3
  <2>2. ASSUME NEW y \in ToSet(s) PROVE y \in ToSet(t)
    <3>1. PICK j \in 1 .. Len(s) : y = s[j]
          BY <1>3 DEF ToSet
    <3>2. y = t[j] /\ j \in DOMAIN t
          BY <1>2, <1>3, <1>4, <3>1
    <3>3. QED BY <3>2 DEF ToSet
  <2>3. x \in ToSet(t)
    <3>1. x = t[Len(s) + 1] /\ Len(s) + 1 \in DOMAIN t
          BY <1>2, <1>3, <1>4
    <3>2. QED BY <3>1 DEF ToSet
  <2>4. QED BY <2>1, <2>2, <2>3
<1>6. QED BY <1>1, <1>2, <1>5, Zenon DEF AppendedTo

\* One more place is kept when it passes and left out otherwise.
LEMMA FilteredOneMore ==
    ASSUME NEW T, NEW n \in Nat, NEW data, data[n + 1] \in T, NEW passing, NEW out,
           Filtered(T, out, n, data, passing)
    PROVE  Filtered(T, IF n + 1 \in passing THEN Append(out, data[n + 1]) ELSE out,
                    n + 1, data, passing)
<1>1. 1 .. n + 1 = (1 .. n) \union {n + 1} /\ n + 1 \notin 1 .. n
      OBVIOUS
<1>2. out \in Seq(T) /\ Len(out) = Cardinality(passing \intersect (1 .. n))
      /\ ToSet(out) = {data[k] : k \in passing \intersect (1 .. n)}
      /\ (1 .. n \subseteq passing => Len(out) = n /\ \A j \in 1 .. n : out[j] = data[j])
      BY DEF Filtered
<1>3. IsFiniteSet(passing \intersect (1 .. n))
  <2>1. IsFiniteSet(1 .. n)
        BY FS_Interval
  <2>2. QED BY <2>1, FS_Subset
<1>4. CASE n + 1 \in passing
  <2>1. PICK more : more = Append(out, data[n + 1])
        OBVIOUS
  <2>2. /\ more \in Seq(T) /\ Len(more) = Len(out) + 1
        /\ \A j \in 1 .. Len(out) : more[j] = out[j]
        /\ more[Len(out) + 1] = data[n + 1]
        /\ ToSet(more) = ToSet(out) \union {data[n + 1]}
    <3>1. PICK x \in T : x = data[n + 1]
          OBVIOUS
    <3>2. out \in Seq(T)
          BY <1>2
    <3>3. AppendedTo(T, Append(out, x), out, x)
          BY <3>2, AppendFacts, Zenon
    <3>4. more = Append(out, x)
          BY <2>1, <3>1, Zenon
    <3>5. QED BY <3>1, <3>3, <3>4, Zenon DEF AppendedTo
  <2>3. passing \intersect (1 .. n + 1) = (passing \intersect (1 .. n)) \union {n + 1}
        BY <1>1, <1>4
  <2>4. Len(more) = Cardinality(passing \intersect (1 .. n + 1))
    <3>1. n + 1 \notin passing \intersect (1 .. n)
          BY <1>1
    <3>2. Cardinality((passing \intersect (1 .. n)) \union {n + 1})
            = Cardinality(passing \intersect (1 .. n)) + 1
          BY <1>3, <3>1, FS_AddElement
    <3>3. QED BY <1>2, <2>2, <2>3, <3>2
  <2>5. ToSet(more) = {data[k] : k \in passing \intersect (1 .. n + 1)}
        BY <1>2, <2>2, <2>3
  <2>6. ASSUME 1 .. n + 1 \subseteq passing
        PROVE  Len(more) = n + 1 /\ \A j \in 1 .. n + 1 : more[j] = data[j]
    <3>1. Len(out) = n /\ \A j \in 1 .. n : out[j] = data[j]
          BY <1>1, <1>2, <2>6
    <3>2. QED BY <1>1, <2>2, <3>1
  <2>7. Filtered(T, more, n + 1, data, passing)
        BY <2>2, <2>4, <2>5, <2>6 DEF Filtered
  <2>8. QED BY <1>4, <2>1, <2>7
<1>5. CASE n + 1 \notin passing
  <2>1. passing \intersect (1 .. n + 1) = passing \intersect (1 .. n)
        BY <1>1, <1>5
  <2>2. ~(1 .. n + 1 \subseteq passing)
        BY <1>1, <1>5
  <2>3. Filtered(T, out, n + 1, data, passing)
        BY <1>2, <2>1, <2>2 DEF Filtered
  <2>4. QED BY <1>5, <2>3
<1>6. QED BY <1>4, <1>5

\* What Array.prototype.filter keeps.
LEMMA FilterFacts ==
    ASSUME NEW T, NEW data \in Seq(T), NEW passing
    PROVE  Filtered(T, Filter(data, passing), Len(data), data, passing)
<1> DEFINE f == CHOOSE f : f = [i \in 0 .. Len(data) |->
                 IF i = 0 THEN <<>>
                 ELSE IF i \in passing THEN Append(f[i - 1], data[i]) ELSE f[i - 1]]
<1>1. Len(data) \in Nat
      OBVIOUS
<1>2. PICK g : IsFilter(g, Len(data), data, passing)
      BY <1>1, FilterExists
<1>3. f = [i \in 0 .. Len(data) |->
             IF i = 0 THEN <<>> ELSE IF i \in passing THEN Append(f[i - 1], data[i]) ELSE f[i - 1]]
      BY <1>2 DEF IsFilter
<1>4. Filter(data, passing) = f[Len(data)]
      BY DEF Filter
<1> HIDE DEF f
<1> DEFINE S == {n \in Nat : n <= Len(data) => Filtered(T, f[n], n, data, passing)}
<1>5. 0 \in S
  <2>1. f[0] = <<>>
        BY <1>1, <1>3
  <2>2. QED BY <2>1, FilteredNone
<1>6. ASSUME NEW n \in Nat, n \in S
      PROVE  n + 1 \in S
  <2> SUFFICES ASSUME n + 1 <= Len(data)
               PROVE  Filtered(T, f[n + 1], n + 1, data, passing)
      OBVIOUS
  <2>1. n <= Len(data) /\ n + 1 \in 1 .. Len(data) /\ n + 1 \in 0 .. Len(data)
        /\ n + 1 # 0 /\ (n + 1) - 1 = n
        BY <1>1
  <2>2. f[n + 1] = IF n + 1 \in passing THEN Append(f[n], data[n + 1]) ELSE f[n]
        BY <1>3, <2>1
  <2>3. data[n + 1] \in T
        BY <2>1
  <2>4. Filtered(T, f[n], n, data, passing)
        BY <1>6, <2>1
  <2>5. QED BY <2>2, <2>3, <2>4, FilteredOneMore
<1> HIDE DEF S
<1>7. Nat \subseteq S
      BY <1>5, <1>6, SetInduction
<1>8. QED BY <1>1, <1>4, <1>7 DEF S

-----------------------------------------------------------------------------
\* Two sets without an element in common have as many elements together as they have.
LEMMA DisjointSets ==
    ASSUME NEW S, NEW T, IsFiniteSet(S), IsFiniteSet(T), S \intersect T = {}
    PROVE  Cardinality(S \union T) = Cardinality(S) + Cardinality(T)
<1>1. Cardinality(S \union T) = Cardinality(S) + Cardinality(T) - Cardinality(S \intersect T)
      BY FS_Union
<1>2. Cardinality(S \intersect T) = 0
      BY FS_EmptySet
<1>3. Cardinality(S) \in Nat /\ Cardinality(T) \in Nat
      BY FS_CardinalityType
<1>4. QED BY <1>1, <1>2, <1>3

\* The four sets are parts of the numbers up to n.
Parted(n, A, B, C, D) ==
    /\ A \union B \union C \union D = 1 .. n
    /\ A \intersect B = {}
    /\ (A \union B) \intersect C = {}
    /\ (A \union B \union C) \intersect D = {}

AddUp(n, A, B, C, D) ==
    Cardinality(A) + Cardinality(B) + Cardinality(C) + Cardinality(D) = n

\* Four parts of a set of numbers have as many elements together as it has.
LEMMA FourParts ==
    ASSUME NEW n \in Nat, NEW A, NEW B, NEW C, NEW D, Parted(n, A, B, C, D)
    PROVE  AddUp(n, A, B, C, D)
<1> USE DEF Parted, AddUp
<1>1. IsFiniteSet(1 .. n) /\ Cardinality(1 .. n) = n
      BY FS_Interval
<1>2. IsFiniteSet(A) /\ IsFiniteSet(B) /\ IsFiniteSet(C) /\ IsFiniteSet(D)
      /\ IsFiniteSet(A \union B) /\ IsFiniteSet(A \union B \union C)
  <2>1. /\ A \in SUBSET (1 .. n) /\ B \in SUBSET (1 .. n) /\ C \in SUBSET (1 .. n)
        /\ D \in SUBSET (1 .. n)
        /\ A \union B \in SUBSET (1 .. n) /\ A \union B \union C \in SUBSET (1 .. n)
        OBVIOUS
  <2>2. QED BY <1>1, <2>1, FS_Subset
<1>3. /\ Cardinality(A) \in Nat /\ Cardinality(B) \in Nat /\ Cardinality(C) \in Nat
      /\ Cardinality(D) \in Nat
      /\ Cardinality(A \union B) \in Nat /\ Cardinality(A \union B \union C) \in Nat
      BY <1>2, FS_CardinalityType
<1>4. Cardinality(A \union B) = Cardinality(A) + Cardinality(B)
      BY <1>2, DisjointSets
<1>5. Cardinality((A \union B) \union C) = Cardinality(A \union B) + Cardinality(C)
      BY <1>2, DisjointSets
<1>6. Cardinality((A \union B \union C) \union D) = Cardinality(A \union B \union C) + Cardinality(D)
      BY <1>2, DisjointSets
<1>7. QED BY <1>1, <1>3, <1>4, <1>5, <1>6

\* The counts of a fleet add up.
Counted(fleet, out) ==
    LET Count(role) == Len(FilterByRole(out.providers, role))
    IN  /\ out.healthy + out.unhealthy = out.total
        /\ Count("signer") + Count("paymaster") + Count("storage") + Count("artifact") = out.total
        /\ out.healthy = Cardinality({i \in DOMAIN fleet :
               fleet[i].response # Unreachable /\ fleet[i].response.ok})

\* The counts of a fleet are those of its providers, and add up.
LEMMA FleetsCounted ==
    ASSUME NEW fleet \in Fleets
    PROVE  Counted(fleet, AggregateFleetStatus([i \in DOMAIN fleet |->
               CheckProviderHealth(RegisterProvider(fleet[i].address, fleet[i].role,
                                                    fleet[i].baseUrl), fleet[i].response)]))
<1> DEFINE Roles == {"signer", "paymaster", "storage", "artifact"}
<1>1. PICK n \in Nat : n = Len(fleet)
      BY ProvidersAssumption
<1>2. DOMAIN fleet = 1 .. n /\ \A i \in 1 .. n : fleet[i].role \in Roles
      BY <1>1, ProvidersAssumption
<1>3. PICK statuses : statuses = [i \in DOMAIN fleet |->
          CheckProviderHealth(RegisterProvider(fleet[i].address, fleet[i].role,
                                               fleet[i].baseUrl), fleet[i].response)]
      OBVIOUS
<1>4. /\ DOMAIN statuses = 1 .. n
      /\ \A i \in 1 .. n :
           /\ statuses[i].role = fleet[i].role
           /\ statuses[i].healthy = (fleet[i].response # Unreachable /\ fleet[i].response.ok)
      BY <1>2, <1>3 DEF CheckProviderHealth, RegisterProvider
<1>5. PICK T : T = {statuses[i] : i \in 1 .. n}
      OBVIOUS
<1>6. statuses \in Seq(T) /\ Len(statuses) = n
  <2>1. statuses \in [1 .. n -> T]
        BY <1>2, <1>3, <1>5
  <2>2. QED BY <2>1, SequenceOf
<1>7. ASSUME NEW passing \in SUBSET (1 .. n)
      PROVE  Len(Filter(statuses, passing)) = Cardinality(passing)
  <2>1. Filtered(T, Filter(statuses, passing), n, statuses, passing)
        BY <1>6, FilterFacts
  <2>2. passing \intersect (1 .. n) = passing
        OBVIOUS
  <2>3. QED BY <2>1, <2>2 DEF Filtered
<1>8. PICK well \in SUBSET (1 .. n) : well = {i \in 1 .. n : statuses[i].healthy}
      OBVIOUS
<1>9. Len(Filter(statuses, well)) = Cardinality(well) /\ Cardinality(well) \in Nat
  <2>1. IsFiniteSet(well)
    <3>1. IsFiniteSet(1 .. n)
          BY FS_Interval
    <3>2. QED BY <3>1, FS_Subset
  <2>2. QED BY <1>7, <2>1, FS_CardinalityType
<1>10. well = {i \in DOMAIN fleet : fleet[i].response # Unreachable /\ fleet[i].response.ok}
       BY <1>2, <1>4, <1>8
<1>11. PICK out : out = AggregateFleetStatus(statuses)
       OBVIOUS
<1>12. /\ out.total = n /\ out.healthy = Cardinality(well)
       /\ out.unhealthy = n - Cardinality(well) /\ out.providers = statuses
       BY <1>4, <1>6, <1>8, <1>9, <1>11 DEF AggregateFleetStatus
<1> DEFINE Of(role) == {i \in 1 .. n : statuses[i].role = role}
<1>13. \A role \in Roles : Len(FilterByRole(statuses, role)) = Cardinality(Of(role))
  <2>1. SUFFICES ASSUME NEW role \in Roles
                 PROVE  Len(FilterByRole(statuses, role)) = Cardinality(Of(role))
        OBVIOUS
  <2>2. FilterByRole(statuses, role) = Filter(statuses, Of(role))
        BY <1>4 DEF FilterByRole
  <2>3. QED BY <1>7, <2>2
<1>14. /\ Of("signer") \union Of("paymaster") \union Of("storage") \union Of("artifact") = 1 .. n
       /\ Of("signer") \intersect Of("paymaster") = {}
       /\ (Of("signer") \union Of("paymaster")) \intersect Of("storage") = {}
       /\ (Of("signer") \union Of("paymaster") \union Of("storage")) \intersect Of("artifact") = {}
       BY <1>2, <1>4
<1>15. Cardinality(Of("signer")) + Cardinality(Of("paymaster")) + Cardinality(Of("storage"))
         + Cardinality(Of("artifact")) = n
  <2>1. PICK A, B, C, D : /\ A = Of("signer") /\ B = Of("paymaster")
                          /\ C = Of("storage") /\ D = Of("artifact")
        OBVIOUS
  <2> HIDE DEF Of
  <2>2. Parted(n, A, B, C, D)
        BY <1>14, <2>1 DEF Parted
  <2>3. AddUp(n, A, B, C, D)
        BY <2>2, FourParts, ZenonT(60)
  <2>4. Cardinality(A) + Cardinality(B) + Cardinality(C) + Cardinality(D) = n
        BY <2>3 DEF AddUp
  <2>5. QED BY <2>1, <2>4
<1> HIDE DEF Of
<1>16. Counted(fleet, out)
  <2>1. out.healthy + out.unhealthy = out.total
        BY <1>9, <1>12
  <2>2. /\ Len(FilterByRole(out.providers, "signer")) = Cardinality(Of("signer"))
        /\ Len(FilterByRole(out.providers, "paymaster")) = Cardinality(Of("paymaster"))
        /\ Len(FilterByRole(out.providers, "storage")) = Cardinality(Of("storage"))
        /\ Len(FilterByRole(out.providers, "artifact")) = Cardinality(Of("artifact"))
        BY <1>12, <1>13
  <2>3. QED BY <1>10, <1>12, <1>15, <2>1, <2>2 DEF Counted
<1>17. QED BY <1>3, <1>11, <1>16

-----------------------------------------------------------------------------
\* A request that is refused could not have been executed.
Unexecutable(r) ==
    \/ r.target \in {Undefined, <<>>}
    \/ r.gas # Undefined /\ (r.gas.bigInt = Thrown \/ r.gas.bigInt <= 0)
    \/ r.valueTomi # Undefined /\ (r.valueTomi.bigInt = Thrown \/ r.valueTomi.bigInt < 0)

\* The validation refuses no request that could have been executed.
LEMMA RefusedRequests ==
    ASSUME NEW r \in DelegatedRequests, ValidateDelegatedRequest(r) # {}
    PROVE  Unexecutable(r)
<1>1. /\ r.gas # Undefined /\ r.gas.bigInt # Thrown =>
           /\ ~r.gas.isNaN /\ r.gas.bigInt \in Int
           /\ r.gas.sign = IF r.gas.bigInt > 0 THEN 1 ELSE IF r.gas.bigInt < 0 THEN -1 ELSE 0
      /\ r.valueTomi # Undefined /\ r.valueTomi.bigInt # Thrown =>
           /\ ~r.valueTomi.isNaN /\ r.valueTomi.bigInt \in Int
           /\ r.valueTomi.sign = IF r.valueTomi.bigInt > 0 THEN 1
                                 ELSE IF r.valueTomi.bigInt < 0 THEN -1 ELSE 0
      BY ProvidersAssumption DEF IsAmount
<1>2. \/ r.target \in {Undefined, <<>>}
      \/ r.gas # Undefined /\ (r.gas.isNaN \/ r.gas.sign <= 0)
      \/ r.valueTomi # Undefined /\ (r.valueTomi.isNaN \/ r.valueTomi.sign < 0)
      BY DEF ValidateDelegatedRequest
<1>3. QED BY <1>1, <1>2 DEF Unexecutable

\* A request for evidence that is valid has a life, and keeps the flag it was given.
LEMMA EvidenceRequested ==
    ASSUME NEW params \in EvidenceParams, ValidateEvidenceParams(params) = {}
    PROVE  LET out == BuildEvidenceCaptureRequest(params)
           IN  out.ttl_seconds > 0 /\ (out.auto_anchor = FALSE <=> params.autoAnchor = FALSE)
<1>1. /\ params.ttlSeconds \in Int \union {Undefined}
      /\ params.autoAnchor \in BOOLEAN \union {Undefined}
      BY ProvidersAssumption
<1>2. params.ttlSeconds # Undefined => params.ttlSeconds > 0
      BY <1>1 DEF ValidateEvidenceParams
<1>3. Undefined # FALSE
      BY SpecialAssumption
<1>4. PICK out : out = BuildEvidenceCaptureRequest(params)
      OBVIOUS
<1>5. out.ttl_seconds > 0
  <2>1. out.ttl_seconds = IF params.ttlSeconds = Undefined THEN 7200 ELSE params.ttlSeconds
        BY <1>4 DEF BuildEvidenceCaptureRequest
  <2>2. QED BY <1>1, <1>2, <2>1
<1>6. out.auto_anchor = FALSE <=> params.autoAnchor = FALSE
  <2>1. out.auto_anchor = IF params.autoAnchor = Undefined THEN TRUE ELSE params.autoAnchor
        BY <1>4 DEF BuildEvidenceCaptureRequest
  <2>2. CASE params.autoAnchor = Undefined
        BY <1>3, <2>1, <2>2, Zenon
  <2>3. CASE params.autoAnchor # Undefined
        BY <2>1, <2>3, Zenon
  <2>4. QED BY <2>2, <2>3, Zenon
<1>7. QED BY <1>4, <1>5, <1>6, Zenon

-----------------------------------------------------------------------------
\* A text without spaces at its ends is trimmed already.
Solid(text) == text # <<>> /\ text[1] # 32 /\ text[Len(text)] # 32

\* Trimming such a text leaves it as it is.
LEMMA SolidIsTrimmed ==
    ASSUME NEW text \in Seq(Nat), Solid(text)
    PROVE  Trimmed(text) = text
<1> DEFINE letters == {i \in DOMAIN text : text[i] # 32}
<1>1. PICK n \in Nat : n = Len(text) /\ n >= 1 /\ DOMAIN text = 1 .. n
      BY DEF Solid
<1>2. 1 \in letters /\ n \in letters /\ letters \subseteq 1 .. n
      BY <1>1 DEF Solid
<1>3. (CHOOSE i \in letters : \A j \in letters : i <= j) = 1
  <2>1. \A i \in letters : (\A j \in letters : i <= j) <=> i = 1
        BY <1>2
  <2>2. QED BY <1>2, <2>1
<1>4. (CHOOSE i \in letters : \A j \in letters : j <= i) = n
  <2>1. \A i \in letters : (\A j \in letters : j <= i) <=> i = n
        BY <1>2
  <2>2. QED BY <1>2, <2>1
<1>5. Trimmed(text) = SubSeq(text, 1, n)
      BY <1>2, <1>3, <1>4 DEF Trimmed
<1>6. SubSeq(text, 1, n) = text
      BY <1>1
<1>7. QED BY <1>5, <1>6

\* What is trimmed is nothing when the text is of spaces, and solid otherwise.
LEMMA TrimmedFacts ==
    ASSUME NEW text \in Seq(Nat)
    PROVE  /\ Trimmed(text) \in Seq(Nat)
           /\ Trimmed(text) = <<>> => {i \in DOMAIN text : text[i] # 32} = {}
           /\ Trimmed(text) # <<>> => Solid(Trimmed(text))
<1> DEFINE letters == {i \in DOMAIN text : text[i] # 32}
<1>1. PICK n \in Nat : n = Len(text) /\ DOMAIN text = 1 .. n
      OBVIOUS
<1>2. CASE letters = {}
      BY <1>2 DEF Trimmed
<1>3. CASE letters # {}
  <2>1. letters \subseteq 1 .. n /\ letters \subseteq Nat
        BY <1>1
  <2>2. PICK a \in letters : a = CHOOSE i \in letters : \A j \in letters : i <= j
    <3>1. \E i \in letters : \A j \in letters : i <= j
          BY <1>3, <2>1, LeastNumber
    <3>2. QED BY <3>1
  <2>3. PICK b \in letters : /\ b = CHOOSE i \in letters : \A j \in letters : j <= i
                             /\ \A j \in letters : j <= b
    <3>1. \E i \in letters : \A j \in letters : j <= i
          BY <1>3, <2>1, GreatestNumber
    <3>2. QED BY <3>1
  <2>4. Trimmed(text) = SubSeq(text, a, b)
        BY <1>3, <2>2, <2>3 DEF Trimmed
  <2>5. a \in 1 .. n /\ b \in 1 .. n /\ a <= b /\ text[a] # 32 /\ text[b] # 32
        BY <2>1, <2>3
  <2>6. PICK m \in Nat : m = a - 1 /\ a = m + 1 /\ m <= b /\ b \in Nat /\ b <= Len(text)
        BY <1>1, <2>5
  <2>7. PICK t : t = SubSeq(text, m + 1, b)
        OBVIOUS
  <2>8. t \in Seq(Nat) /\ Len(t) = b - m /\ \A i \in 1 .. b - m : t[i] = text[m + i]
        BY <2>6, <2>7, PartFacts
  <2>9. Len(t) >= 1 /\ t[1] = text[a] /\ t[Len(t)] = text[b]
    <3>1. b - m \in Nat /\ b - m >= 1 /\ m + (b - m) = b
          BY <2>5, <2>6
    <3>2. t[1] = text[m + 1] /\ t[b - m] = text[m + (b - m)]
          BY <2>8, <3>1
    <3>3. QED BY <2>6, <2>8, <3>1, <3>2
  <2>10. Solid(t)
        BY <2>5, <2>8, <2>9 DEF Solid
  <2>11. Trimmed(text) = t
        BY <2>4, <2>6, <2>7
  <2>12. QED BY <2>8, <2>10, <2>11 DEF Solid
<1>4. QED BY <1>2, <1>3

\* A filter by text is lost only when it is of spaces, and stays as it is once it is built.
LEMMA TextsSearched ==
    ASSUME NEW text \in Seq(Nat) \union {Undefined}
    PROVE  /\ SearchText(SearchText(text)) = SearchText(text)
           /\ SearchText(text) = Undefined =>
                text = Undefined \/ {i \in DOMAIN text : text[i] # 32} = {}
<1>1. CASE text = Undefined
      BY <1>1 DEF SearchText
<1>2. CASE text \in Seq(Nat)
  <2>1. PICK t \in Seq(Nat) : t = Trimmed(text)
        BY <1>2, TrimmedFacts
  <2>2. /\ t = <<>> => {i \in DOMAIN text : text[i] # 32} = {}
        /\ t # <<>> => Solid(t)
        BY <1>2, <2>1, TrimmedFacts
  <2>3. text # Undefined /\ t # Undefined
        BY <1>2, NotSpecial
  <2>4. CASE t = <<>>
        BY <2>1, <2>2, <2>3, <2>4 DEF SearchText
  <2>5. CASE t # <<>>
    <3>1. Trimmed(t) = t
          BY <2>2, <2>5, SolidIsTrimmed
    <3>2. SearchText(text) = t /\ SearchText(t) = t
          BY <2>1, <2>3, <2>5, <3>1 DEF SearchText
    <3>3. QED BY <2>3, <3>2
  <2>6. QED BY <2>4, <2>5
<1>3. QED BY <1>1, <1>2

\* Of the kinds the public ones are searched for.
LEMMA KindsSearched ==
    ASSUME NEW kinds \in Seq(STRING) \union {Undefined}
    PROVE  LET out == SearchKinds(kinds)
           IN  /\ SearchKinds(out) = out
               /\ out # Undefined =>
                    ToSet(out) = ToSet(kinds) \intersect PublicProofKinds /\ out # <<>>
               /\ out = Undefined /\ kinds # Undefined =>
                    ToSet(kinds) \intersect PublicProofKinds = {}
<1>1. CASE kinds = Undefined
      BY <1>1 DEF SearchKinds
<1>2. CASE kinds \in Seq(STRING)
  <2>1. PICK passing : passing = {i \in DOMAIN kinds : kinds[i] \in PublicProofKinds}
        OBVIOUS
  <2>2. PICK public : public = Filter(kinds, passing)
        OBVIOUS
  <2>3. Filtered(STRING, public, Len(kinds), kinds, passing)
        BY <1>2, <2>2, FilterFacts
  <2>4. public \in Seq(STRING)
        BY <2>3 DEF Filtered
  <2>5. ToSet(public) = ToSet(kinds) \intersect PublicProofKinds
    <3>1. DOMAIN kinds = 1 .. Len(kinds)
          BY <1>2
    <3>2. ToSet(public) = {kinds[k] : k \in passing}
      <4>1. passing \intersect (1 .. Len(kinds)) = passing
            BY <2>1, <3>1
      <4>2. QED BY <2>3, <4>1 DEF Filtered
    <3>3. QED BY <2>1, <3>2 DEF ToSet
  <2>6. kinds # Undefined /\ public # Undefined
        BY <1>2, <2>4, SpecialAssumption
  <2>7. SearchKinds(kinds) = IF public = <<>> THEN Undefined ELSE public
        BY <2>1, <2>2, <2>6 DEF SearchKinds
  <2>8. CASE public = <<>>
    <3>1. ToSet(public) = {}
          BY <2>8 DEF ToSet
    <3>2. SearchKinds(Undefined) = Undefined
          BY DEF SearchKinds
    <3>3. QED BY <2>5, <2>7, <2>8, <3>1, <3>2
  <2>9. CASE public # <<>>
    <3>1. PICK n \in Nat : n = Len(public) /\ DOMAIN public = 1 .. n
          BY <2>4
    <3>2. PICK all : all = {i \in DOMAIN public : public[i] \in PublicProofKinds}
          OBVIOUS
    <3>3. 1 .. n \subseteq all
      <4>1. \A i \in DOMAIN public : public[i] \in ToSet(public)
            BY DEF ToSet
      <4>2. QED BY <2>5, <3>1, <3>2, <4>1
    <3>4. PICK again : again = Filter(public, all)
          OBVIOUS
    <3>5. Filtered(STRING, again, n, public, all)
          BY <2>4, <3>1, <3>4, FilterFacts
    <3>6. again = public
      <4>1. again \in Seq(STRING) /\ Len(again) = n /\ \A j \in 1 .. n : again[j] = public[j]
            BY <3>3, <3>5 DEF Filtered
      <4>2. QED BY <2>4, <3>1, <4>1, SameSequence
    <3>7. SearchKinds(public) = public
          BY <2>6, <2>9, <3>2, <3>4, <3>6 DEF SearchKinds
    <3>8. SearchKinds(kinds) = public
          BY <2>7, <2>9
    <3>9. QED BY <2>5, <2>6, <2>9, <3>7, <3>8
  <2>10. QED BY <2>8, <2>9
<1>3. QED BY <1>1, <1>2

\* A search is not widened by being built, unless every kind it asked for is foreign.
SearchedFor(asked, out) ==
    LET Asked(f) == {i \in DOMAIN asked[f] : asked[f][i] # 32}
    IN  /\ BuildProofArtifactSearchParams(out) = out
        /\ out.kinds # Undefined =>
             /\ ToSet(out.kinds) = ToSet(asked.kinds) \intersect PublicProofKinds
             /\ out.kinds # <<>>
        /\ out.kinds = Undefined /\ asked.kinds # Undefined =>
             ToSet(asked.kinds) \intersect PublicProofKinds = {}
        /\ \A f \in {"sourceUrlPrefix", "subjectId"} :
             out[f] = Undefined => asked[f] = Undefined \/ Asked(f) = {}

\* What a search asks for is what it was given, without what is empty.
LEMMA SearchesBuilt ==
    ASSUME NEW asked \in SearchParams
    PROVE  SearchedFor(asked, BuildProofArtifactSearchParams(asked))
<1>1. /\ asked.kinds \in Seq(STRING) \union {Undefined}
      /\ asked.sourceUrlPrefix \in Seq(Nat) \union {Undefined}
      /\ asked.subjectId \in Seq(Nat) \union {Undefined}
      BY ProvidersAssumption
<1>2. PICK out : out = BuildProofArtifactSearchParams(asked)
      OBVIOUS
<1>3. out = [kinds |-> SearchKinds(asked.kinds),
             sourceUrlPrefix |-> SearchText(asked.sourceUrlPrefix),
             subjectId |-> SearchText(asked.subjectId),
             verifiedOnly |-> SearchFlag(asked.verifiedOnly),
             anchoredOnly |-> SearchFlag(asked.anchoredOnly)]
      BY <1>2 DEF BuildProofArtifactSearchParams
<1>4. \A flag : SearchFlag(SearchFlag(flag)) = SearchFlag(flag)
      BY DEF SearchFlag
<1>5. /\ out.kinds = SearchKinds(asked.kinds)
      /\ out.sourceUrlPrefix = SearchText(asked.sourceUrlPrefix)
      /\ out.subjectId = SearchText(asked.subjectId)
      /\ out.verifiedOnly = SearchFlag(asked.verifiedOnly)
      /\ out.anchoredOnly = SearchFlag(asked.anchoredOnly)
      BY <1>3
<1>6. /\ SearchKinds(out.kinds) = out.kinds
      /\ out.kinds # Undefined =>
           ToSet(out.kinds) = ToSet(asked.kinds) \intersect PublicProofKinds /\ out.kinds # <<>>
      /\ out.kinds = Undefined /\ asked.kinds # Undefined =>
           ToSet(asked.kinds) \intersect PublicProofKinds = {}
      BY <1>1, <1>5, KindsSearched
<1>7. /\ SearchText(out.sourceUrlPrefix) = out.sourceUrlPrefix
      /\ out.sourceUrlPrefix = Undefined =>
           \/ asked.sourceUrlPrefix = Undefined
           \/ {i \in DOMAIN asked.sourceUrlPrefix : asked.sourceUrlPrefix[i] # 32} = {}
      BY <1>1, <1>5, TextsSearched
<1>8. /\ SearchText(out.subjectId) = out.subjectId
      /\ out.subjectId = Undefined =>
           \/ asked.subjectId = Undefined
           \/ {i \in DOMAIN asked.subjectId : asked.subjectId[i] # 32} = {}
      BY <1>1, <1>5, TextsSearched
<1>9. BuildProofArtifactSearchParams(out) = out
  <2>1. BuildProofArtifactSearchParams(out)
          = [kinds |-> out.kinds, sourceUrlPrefix |-> out.sourceUrlPrefix,
             subjectId |-> out.subjectId, verifiedOnly |-> out.verifiedOnly,
             anchoredOnly |-> out.anchoredOnly]
        BY <1>4, <1>5, <1>6, <1>7, <1>8 DEF BuildProofArtifactSearchParams
  <2>2. QED BY <1>3, <1>5, <2>1
<1>10. \A f \in {"sourceUrlPrefix", "subjectId"} :
          out[f] = Undefined =>
            asked[f] = Undefined \/ {i \in DOMAIN asked[f] : asked[f][i] # 32} = {}
       BY <1>7, <1>8
<1>11. SearchedFor(asked, out)
       BY <1>6, <1>9, <1>10 DEF SearchedFor
<1>12. QED BY <1>2, <1>11

-----------------------------------------------------------------------------
\* ProvidersAnswer is about no other call.
LEMMA OtherThanProviders ==
    ASSUME task'.kind \notin {"provider", "fleet", "delegated", "evidence", "search"}
    PROVE  ProvidersAnswer'
BY DEF ProvidersAnswer, Calling

\* The kinds of the other calls.
LEMMA ConversionCalls ==
    ASSUME \/ ConvertNumber \/ ConvertBytes \/ ConvertHex \/ ConvertBool \/ ConvertText
           \/ TrimValue \/ SliceValue \/ ParseDecimal \/ FormatDecimal
           \/ SerializeParameters \/ SerializeOverrides \/ ParseAnswer
    PROVE  task'.kind \in {"number", "bytes", "hex", "bool", "text", "trim", "trimBytes", "slice",
                           "parse", "format", "parameters", "overrides", "answer"}
<1>1. ASSUME \/ ConvertNumber \/ ConvertBytes \/ ConvertHex \/ ConvertBool \/ ConvertText
             \/ TrimValue \/ SliceValue \/ ParseDecimal \/ FormatDecimal
      PROVE  task'.kind \in {"number", "bytes", "hex", "bool", "text", "trim", "trimBytes", "slice",
                             "parse", "format"}
      BY <1>1 DEF ConvertNumber, ConvertBytes, ConvertHex, ConvertBool, ConvertText, TrimValue,
                  SliceValue, ParseDecimal, FormatDecimal, Call
<1>2. ASSUME SerializeParameters \/ SerializeOverrides \/ ParseAnswer
      PROVE  task'.kind \in {"parameters", "overrides", "answer"}
      BY <1>2 DEF SerializeParameters, SerializeOverrides, ParseAnswer, Call
<1>3. QED BY <1>1, <1>2

\* After every step the call in progress, if there is one, is answered.
LEMMA ProvidersCalls ==
    ASSUME Next
    PROVE  ProvidersAnswer'
<1>1. ASSUME Return PROVE ProvidersAnswer'
      BY <1>1 DEF Return, ProvidersAnswer, Calling
<1>2. ASSUME CallProvider PROVE ProvidersAnswer'
  <2>1. PICK provider \in {SignerProvider, PaymasterProvider, StorageProvider, ArtifactProvider},
             base \in BaseUrls, headers \in HeaderValues, argument \in Texts,
             response \in Responses :
          \E method \in DOMAIN provider :
            /\ task' = [kind |-> "provider", endpoint |-> provider[method], argument |-> argument,
                        base |-> base, headers |-> headers, response |-> response]
            /\ result' =
                 [request |-> ProviderRequest([baseUrl |-> base, headers |-> headers],
                                              provider[method], argument),
                  answer |-> ProviderAnswer(response),
                  check |-> CheckProviderHealth(RegisterProvider(argument, "signer", base), response)]
        BY <1>2 DEF CallProvider, Call
  <2>2. PICK endpoint :
            /\ task' = [kind |-> "provider", endpoint |-> endpoint, argument |-> argument,
                        base |-> base, headers |-> headers, response |-> response]
            /\ result' =
                 [request |-> ProviderRequest([baseUrl |-> base, headers |-> headers],
                                              endpoint, argument),
                  answer |-> ProviderAnswer(response),
                  check |-> CheckProviderHealth(RegisterProvider(argument, "signer", base), response)]
        BY <2>1
  <2>3. /\ argument \in Seq(0 .. 255) /\ base \in Seq(Nat)
        /\ headers = Undefined \/ headers.form \in {"Headers", "array", "record"}
        /\ response = Unreachable \/ response.ok \in BOOLEAN
        BY ProvidersAssumption
  <2>4. Provided(endpoint, argument, base, headers, response, result')
        BY <2>2, <2>3, ProvidersCalled
  <2>5. /\ task'.kind = "provider" /\ task'.endpoint = endpoint /\ task'.argument = argument
        /\ task'.base = base /\ task'.headers = headers /\ task'.response = response
        BY <2>2
  <2>6. QED BY <2>4, <2>5 DEF ProvidersAnswer, Calling, Provided
<1>3. ASSUME CheckFleet PROVE ProvidersAnswer'
  <2>1. PICK fleet \in Fleets :
          /\ task' = [kind |-> "fleet", fleet |-> fleet]
          /\ result' = AggregateFleetStatus([i \in DOMAIN fleet |->
                 CheckProviderHealth(RegisterProvider(fleet[i].address, fleet[i].role,
                                                      fleet[i].baseUrl), fleet[i].response)])
        BY <1>3 DEF CheckFleet, Call
  <2>2. task'.kind = "fleet" /\ task'.fleet = fleet
        BY <2>1
  <2>3. Counted(fleet, result')
        BY <2>1, FleetsCounted
  <2>4. QED BY <2>2, <2>3 DEF ProvidersAnswer, Calling, Counted
<1>4. ASSUME DelegateExecution PROVE ProvidersAnswer'
  <2>1. PICK r \in DelegatedRequests : /\ task' = [kind |-> "delegated", request |-> r]
                                       /\ result' = ValidateDelegatedRequest(r)
        BY <1>4 DEF DelegateExecution, Call
  <2>2. task'.kind = "delegated" /\ task'.request = r
        BY <2>1
  <2>3. result' # {} => Unexecutable(r)
        BY <2>1, RefusedRequests
  <2>4. QED BY <2>2, <2>3 DEF ProvidersAnswer, Calling, Unexecutable
<1>5. ASSUME CaptureEvidence PROVE ProvidersAnswer'
  <2>1. PICK params \in EvidenceParams :
          /\ ValidateEvidenceParams(params) = {}
          /\ task' = [kind |-> "evidence", params |-> params]
          /\ result' = BuildEvidenceCaptureRequest(params)
        BY <1>5 DEF CaptureEvidence, Call
  <2>2. task'.kind = "evidence" /\ task'.params = params
        BY <2>1
  <2>3. result'.ttl_seconds > 0 /\ (result'.auto_anchor = FALSE <=> params.autoAnchor = FALSE)
        BY <2>1, EvidenceRequested
  <2>4. QED BY <2>2, <2>3 DEF ProvidersAnswer, Calling
<1>6. ASSUME SearchProofs PROVE ProvidersAnswer'
  <2>1. PICK params \in SearchParams : /\ task' = [kind |-> "search", params |-> params]
                                       /\ result' = BuildProofArtifactSearchParams(params)
        BY <1>6 DEF SearchProofs, Call
  <2>2. task'.kind = "search" /\ task'.params = params
        BY <2>1
  <2>3. SearchedFor(params, result')
        BY <2>1, SearchesBuilt
  <2>4. QED BY <2>2, <2>3 DEF ProvidersAnswer, Calling, SearchedFor
<1>7. ASSUME \/ ConvertNumber \/ ConvertBytes \/ ConvertHex \/ ConvertBool \/ ConvertText
             \/ TrimValue \/ SliceValue \/ ParseDecimal \/ FormatDecimal
             \/ SerializeParameters \/ SerializeOverrides \/ ParseAnswer
      PROVE  ProvidersAnswer'
      BY <1>7, ConversionCalls, OtherThanProviders
<1>8. QED BY <1>1, <1>2, <1>3, <1>4, <1>5, <1>6, <1>7 DEF Next

\* A call of a provider reaches the endpoint behind the base URL with the argument in one
\* piece, and returns the answer or throws when there is none; with a body it carries the
\* headers the configuration gives as a plain object and no other of its headers, and without
\* a body none; the health check never throws, and the counts of a fleet add up; no search is
\* widened by being built, valid evidence has a life, and no request is refused that could
\* have been executed (create*ProviderClient, operatorControl, proofMarket, evidence,
\* delegatedExecution).
THEOREM ProvidersAreAnswered == Spec => []ProvidersAnswer
<1>1. Init => ProvidersAnswer
      BY DEF Init, ProvidersAnswer, Calling
<1>2. ProvidersAnswer /\ [Next]_vars => ProvidersAnswer'
  <2>1. ASSUME ProvidersAnswer, UNCHANGED vars
        PROVE  ProvidersAnswer'
    <3>1. task' = task /\ result' = result
          BY <2>1 DEF vars
    <3>2. QED BY <2>1, <3>1, ZenonT(180) DEF ProvidersAnswer, Calling
  <2>2. QED BY <2>1, ProvidersCalls
<1>3. QED BY <1>1, <1>2, PTL DEF Spec
===========================================================================

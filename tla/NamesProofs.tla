---------------------------- MODULE NamesProofs ----------------------------
(***************************************************************************)
(* Proofs about Names, for all characters of Unicode, strays of any kind,  *)
(* texts of any length and arrays of any size: what arrives of a text are  *)
(* its characters, as many as fit.                                         *)
(***************************************************************************)
EXTENDS Names, SequenceTheorems, WellFoundedInduction, TLAPS

-----------------------------------------------------------------------------
(***************************************************************************)
(* One code point: what encode writes, decode reads.                       *)
(***************************************************************************)

\* Two to four units, as sequences.
LEMMA Units ==
  ASSUME NEW a \in Nat, NEW b \in Nat, NEW c \in Nat, NEW d \in Nat
  PROVE  /\ <<a>> \in Seq(Nat) /\ Len(<<a>>) = 1 /\ <<a>>[1] = a
         /\ <<a, b>> \in Seq(Nat) /\ Len(<<a, b>>) = 2 /\ <<a, b>>[1] = a /\ <<a, b>>[2] = b
         /\ <<a, b, c>> \in Seq(Nat) /\ Len(<<a, b, c>>) = 3
         /\ <<a, b, c>>[1] = a /\ <<a, b, c>>[2] = b /\ <<a, b, c>>[3] = c
         /\ <<a, b, c, d>> \in Seq(Nat) /\ Len(<<a, b, c, d>>) = 4
         /\ <<a, b, c, d>>[1] = a /\ <<a, b, c, d>>[2] = b
         /\ <<a, b, c, d>>[3] = c /\ <<a, b, c, d>>[4] = d
  OBVIOUS

\* The least of a set of numbers.
LEMMA LeastIsMin ==
  ASSUME NEW S \in SUBSET Int, NEW m \in S, \A i \in S : m <= i
  PROVE  Min(S) = m
  <1>1. Min(S) \in S /\ \A i \in S : Min(S) <= i
    BY Zenon DEF Min
  <1>2. m \in Int /\ Min(S) \in Int /\ m <= Min(S) /\ Min(S) <= m
    BY <1>1
  <1> QED
    BY <1>2

LEMMA TrailLength ==
  ASSUME NEW c \in Nat
  PROVE  trail_length(c) \in {-1, 0, 1, 2, 3}
  BY SMT DEF trail_length

\* The first unit that should follow and does not.
Offends(s, p, m) ==
  /\ p + m <= Len(s) /\ ~is_trail(s[p + m])
  /\ \A i \in 1 .. m - 1 : is_trail(s[p + i])

\* The four ways in which reading ends.
LEMMA Decode8 ==
  ASSUME NEW s \in Seq(Nat), NEW p \in 1 .. Len(s), NEW t \in Int, t = trail_length(s[p])
  PROVE  /\ t < 0 => decode8(s, p) = Read(illegal, p + 1)
         /\ \A m \in 1 .. t : Offends(s, p, m) => decode8(s, p) = Read(illegal, p + m + 1)
         /\ /\ t >= 0 /\ p + t > Len(s)
            /\ \A i \in 1 .. t : p + i <= Len(s) => is_trail(s[p + i])
            => decode8(s, p) = Read(incomplete, Len(s) + 1)
         /\ /\ t >= 0 /\ p + t <= Len(s)
            /\ \A i \in 1 .. t : is_trail(s[p + i])
            => decode8(s, p) = Read(IF /\ is_valid_codepoint(CodePoint8(s, p, t))
                                       /\ width8(CodePoint8(s, p, t)) = t + 1
                                    THEN CodePoint8(s, p, t) ELSE illegal, p + t + 1)
  <1> DEFINE offending == {i \in 1 .. t : p + i <= Len(s) /\ ~is_trail(s[p + i])}
             c == CodePoint8(s, p, t)
             Ends == CASE t < 0 -> Read(illegal, p + 1)
                       [] t >= 0 /\ offending # {} -> Read(illegal, p + Min(offending) + 1)
                       [] t >= 0 /\ offending = {} /\ p + t > Len(s) -> Read(incomplete, Len(s) + 1)
                       [] OTHER -> Read(IF is_valid_codepoint(c) /\ width8(c) = t + 1
                                        THEN c ELSE illegal, p + t + 1)
  <1>1. decode8(s, p) = Ends
    BY DEF decode8
  <1>2. ASSUME t < 0
        PROVE  decode8(s, p) = Read(illegal, p + 1)
    <2>1. ~(t >= 0)
      BY <1>2
    <2> HIDE DEF offending, c
    <2> QED
      BY <1>1, <1>2, <2>1
  <1>3. ASSUME NEW m \in 1 .. t, Offends(s, p, m)
        PROVE  decode8(s, p) = Read(illegal, p + m + 1)
    <2>1. m \in offending /\ \A i \in 1 .. m - 1 : is_trail(s[p + i])
      BY <1>3 DEF Offends
    <2>2. ASSUME NEW i \in offending PROVE m <= i /\ i \in Int
      <3>1. i \in 1 .. t /\ ~is_trail(s[p + i])
        OBVIOUS
      <3>2. i \notin 1 .. m - 1
        BY <2>1, <3>1
      <3> QED
        BY <3>1, <3>2
    <2> HIDE DEF offending, c
    <2>4. Min(offending) = m
      <3>1. offending \in SUBSET Int /\ \A i \in offending : m <= i
        BY <2>2
      <3> QED
        BY <2>1, <3>1, LeastIsMin
    <2>5. t >= 0 /\ ~(t < 0) /\ offending # {}
      BY <2>1
    <2> QED
      BY <1>1, <2>4, <2>5
  <1>4. ASSUME t >= 0, \A i \in 1 .. t : p + i <= Len(s) => is_trail(s[p + i])
        PROVE  /\ p + t > Len(s) => decode8(s, p) = Read(incomplete, Len(s) + 1)
               /\ p + t <= Len(s) =>
                    decode8(s, p) = Read(IF is_valid_codepoint(c) /\ width8(c) = t + 1
                                         THEN c ELSE illegal, p + t + 1)
    <2>1. offending = {} /\ ~(t < 0)
      BY <1>4
    <2> HIDE DEF offending, c
    <2>2. CASE p + t > Len(s)
      <3>1. ~(p + t <= Len(s))
        BY <2>2
      <3> QED
        BY <1>1, <1>4, <2>1, <2>2, <3>1
    <2>3. CASE ~(p + t > Len(s))
      BY <1>1, <1>4, <2>1, <2>3
    <2> QED
      BY <2>2, <2>3
  <1>5. ASSUME t >= 0, p + t <= Len(s), \A i \in 1 .. t : is_trail(s[p + i])
        PROVE  decode8(s, p) = Read(IF is_valid_codepoint(c) /\ width8(c) = t + 1
                                    THEN c ELSE illegal, p + t + 1)
    <2>1. \A i \in 1 .. t : p + i <= Len(s) => is_trail(s[p + i])
      BY <1>5
    <2> HIDE DEF c
    <2> QED
      BY <1>4, <1>5, <2>1
  <1> HIDE DEF c
  <1>6. (t >= 0 /\ p + t > Len(s) /\ \A i \in 1 .. t : p + i <= Len(s) => is_trail(s[p + i]))
          => decode8(s, p) = Read(incomplete, Len(s) + 1)
    BY <1>4
  <1> QED
    BY <1>2, <1>3, <1>5, <1>6 DEF c

LEMMA Nothing8 ==
  ASSUME NEW s \in Seq(Nat), NEW p \in 1 .. Len(s), trail_length(s[p]) < 0
  PROVE  decode8(s, p) = Read(illegal, p + 1)
  <1>1. trail_length(s[p]) \in Int
    BY ElementOfSeq, TrailLength
  <1> QED
    BY <1>1, Decode8

LEMMA Offends8 ==
  ASSUME NEW s \in Seq(Nat), NEW p \in 1 .. Len(s), NEW t \in Int, t = trail_length(s[p]),
         NEW m \in 1 .. t, p + m <= Len(s), ~is_trail(s[p + m]),
         \A i \in 1 .. m - 1 : is_trail(s[p + i])
  PROVE  decode8(s, p) = Read(illegal, p + m + 1)
  <1>1. Offends(s, p, m)
    BY DEF Offends
  <1> QED
    BY <1>1, Decode8

LEMMA BreaksOff8 ==
  ASSUME NEW s \in Seq(Nat), NEW p \in 1 .. Len(s), NEW t \in Nat, t = trail_length(s[p]),
         p + t > Len(s), \A i \in 1 .. t : p + i <= Len(s) => is_trail(s[p + i])
  PROVE  decode8(s, p) = Read(incomplete, Len(s) + 1)
  <1>1. /\ t >= 0 /\ p + t > Len(s)
        /\ \A i \in 1 .. t : p + i <= Len(s) => is_trail(s[p + i])
        => decode8(s, p) = Read(incomplete, Len(s) + 1)
    <2>1. t \in Int
      OBVIOUS
    <2> QED
      BY <2>1, Decode8
  <1> QED
    BY <1>1

LEMMA Whole8 ==
  ASSUME NEW s \in Seq(Nat), NEW p \in 1 .. Len(s), NEW t \in Nat, t = trail_length(s[p]),
         p + t <= Len(s), \A i \in 1 .. t : is_trail(s[p + i])
  PROVE  decode8(s, p) = Read(IF /\ is_valid_codepoint(CodePoint8(s, p, t))
                                 /\ width8(CodePoint8(s, p, t)) = t + 1
                              THEN CodePoint8(s, p, t) ELSE illegal, p + t + 1)
  <1>1. /\ t >= 0 /\ p + t <= Len(s)
        /\ \A i \in 1 .. t : is_trail(s[p + i])
        => decode8(s, p) = Read(IF /\ is_valid_codepoint(CodePoint8(s, p, t))
                                   /\ width8(CodePoint8(s, p, t)) = t + 1
                                THEN CodePoint8(s, p, t) ELSE illegal, p + t + 1)
    <2>1. t \in Int
      OBVIOUS
    <2> QED
      BY <2>1, Decode8
  <1> QED
    BY <1>1

\* A lead unit with all that follow it.
LEMMA ReadWhole8 ==
  ASSUME NEW s \in Seq(Nat), NEW t \in 0..3, Len(s) = t + 1, trail_length(s[1]) = t,
         \A i \in 2 .. Len(s) : is_trail(s[i]),
         is_valid_codepoint(CodePoint8(s, 1, t)), width8(CodePoint8(s, 1, t)) = t + 1
  PROVE  decode8(s, 1) = Read(CodePoint8(s, 1, t), Len(s) + 1)
  <1>1. 1 \in 1 .. Len(s) /\ t \in Int /\ t >= 0 /\ 1 + t <= Len(s) /\ 1 + t + 1 = Len(s) + 1
    OBVIOUS
  <1>2. ASSUME NEW i \in 1 .. t PROVE is_trail(s[1 + i])
    <2>1. 1 + i \in 2 .. Len(s)
      OBVIOUS
    <2> QED
      BY <2>1
  <1>3. t = trail_length(s[1])
    OBVIOUS
  <1>4. decode8(s, 1) = Read(IF /\ is_valid_codepoint(CodePoint8(s, 1, t))
                                /\ width8(CodePoint8(s, 1, t)) = t + 1
                             THEN CodePoint8(s, 1, t) ELSE illegal, 1 + t + 1)
    BY <1>1, <1>2, <1>3, Whole8
  <1> QED
    BY <1>1, <1>4

\* Numbers that are put together of six bits each.
LEMMA Bits ==
  ASSUME NEW c \in Nat, c <= 1114111
  PROVE  /\ c % 64 \in 0..63 /\ (c \div 64) % 64 \in 0..63 /\ (c \div 4096) % 64 \in 0..63
         /\ (128 + (c % 64)) % 64 = c % 64
         /\ (128 + ((c \div 64) % 64)) % 64 = (c \div 64) % 64
         /\ (128 + ((c \div 4096) % 64)) % 64 = (c \div 4096) % 64
         /\ c \div 64 \in Nat /\ c \div 4096 \in Nat /\ c \div 262144 \in Nat
  OBVIOUS

\* The units that a code point is encoded to: one lead unit and t others.
IsEncoded8(u, t, c) ==
  /\ u \in Seq(Nat) /\ Len(u) = t + 1 /\ trail_length(u[1]) = t
  /\ \A i \in 2 .. Len(u) : is_trail(u[i])
  /\ CodePoint8(u, 1, t) = c
  /\ t = 0 => u = <<c>>
  /\ t # 0 => \A i \in 1 .. Len(u) : u[i] >= 128

LEMMA Encoded8 ==
  ASSUME NEW c \in Nat, is_valid_codepoint(c)
  PROVE  \E t \in 0..3 : width8(c) = t + 1 /\ IsEncoded8(encode8(c), t, c)
  <1>0. c <= 1114111
    BY DEF is_valid_codepoint
  <1>a. /\ c % 64 \in 0..63 /\ (c \div 64) % 64 \in 0..63 /\ (c \div 4096) % 64 \in 0..63
        /\ (128 + (c % 64)) % 64 = c % 64
        /\ (128 + ((c \div 64) % 64)) % 64 = (c \div 64) % 64
        /\ (128 + ((c \div 4096) % 64)) % 64 = (c \div 4096) % 64
    BY <1>0, Bits
  <1>b. PICK c0 \in 0..63 : c0 = c % 64
    BY <1>a
  <1>c. PICK c1 \in 0..63 : c1 = (c \div 64) % 64
    BY <1>a
  <1>d. PICK c2 \in 0..63 : c2 = (c \div 4096) % 64
    BY <1>a
  <1>e. (128 + c0) % 64 = c0 /\ (128 + c1) % 64 = c1 /\ (128 + c2) % 64 = c2
    BY <1>a, <1>b, <1>c, <1>d
  <1>f. /\ is_trail(128 + c0) /\ is_trail(128 + c1) /\ is_trail(128 + c2)
        /\ 128 + c0 \in Nat /\ 128 + c1 \in Nat /\ 128 + c2 \in Nat
    BY DEF is_trail
  <1>1. CASE c <= 127
    <2>1. width8(c) = 1 /\ ~(width8(c) = 2) /\ ~(width8(c) = 3) /\ ~(width8(c) = 4)
      BY <1>1 DEF width8
    <2> DEFINE u == <<c>>
    <2>2. u = <<c>>
      OBVIOUS
    <2> HIDE DEF u
    <2>3. encode8(c) = u
      BY <2>1, <2>2 DEF encode8
    <2>4. u \in Seq(Nat) /\ Len(u) = 1 /\ u[1] = c
      BY <2>2, Units
    <2>5. trail_length(c) = 0
      BY <1>1 DEF trail_length
    <2>6. CodePoint8(u, 1, 0) = u[1]
      BY DEF CodePoint8
    <2>7. IsEncoded8(u, 0, c)
      BY <2>2, <2>4, <2>5, <2>6 DEF IsEncoded8
    <2> QED
      BY <2>1, <2>3, <2>7
  <1>2. CASE 127 < c /\ c <= 2047
    <2>1. width8(c) = 2 /\ ~(width8(c) = 1) /\ ~(width8(c) = 3) /\ ~(width8(c) = 4)
      BY <1>2 DEF width8
    <2>2. PICK h \in Nat : h = c \div 64
      OBVIOUS
    <2>3. h >= 2 /\ h <= 31 /\ h * 64 + c0 = c
      BY <1>2, <1>b, <2>2
    <2>4. (192 + h) % 32 = h
      BY <2>3
    <2> DEFINE u == <<192 + h, 128 + c0>>
    <2>5. u = <<192 + h, 128 + c0>>
      OBVIOUS
    <2> HIDE DEF u
    <2>6. encode8(c) = u
      BY <2>1, <2>2, <2>5, <1>b DEF encode8
    <2>7. u \in Seq(Nat) /\ Len(u) = 2 /\ u[1] = 192 + h /\ u[2] = 128 + c0
      <3>1. 192 + h \in Nat
        OBVIOUS
      <3> QED
        BY <3>1, <1>f, <2>5, Units
    <2>8. trail_length(192 + h) = 1
      BY <2>3 DEF trail_length
    <2>9. CodePoint8(u, 1, 1) = (u[1] % 32) * 64 + (u[1 + 1] % 64)
      BY DEF CodePoint8
    <2>10. CodePoint8(u, 1, 1) = c
      BY <2>9, <2>3, <2>4, <2>7, <1>e
    <2>11. /\ \A i \in 2 .. Len(u) : is_trail(u[i])
           /\ \A i \in 1 .. Len(u) : u[i] >= 128
      BY <2>7, <1>f
    <2>12. IsEncoded8(u, 1, c)
      BY <2>7, <2>8, <2>10, <2>11 DEF IsEncoded8
    <2> QED
      BY <2>1, <2>6, <2>12
  <1>3. CASE 2047 < c /\ c <= 65535
    <2>1. width8(c) = 3 /\ ~(width8(c) = 1) /\ ~(width8(c) = 2) /\ ~(width8(c) = 4)
      BY <1>3 DEF width8
    <2>2. PICK h \in Nat : h = c \div 4096
      OBVIOUS
    <2>3. h <= 15 /\ h * 4096 + c1 * 64 + c0 = c
      BY <1>3, <1>b, <1>c, <2>2
    <2>4. (224 + h) % 16 = h
      BY <2>3
    <2> DEFINE u == <<224 + h, 128 + c1, 128 + c0>>
    <2>5. u = <<224 + h, 128 + c1, 128 + c0>>
      OBVIOUS
    <2> HIDE DEF u
    <2>6. encode8(c) = u
      BY <2>1, <2>2, <2>5, <1>b, <1>c DEF encode8
    <2>7. u \in Seq(Nat) /\ Len(u) = 3 /\ u[1] = 224 + h /\ u[2] = 128 + c1 /\ u[3] = 128 + c0
      <3>1. 224 + h \in Nat
        OBVIOUS
      <3> QED
        BY <3>1, <1>f, <2>5, Units
    <2>8. trail_length(224 + h) = 2
      BY <2>3 DEF trail_length
    <2>9. CodePoint8(u, 1, 2) = (u[1] % 16) * 4096 + (u[1 + 1] % 64) * 64 + (u[1 + 2] % 64)
      BY DEF CodePoint8
    <2>10. CodePoint8(u, 1, 2) = c
      <3>1. u[1] % 16 = h /\ u[1 + 1] % 64 = c1 /\ u[1 + 2] % 64 = c0
        BY <2>4, <2>7, <1>e
      <3> QED
        BY <3>1, <2>9, <2>3
    <2>11. /\ \A i \in 2 .. Len(u) : is_trail(u[i])
           /\ \A i \in 1 .. Len(u) : u[i] >= 128
      BY <2>7, <1>f
    <2>12. IsEncoded8(u, 2, c)
      BY <2>7, <2>8, <2>10, <2>11 DEF IsEncoded8
    <2> QED
      BY <2>1, <2>6, <2>12
  <1>4. CASE c > 65535
    <2>1. width8(c) = 4 /\ ~(width8(c) = 1) /\ ~(width8(c) = 2) /\ ~(width8(c) = 3)
      BY <1>4 DEF width8
    <2>2. PICK h \in Nat : h = c \div 262144
      OBVIOUS
    <2>3. h <= 4 /\ h * 262144 + c2 * 4096 + c1 * 64 + c0 = c
      BY <1>0, <1>4, <1>b, <1>c, <1>d, <2>2
    <2>4. (240 + h) % 8 = h
      BY <2>3
    <2> DEFINE u == <<240 + h, 128 + c2, 128 + c1, 128 + c0>>
    <2>5. u = <<240 + h, 128 + c2, 128 + c1, 128 + c0>>
      OBVIOUS
    <2> HIDE DEF u
    <2>6. encode8(c) = u
      BY <2>1, <2>2, <2>5, <1>b, <1>c, <1>d DEF encode8
    <2>7. /\ u \in Seq(Nat) /\ Len(u) = 4 /\ u[1] = 240 + h
          /\ u[2] = 128 + c2 /\ u[3] = 128 + c1 /\ u[4] = 128 + c0
      <3>1. 240 + h \in Nat
        OBVIOUS
      <3> QED
        BY <3>1, <1>f, <2>5, Units
    <2>8. trail_length(240 + h) = 3
      BY <2>3 DEF trail_length
    <2>9. CodePoint8(u, 1, 3) = (u[1] % 8) * 262144 + (u[1 + 1] % 64) * 4096
                                  + (u[1 + 2] % 64) * 64 + (u[1 + 3] % 64)
      BY DEF CodePoint8
    <2>10. CodePoint8(u, 1, 3) = c
      <3>1. u[1] % 8 = h /\ u[1 + 1] % 64 = c2 /\ u[1 + 2] % 64 = c1 /\ u[1 + 3] % 64 = c0
        BY <2>4, <2>7, <1>e
      <3>2. CodePoint8(u, 1, 3) = h * 262144 + c2 * 4096 + c1 * 64 + c0
        BY ONLY <3>1, <2>9
      <3> QED
        BY <3>2, <2>3
    <2>11. /\ \A i \in 2 .. Len(u) : is_trail(u[i])
           /\ \A i \in 1 .. Len(u) : u[i] >= 128
      BY <2>7, <1>f
    <2>12. IsEncoded8(u, 3, c)
      BY <2>7, <2>8, <2>10, <2>11 DEF IsEncoded8
    <2> QED
      BY <2>1, <2>6, <2>12
  <1> QED
    BY <1>1, <1>2, <1>3, <1>4

LEMMA Encoded16 ==
  ASSUME NEW c \in Nat, is_valid_codepoint(c)
  PROVE  LET u == encode16(c) IN
         /\ u \in Seq(Nat) /\ Len(u) = width16(c) /\ Len(u) \in {1, 2}
         /\ decode16(u, 1) = Read(c, Len(u) + 1)
         /\ \A i \in 2 .. Len(u) : is_second_surrogate(u[i])
         /\ c # 0 => \A i \in 1 .. Len(u) : u[i] # 0
  <1>0. c <= 1114111 /\ ~(55296 <= c /\ c <= 57343)
    BY DEF is_valid_codepoint
  <1>1. CASE c <= 65535
    <2> DEFINE u == <<c>>
    <2>1. encode16(c) = u /\ width16(c) = 1
      BY <1>1, SMT DEF encode16, width16
    <2>2. u \in Seq(Nat) /\ Len(u) = 1 /\ u[1] = c
      BY Units
    <2> HIDE DEF u
    <2>3. ~is_second_surrogate(u[1]) /\ ~is_first_surrogate(u[1])
      BY <1>0, <2>2, SMT DEF is_first_surrogate, is_second_surrogate
    <2>4. decode16(u, 1) = Read(u[1], 1 + 1)
      BY <2>3 DEF decode16
    <2> QED
      BY <2>1, <2>2, <2>4, SMT
  <1>2. CASE ~(c <= 65535)
    <2>1. PICK h \in Nat : h = (c - 65536) \div 1024
      BY <1>2, SMT
    <2>2. PICK l \in Nat : l = (c - 65536) % 1024
      BY <1>2, SMT
    <2>3. h <= 1023 /\ l <= 1023 /\ h * 1024 + l + 65536 = c
      BY <1>0, <1>2, <2>1, <2>2, SMT
    <2> DEFINE u == <<55296 + h, 56320 + l>>
    <2>4. encode16(c) = u /\ width16(c) = 2
      BY <1>2, <2>1, <2>2, SMT DEF encode16, width16
    <2>5. u \in Seq(Nat) /\ Len(u) = 2 /\ u[1] = 55296 + h /\ u[2] = 56320 + l
      <3>1. 55296 + h \in Nat /\ 56320 + l \in Nat
        BY SMT
      <3> QED
        BY <3>1, Units, SMT
    <2> HIDE DEF u
    <2>6. ~is_second_surrogate(u[1]) /\ is_first_surrogate(u[1]) /\ is_second_surrogate(u[2])
      BY <2>3, <2>5, SMT DEF is_first_surrogate, is_second_surrogate
    <2>7. (55296 + h) % 1024 = h /\ (56320 + l) % 1024 = l
      BY <2>3, SMT
    <2>8. combine_surrogate(u[1], u[2]) = c
      BY <2>3, <2>5, <2>7, SMT DEF combine_surrogate
    <2>9. decode16(u, 1) = Read(combine_surrogate(u[1], u[2]), 1 + 2)
      BY <2>5, <2>6, SMT DEF decode16
    <2>10. \A i \in 1 .. 2 : u[i] # 0
      BY <2>5, SMT
    <2> QED
      BY <2>4, <2>5, <2>6, <2>8, <2>9, <2>10, SMT
  <1> QED
    BY <1>1, <1>2

\* What encode writes, decode reads, whole.
LEMMA ReadEncoded8 ==
  ASSUME NEW c \in Nat, is_valid_codepoint(c)
  PROVE  LET u == encode8(c) IN
         /\ u \in Seq(Nat) /\ Len(u) = width8(c) /\ Len(u) \in 1 .. 4
         /\ decode8(u, 1) = Read(c, Len(u) + 1)
         /\ \A i \in 2 .. Len(u) : is_trail(u[i])
         /\ c # 0 => \A i \in 1 .. Len(u) : u[i] # 0
         /\ \A i \in 1 .. Len(u) : u[i] < 128 => u = <<u[i]>>
  <1>1. PICK t \in 0 .. 3 : width8(c) = t + 1 /\ IsEncoded8(encode8(c), t, c)
    BY Encoded8
  <1> DEFINE u == encode8(c)
  <1>2. /\ u \in Seq(Nat) /\ Len(u) = t + 1 /\ trail_length(u[1]) = t
        /\ \A i \in 2 .. Len(u) : is_trail(u[i])
        /\ CodePoint8(u, 1, t) = c
        /\ t = 0 => u = <<c>>
        /\ t # 0 => \A i \in 1 .. Len(u) : u[i] >= 128
    BY <1>1 DEF IsEncoded8
  <1> HIDE DEF u
  <1>3. decode8(u, 1) = Read(c, Len(u) + 1)
    <2>1. is_valid_codepoint(CodePoint8(u, 1, t)) /\ width8(CodePoint8(u, 1, t)) = t + 1
      BY <1>1, <1>2
    <2>2. decode8(u, 1) = Read(CodePoint8(u, 1, t), Len(u) + 1)
      BY <1>2, <2>1, ReadWhole8, Zenon
    <2> QED
      BY <1>2, <2>2
  <1>4. \A i \in 1 .. Len(u) : u[i] # 0 \/ c = 0
    <2>1. CASE t = 0
      BY <1>2, <2>1, Units
    <2>2. CASE t # 0
      BY <1>2, <2>2
    <2> QED
      BY <2>1, <2>2
  <1>5. \A i \in 1 .. Len(u) : u[i] < 128 => u = <<u[i]>>
    <2>1. CASE t = 0
      <3>1. u = <<c>> /\ Len(u) = 1 /\ u[1] = c
        BY <1>2, <2>1, Units
      <3> QED
        BY <3>1
    <2>2. CASE t # 0
      <3>1. \A i \in 1 .. Len(u) : u[i] \in Nat
        BY <1>2, ElementOfSeq
      <3> QED
        BY <1>2, <2>2, <3>1
    <2> QED
      BY <2>1, <2>2
  <1> QED
    BY <1>1, <1>2, <1>3, <1>4, <1>5 DEF u

-----------------------------------------------------------------------------
(***************************************************************************)
(* A piece is read in a text as it is read by itself.                      *)
(***************************************************************************)
\* The units u are in s from place p on.
Stands(u, s, p) ==
  /\ p \in Nat \ {0} /\ p + Len(u) - 1 <= Len(s)
  /\ \A j \in 1 .. Len(u) : s[p + j - 1] = u[j]

LEMMA Remainders ==
  ASSUME NEW a \in Nat
  PROVE  a % 8 \in Nat /\ a % 16 \in Nat /\ a % 32 \in Nat /\ a % 64 \in Nat
  OBVIOUS

LEMMA CodePointStands ==
  ASSUME NEW s \in Seq(Nat), NEW u \in Seq(Nat), NEW p, Stands(u, s, p),
         NEW t \in {0, 1, 2, 3}, 1 + t <= Len(u)
  PROVE  CodePoint8(s, p, t) = CodePoint8(u, 1, t) /\ CodePoint8(u, 1, t) >= 0
  <1>1. p \in Nat \ {0} /\ \A j \in 0 .. t : s[p + j] = u[1 + j] /\ u[1 + j] \in Nat
    <2>1. p \in Nat \ {0} /\ \A j \in 1 .. Len(u) : s[p + j - 1] = u[j]
      BY DEF Stands
    <2> SUFFICES ASSUME NEW j \in 0 .. t PROVE s[p + j] = u[1 + j] /\ u[1 + j] \in Nat
      BY <2>1
    <2>2. 1 + j \in 1 .. Len(u) /\ p + (1 + j) - 1 = p + j
      BY <2>1
    <2>3. u[1 + j] \in Nat
      BY <2>2, ElementOfSeq
    <2> QED
      BY <2>1, <2>2, <2>3
  <1>2. s[p] = u[1] /\ u[1] \in Nat
    <2>1. 0 \in 0 .. t /\ p + 0 = p /\ 1 + 0 = 1
      BY <1>1
    <2> QED
      BY <1>1, <2>1
  <1>3. CASE t = 0
    BY <1>2, <1>3, SMT DEF CodePoint8
  <1>4. CASE t = 1
    <2>1. s[p + 1] = u[1 + 1] /\ u[1 + 1] \in Nat
      BY <1>1, <1>4
    <2>2. /\ CodePoint8(s, p, 1) = (s[p] % 32) * 64 + (s[p + 1] % 64)
          /\ CodePoint8(u, 1, 1) = (u[1] % 32) * 64 + (u[1 + 1] % 64)
      BY SMT DEF CodePoint8
    <2>3. CodePoint8(s, p, 1) = CodePoint8(u, 1, 1)
      BY ONLY <1>2, <2>1, <2>2, SMT
    <2>4. CodePoint8(u, 1, 1) >= 0
      <3>1. PICK a \in Nat : a = u[1] % 32
        BY ONLY <1>2, <2>1, Remainders
      <3>2. PICK b \in Nat : b = u[1 + 1] % 64
        BY ONLY <1>2, <2>1, Remainders
      <3>3. CodePoint8(u, 1, 1) = a * 64 + b
        BY ONLY <2>2, <3>1, <3>2, SMT
      <3> QED
        BY ONLY <3>3, SMT
    <2> QED
      BY <1>4, <2>3, <2>4
  <1>5. CASE t = 2
    <2>1. /\ s[p + 1] = u[1 + 1] /\ u[1 + 1] \in Nat
          /\ s[p + 2] = u[1 + 2] /\ u[1 + 2] \in Nat
      BY <1>1, <1>5
    <2>2. /\ CodePoint8(s, p, 2) = (s[p] % 16) * 4096 + (s[p + 1] % 64) * 64 + (s[p + 2] % 64)
          /\ CodePoint8(u, 1, 2) = (u[1] % 16) * 4096 + (u[1 + 1] % 64) * 64 + (u[1 + 2] % 64)
      BY SMT DEF CodePoint8
    <2>3. CodePoint8(s, p, 2) = CodePoint8(u, 1, 2)
      BY ONLY <1>2, <2>1, <2>2, SMT
    <2>4. CodePoint8(u, 1, 2) >= 0
      <3>1. PICK a \in Nat : a = u[1] % 16
        BY ONLY <1>2, <2>1, Remainders
      <3>2. PICK b \in Nat : b = u[1 + 1] % 64
        BY ONLY <1>2, <2>1, Remainders
      <3>3. PICK c \in Nat : c = u[1 + 2] % 64
        BY ONLY <1>2, <2>1, Remainders
      <3>4. CodePoint8(u, 1, 2) = a * 4096 + b * 64 + c
        BY ONLY <2>2, <3>1, <3>2, <3>3, SMT
      <3> QED
        BY ONLY <3>4, SMT
    <2> QED
      BY <1>5, <2>3, <2>4
  <1>6. CASE t = 3
    <2>1. /\ s[p + 1] = u[1 + 1] /\ u[1 + 1] \in Nat
          /\ s[p + 2] = u[1 + 2] /\ u[1 + 2] \in Nat
          /\ s[p + 3] = u[1 + 3] /\ u[1 + 3] \in Nat
      BY <1>1, <1>6
    <2>2. /\ CodePoint8(s, p, 3) = (s[p] % 8) * 262144 + (s[p + 1] % 64) * 4096
                                     + (s[p + 2] % 64) * 64 + (s[p + 3] % 64)
          /\ CodePoint8(u, 1, 3) = (u[1] % 8) * 262144 + (u[1 + 1] % 64) * 4096
                                     + (u[1 + 2] % 64) * 64 + (u[1 + 3] % 64)
      BY SMT DEF CodePoint8
    <2>3. CodePoint8(s, p, 3) = CodePoint8(u, 1, 3)
      BY ONLY <1>2, <2>1, <2>2, SMT
    <2>4. CodePoint8(u, 1, 3) >= 0
      <3>1. PICK a \in Nat : a = u[1] % 8
        BY ONLY <1>2, <2>1, Remainders
      <3>2. PICK b \in Nat : b = u[1 + 1] % 64
        BY ONLY <1>2, <2>1, Remainders
      <3>3. PICK c \in Nat : c = u[1 + 2] % 64
        BY ONLY <1>2, <2>1, Remainders
      <3>4. PICK d \in Nat : d = u[1 + 3] % 64
        BY ONLY <1>2, <2>1, Remainders
      <3>5. CodePoint8(u, 1, 3) = a * 262144 + b * 4096 + c * 64 + d
        BY ONLY <2>2, <3>1, <3>2, <3>3, <3>4, SMT
      <3> QED
        BY ONLY <3>5, SMT
    <2> QED
      BY <1>6, <2>3, <2>4
  <1> QED
    BY <1>3, <1>4, <1>5, <1>6

LEMMA Least ==
  ASSUME NEW T \in SUBSET Nat, T # {}
  PROVE  \E n \in T : \A m \in T : n <= m
  <1>1. \E n \in T : \A m \in T : ~(<<m, n>> \in OpToRel(<, Nat))
    BY NatLessThanWellFounded, WFMin
  <1>2. PICK n \in T : \A m \in T : ~(m < n)
    BY <1>1 DEF OpToRel
  <1> QED
    BY <1>2

LEMMA Within8 ==
  ASSUME NEW s \in Seq(Nat), NEW u \in Seq(Nat), u # << >>, NEW p, Stands(u, s, p)
  PROVE  LET d == decode8(u, 1) IN
         /\ d.cp # incomplete =>
              d.next \in 2 .. Len(u) + 1 /\ decode8(s, p) = Read(d.cp, p + d.next - 1)
         /\ d.cp = incomplete =>
              /\ p + Len(u) - 1 = Len(s) => decode8(s, p).cp = incomplete
              /\ p + Len(u) <= Len(s) /\ ~is_trail(s[p + Len(u)]) =>
                   decode8(s, p) = Read(illegal, p + Len(u) + 1)
  <1>1. /\ p \in Nat \ {0} /\ p + Len(u) - 1 <= Len(s)
        /\ \A j \in 1 .. Len(u) : s[p + j - 1] = u[j]
    BY DEF Stands
  <1>2. Len(u) \in Nat \ {0} /\ Len(s) \in Nat
    BY LenProperties, EmptySeq
  <1>3. p \in 1 .. Len(s) /\ 1 \in 1 .. Len(u)
    BY <1>1, <1>2
  <1>4. s[p] = u[1] /\ u[1] \in Nat
    <2>1. p + 1 - 1 = p
      BY <1>1
    <2> QED
      BY <1>1, <1>3, <2>1, ElementOfSeq
  <1>5. PICK t \in {-1, 0, 1, 2, 3} : t = trail_length(u[1])
    BY <1>4, TrailLength
  <1>6. t \in Int /\ t = trail_length(s[p])
    BY <1>4, <1>5
  <1>7. \A i \in 1 .. t : 1 + i <= Len(u) => s[p + i] = u[1 + i]
    <2> SUFFICES ASSUME NEW i \in 1 .. t, 1 + i <= Len(u) PROVE s[p + i] = u[1 + i]
      OBVIOUS
    <2>1. 1 + i \in 1 .. Len(u) /\ p + (1 + i) - 1 = p + i
      BY <1>1, <1>2
    <2> QED
      BY <1>1, <2>1
  <1>8. incomplete # illegal
    BY DEF incomplete, illegal
  <1>9. \A c, n : Read(c, n).cp = c /\ Read(c, n).next = n
    BY DEF Read
  <1>10. CASE t < 0
    <2>1. decode8(u, 1) = Read(illegal, 1 + 1) /\ decode8(s, p) = Read(illegal, p + 1)
      BY <1>3, <1>5, <1>6, <1>10, Nothing8
    <2>2. 1 + 1 \in 2 .. Len(u) + 1 /\ p + (1 + 1) - 1 = p + 1
      BY <1>1, <1>2
    <2> QED
      BY <1>8, <1>9, <2>1, <2>2
  <1> DEFINE O == {i \in 1 .. t : 1 + i <= Len(u) /\ ~is_trail(u[1 + i])}
  <1>11. CASE O # {}
    <2>1. PICK m \in O : \A i \in O : m <= i
      <3>1. O \in SUBSET Nat
        BY <1>6
      <3> HIDE DEF O
      <3> QED
        BY <1>11, <3>1, Least
    <2>2. /\ m \in 1 .. t /\ 1 + m <= Len(u) /\ ~is_trail(u[1 + m])
          /\ \A i \in 1 .. m - 1 : is_trail(u[1 + i])
      <3>1. m \in 1 .. t /\ 1 + m <= Len(u) /\ ~is_trail(u[1 + m])
        BY <2>1
      <3>2. ASSUME NEW i \in 1 .. m - 1 PROVE is_trail(u[1 + i])
        <4>1. i \notin O
          <5>1. ~(m <= i)
            BY <3>1, <1>6
          <5> HIDE DEF O
          <5> QED
            BY <2>1, <5>1
        <4>2. i \in 1 .. t /\ 1 + i <= Len(u)
          BY <3>1, <1>2, <1>6
        <4> QED
          BY <4>1, <4>2
      <3> QED
        BY <3>1, <3>2
    <2> HIDE DEF O
    <2>3. decode8(u, 1) = Read(illegal, 1 + m + 1)
      BY <1>3, <1>5, <1>6, <2>2, Offends8
    <2>4. p + m <= Len(s) /\ ~is_trail(s[p + m])
      <3>1. p + m <= Len(s)
        BY <1>1, <1>2, <1>6, <2>2
      <3> QED
        BY <1>7, <2>2, <3>1
    <2>5. ASSUME NEW i \in 1 .. m - 1 PROVE is_trail(s[p + i])
      <3>1. i \in 1 .. t /\ 1 + i <= Len(u)
        BY <2>2, <1>2, <1>6
      <3> QED
        BY <1>7, <2>2, <3>1
    <2>6. decode8(s, p) = Read(illegal, p + m + 1)
      BY <1>3, <1>6, <2>2, <2>4, <2>5, Offends8
    <2>7. 1 + m + 1 \in 2 .. Len(u) + 1 /\ p + (1 + m + 1) - 1 = p + m + 1
      BY <1>1, <1>2, <1>6, <2>2
    <2> QED
      BY <1>8, <1>9, <2>3, <2>6, <2>7
  <1>12. CASE O = {} /\ t >= 0
    <2>1. \A i \in 1 .. t : 1 + i <= Len(u) => is_trail(u[1 + i])
      BY <1>12
    <2> HIDE DEF O
    <2>0. t \in Nat
      BY <1>6, <1>12
    <2>2. CASE 1 + t <= Len(u)
      <3>1. ASSUME NEW i \in 1 .. t PROVE is_trail(u[1 + i]) /\ is_trail(s[p + i])
        <4>1. 1 + i <= Len(u)
          BY <2>2, <1>2, <1>6
        <4> QED
          BY <1>7, <2>1, <4>1
      <3>2. p + t <= Len(s) /\ t \in {0, 1, 2, 3}
        BY <1>1, <1>2, <1>12, <2>2
      <3> DEFINE Result(c) == IF is_valid_codepoint(c) /\ width8(c) = t + 1 THEN c ELSE illegal
      <3>3. decode8(u, 1) = Read(Result(CodePoint8(u, 1, t)), 1 + t + 1)
        BY <1>3, <1>5, <2>0, <2>2, <3>1, Whole8
      <3>4. decode8(s, p) = Read(Result(CodePoint8(s, p, t)), p + t + 1)
        BY <1>3, <1>6, <2>0, <3>1, <3>2, Whole8
      <3>5. CodePoint8(s, p, t) = CodePoint8(u, 1, t) /\ CodePoint8(u, 1, t) >= 0
        BY <2>2, <3>2, CodePointStands
      <3>6. Result(CodePoint8(u, 1, t)) # incomplete
        BY <1>8, <3>5, SMT DEF incomplete
      <3>7. 1 + t + 1 \in 2 .. Len(u) + 1 /\ p + (1 + t + 1) - 1 = p + t + 1
        BY <1>1, <1>2, <2>0, <2>2
      <3> HIDE DEF Result
      <3> QED
        BY <1>9, <3>3, <3>4, <3>5, <3>6, <3>7
    <2>3. CASE ~(1 + t <= Len(u))
      <3>1. decode8(u, 1) = Read(incomplete, Len(u) + 1)
        <4>1. 1 + t > Len(u)
          BY <1>2, <2>0, <2>3
        <4> QED
          BY <1>3, <1>5, <2>0, <2>1, <4>1, BreaksOff8
      <3>2. ASSUME NEW i \in 1 .. t, i < Len(u) PROVE is_trail(s[p + i])
        <4>1. 1 + i <= Len(u)
          BY <3>2, <1>2, <1>6
        <4> QED
          BY <1>7, <2>1, <4>1
      <3>3. ASSUME p + Len(u) - 1 = Len(s) PROVE decode8(s, p).cp = incomplete
        <4>1. p + t > Len(s)
          BY <1>1, <1>2, <1>6, <2>3, <3>3
        <4>2. ASSUME NEW i \in 1 .. t, p + i <= Len(s) PROVE is_trail(s[p + i])
          <5>1. i < Len(u)
            BY <1>1, <1>2, <1>6, <3>3, <4>2
          <5> QED
            BY <3>2, <5>1
        <4>3. decode8(s, p) = Read(incomplete, Len(s) + 1)
          BY <1>3, <1>6, <2>0, <4>1, <4>2, BreaksOff8
        <4> QED
          BY <1>9, <4>3
      <3>4. ASSUME p + Len(u) <= Len(s), ~is_trail(s[p + Len(u)])
            PROVE  decode8(s, p) = Read(illegal, p + Len(u) + 1)
        <4>1. Len(u) \in 1 .. t
          BY <1>2, <1>6, <2>3
        <4>2. ASSUME NEW i \in 1 .. Len(u) - 1 PROVE is_trail(s[p + i])
          <5>1. i \in 1 .. t /\ i < Len(u)
            BY <4>1, <1>2, <1>6
          <5> QED
            BY <3>2, <5>1
        <4> QED
          BY <1>3, <1>6, <3>4, <4>1, <4>2, Offends8
      <3> QED
        BY <1>9, <3>1, <3>3, <3>4
    <2> QED
      BY <2>2, <2>3
  <1> QED
    BY <1>5, <1>10, <1>11, <1>12

LEMMA Surrogates ==
  ASSUME NEW w \in Nat
  PROVE  ~(is_first_surrogate(w) /\ is_second_surrogate(w))
  BY SMT DEF is_first_surrogate, is_second_surrogate

LEMMA Within16 ==
  ASSUME NEW s \in Seq(Nat), NEW u \in Seq(Nat), u # << >>, NEW p, Stands(u, s, p)
  PROVE  LET d == decode16(u, 1) IN
         /\ d.cp # incomplete =>
              d.next \in 2 .. Len(u) + 1 /\ decode16(s, p) = Read(d.cp, p + d.next - 1)
         /\ d.cp = incomplete =>
              /\ p + Len(u) - 1 = Len(s) => decode16(s, p).cp = incomplete
              /\ p + Len(u) <= Len(s) /\ ~is_second_surrogate(s[p + Len(u)]) =>
                   decode16(s, p) = Read(illegal, p + Len(u) + 1)
  <1>1. /\ p \in Nat \ {0} /\ p + Len(u) - 1 <= Len(s)
        /\ \A j \in 1 .. Len(u) : s[p + j - 1] = u[j]
    BY DEF Stands
  <1>2. Len(u) \in Nat \ {0} /\ Len(s) \in Nat
    BY LenProperties, EmptySeq
  <1>3. p \in 1 .. Len(s) /\ 1 \in 1 .. Len(u)
    BY <1>1, <1>2
  <1>4. s[p] = u[1] /\ u[1] \in Nat
    <2>1. p + 1 - 1 = p
      BY <1>1
    <2> QED
      BY <1>1, <1>3, <2>1, ElementOfSeq
  <1>5. incomplete # illegal /\ \A n \in Nat : n # incomplete
    BY SMT DEF incomplete, illegal
  <1>6. \A c, n : Read(c, n).cp = c /\ Read(c, n).next = n
    BY DEF Read
  <1>7. /\ 2 \in 2 .. Len(u) + 1 /\ 1 + 1 = 2 /\ p + 2 - 1 = p + 1
    BY <1>1, <1>2
  <1>8. CASE is_second_surrogate(u[1])
    <2>0. ~is_first_surrogate(u[1])
      BY <1>4, <1>8, Surrogates
    <2>1. decode16(u, 1) = Read(illegal, 2) /\ decode16(s, p) = Read(illegal, p + 1)
      BY <1>4, <1>7, <1>8, <2>0 DEF decode16
    <2> QED
      BY <1>5, <1>6, <1>7, <2>1
  <1>9. CASE ~is_second_surrogate(u[1]) /\ ~is_first_surrogate(u[1])
    <2>1. decode16(u, 1) = Read(u[1], 2) /\ decode16(s, p) = Read(u[1], p + 1)
      BY <1>4, <1>7, <1>9 DEF decode16
    <2> QED
      BY <1>4, <1>5, <1>6, <1>7, <2>1
  <1>10. CASE ~is_second_surrogate(u[1]) /\ is_first_surrogate(u[1]) /\ Len(u) = 1
    <2>1. decode16(u, 1).cp = incomplete
      <3>1. decode16(u, 1) = Read(incomplete, 1 + 1)
        BY <1>10 DEF decode16
      <3> QED
        BY <1>6, <3>1
    <2>2. ASSUME p + Len(u) - 1 = Len(s) PROVE decode16(s, p).cp = incomplete
      <3>1. p = Len(s)
        BY <1>1, <1>10, <2>2
      <3>2. decode16(s, p) = Read(incomplete, p + 1)
        BY <1>4, <1>10, <3>1 DEF decode16
      <3> QED
        BY <1>6, <3>2
    <2>3. ASSUME p + Len(u) <= Len(s), ~is_second_surrogate(s[p + Len(u)])
          PROVE  decode16(s, p) = Read(illegal, p + Len(u) + 1)
      <3>1. p # Len(s) /\ p + Len(u) = p + 1 /\ p + Len(u) + 1 = p + 2
        BY <1>1, <1>2, <1>10, <2>3
      <3>2. ~is_second_surrogate(s[p + 1])
        BY <2>3, <3>1
      <3>3. decode16(s, p) = Read(illegal, p + 2)
        BY <1>4, <1>10, <3>1, <3>2 DEF decode16
      <3> QED
        BY <3>1, <3>3
    <2> QED
      BY <2>1, <2>2, <2>3
  <1>11. CASE ~is_second_surrogate(u[1]) /\ is_first_surrogate(u[1]) /\ Len(u) # 1
    <2>1. 1 # Len(u) /\ p # Len(s) /\ 2 \in 1 .. Len(u) /\ p + 2 - 1 = p + 1 /\ 1 + 2 = 3
      <3>1. PICK n \in Nat \ {0} : n = Len(u)
        BY <1>2
      <3>2. PICK m \in Nat : m = Len(s)
        BY <1>2
      <3>3. n # 1
        BY <1>11, <3>1
      <3>4. p \in Nat \ {0} /\ p + n - 1 <= m
        BY <1>1, <3>1, <3>2
      <3>5. 1 # n /\ p # m /\ 2 \in 1 .. n /\ p + 2 - 1 = p + 1 /\ 1 + 2 = 3
        BY <3>3, <3>4
      <3> QED
        BY <3>1, <3>2, <3>5
    <2>2. s[p + 1] = u[2] /\ u[1 + 1] = u[2] /\ u[2] \in Nat
      BY <1>1, <1>7, <2>1, ElementOfSeq
    <2> DEFINE c == IF is_second_surrogate(u[2]) THEN combine_surrogate(u[1], u[2]) ELSE illegal
    <2>3. decode16(u, 1) = Read(c, 3)
      BY <1>11, <2>1, <2>2 DEF decode16
    <2>4. decode16(s, p) = Read(c, p + 2)
      BY <1>4, <1>11, <2>1, <2>2 DEF decode16
    <2>5. c # incomplete
      <3>1. combine_surrogate(u[1], u[2]) \in Nat
        <4>1. PICK a \in Nat : a = u[1] % 1024
          BY <1>4, SMT
        <4>2. PICK b \in Nat : b = u[2] % 1024
          BY <2>2, SMT
        <4>3. combine_surrogate(u[1], u[2]) = a * 1024 + b + 65536
          BY <4>1, <4>2, SMT DEF combine_surrogate
        <4> QED
          BY <4>3, SMT
      <3> QED
        BY <1>5, <3>1
    <2>6. 3 \in 2 .. Len(u) + 1 /\ p + 3 - 1 = p + 2
      BY <1>1, <1>2, <2>1
    <2> HIDE DEF c
    <2> QED
      BY <1>6, <2>3, <2>4, <2>5, <2>6
  <1> QED
    BY <1>8, <1>9, <1>10, <1>11

LEMMA Within ==
  ASSUME NEW form \in Forms,
         NEW s \in Seq(Nat), NEW u \in Seq(Nat), u # << >>, NEW p, Stands(u, s, p)
  PROVE  LET d == decode(form, u, 1) IN
         /\ d.cp # incomplete =>
              d.next \in 2 .. Len(u) + 1 /\ decode(form, s, p) = Read(d.cp, p + d.next - 1)
         /\ d.cp = incomplete =>
              /\ p + Len(u) - 1 = Len(s) => decode(form, s, p).cp = incomplete
              /\ p + Len(u) <= Len(s) /\ ~IsLoose(form, s[p + Len(u)]) =>
                   decode(form, s, p) = Read(illegal, p + Len(u) + 1)
  <1>1. ~(p > Len(s)) /\ p <= Len(s) /\ ~(1 > Len(u)) /\ 1 <= Len(u)
    <2>1. Len(u) \in Nat \ {0} /\ Len(s) \in Nat
      BY LenProperties, EmptySeq
    <2> QED
      BY <2>1 DEF Stands
  <1>2. CASE form = "utf8"
    <2>1. form # "utf16"
      BY <1>2
    <2>2. decode(form, u, 1) = decode8(u, 1) /\ decode(form, s, p) = decode8(s, p)
      BY <1>1, <1>2, <2>1 DEF decode
    <2>3. \A w : IsLoose(form, w) = is_trail(w)
      BY <1>2 DEF IsLoose
    <2> QED
      BY <2>2, <2>3, Within8
  <1>3. CASE form = "utf16"
    <2>1. form # "utf8"
      BY <1>3
    <2>2. decode(form, u, 1) = decode16(u, 1) /\ decode(form, s, p) = decode16(s, p)
      BY <1>1, <1>3, <2>1 DEF decode
    <2>3. \A w : IsLoose(form, w) = is_second_surrogate(w)
      BY <2>1 DEF IsLoose
    <2> QED
      BY <2>2, <2>3, Within16
  <1> QED
    BY <1>2, <1>3 DEF Forms

\* A unit that only follows is illegal where one begins.
LEMMA ReadLoose ==
  ASSUME NEW form \in Forms, NEW s \in Seq(Nat), NEW p \in 1 .. Len(s), IsLoose(form, s[p])
  PROVE  decode(form, s, p) = Read(illegal, p + 1)
  <1>1. ~(p > Len(s)) /\ p <= Len(s) /\ s[p] \in Nat
    BY ElementOfSeq
  <1>2. CASE form = "utf8"
    <2>1. is_trail(s[p]) /\ form # "utf16"
      BY <1>2 DEF IsLoose
    <2>2. trail_length(s[p]) < 0
      BY <1>1, <2>1, SMT DEF trail_length, is_trail
    <2>3. decode8(s, p) = Read(illegal, p + 1)
      BY <2>2, Nothing8
    <2> QED
      BY <1>1, <1>2, <2>1, <2>3 DEF decode
  <1>3. CASE form = "utf16"
    <2>1. is_second_surrogate(s[p]) /\ form # "utf8"
      BY <1>3 DEF IsLoose
    <2>2. decode16(s, p) = Read(illegal, p + 1)
      <3>1. ~is_first_surrogate(s[p])
        BY <1>1, <2>1, Surrogates
      <3> QED
        BY <2>1, <3>1 DEF decode16
    <2> QED
      BY <1>1, <1>3, <2>1, <2>2 DEF decode
  <1> QED
    BY <1>2, <1>3 DEF Forms

-----------------------------------------------------------------------------
(***************************************************************************)
(* Induction, with a set in place of a statement.                          *)
(***************************************************************************)
LEMMA Induction ==
  ASSUME NEW n \in Nat, NEW T, 0 \in T, \A i \in 1 .. n : i - 1 \in T => i \in T
  PROVE  \A i \in 0 .. n : i \in T
  <1> DEFINE F == {i \in 0 .. n : i \notin T}
  <1> SUFFICES ASSUME F # {} PROVE FALSE
    OBVIOUS
  <1>1. PICK k \in F : \A m \in F : k <= m
    <2>1. F \in SUBSET Nat
      OBVIOUS
    <2> HIDE DEF F
    <2> QED
      BY <2>1, Least
  <1>2. k \in 1 .. n /\ k - 1 \in 0 .. n /\ ~(k <= k - 1)
    OBVIOUS
  <1>3. k - 1 \notin F
    BY <1>1, <1>2
  <1> QED
    BY <1>2, <1>3

\* A function that is defined step by step.
Stepwise(f, n, e, g) == f[0] = e /\ \A i \in 1 .. n : f[i] = g[i][f[i - 1]]

LEMMA Recursion ==
  ASSUME NEW n \in Nat, NEW S, NEW e \in S, NEW g \in [1 .. n -> [S -> S]]
  PROVE  \E f \in [0 .. n -> S] : Stepwise(f, n, e, g)
  <1> DEFINE T == {k \in 0 .. n : \E f \in [0 .. k -> S] :
                     f[0] = e /\ \A i \in 1 .. k : f[i] = g[i][f[i - 1]]}
  <1>1. 0 \in T
    <2> DEFINE f == [i \in 0 .. 0 |-> e]
    <2>1. f \in [0 .. 0 -> S] /\ f[0] = e /\ \A i \in 1 .. 0 : f[i] = g[i][f[i - 1]]
      OBVIOUS
    <2> HIDE DEF f
    <2> QED
      BY <2>1
  <1>2. ASSUME NEW k \in 1 .. n, k - 1 \in T PROVE k \in T
    <2>1. PICK f \in [0 .. k - 1 -> S] :
            f[0] = e /\ \A i \in 1 .. k - 1 : f[i] = g[i][f[i - 1]]
      BY <1>2
    <2>2. f[k - 1] \in S /\ g[k] \in [S -> S]
      BY <2>1
    <2> DEFINE next == g[k][f[k - 1]]
               h == [i \in 0 .. k |-> IF i < k THEN f[i] ELSE next]
    <2>3. next \in S
      BY <2>2
    <2>4. h \in [0 .. k -> S]
      <3> HIDE DEF next
      <3> SUFFICES ASSUME NEW i \in 0 .. k PROVE (IF i < k THEN f[i] ELSE next) \in S
        OBVIOUS
      <3>1. CASE i < k
        <4>1. i \in 0 .. k - 1
          BY <3>1
        <4> QED
          BY <2>1, <3>1, <4>1
      <3> QED
        BY <2>3, <3>1
    <2>5. h[0] = e
      BY <2>1
    <2>6. ASSUME NEW i \in 1 .. k PROVE h[i] = g[i][h[i - 1]]
      <3>1. i - 1 \in 0 .. k /\ i - 1 < k /\ i \in 0 .. k
        OBVIOUS
      <3>2. h[i - 1] = f[i - 1]
        BY <3>1
      <3>3. CASE i < k
        <4>1. i \in 1 .. k - 1 /\ h[i] = f[i]
          BY <3>3
        <4> HIDE DEF h
        <4> QED
          BY <2>1, <3>2, <4>1
      <3>4. CASE ~(i < k)
        <4>1. i = k /\ h[i] = next
          BY <3>4
        <4> HIDE DEF h
        <4> QED
          BY <3>2, <4>1
      <3> QED
        BY <3>3, <3>4
    <2> HIDE DEF h, next
    <2>7. \E w \in [0 .. k -> S] : w[0] = e /\ \A i \in 1 .. k : w[i] = g[i][w[i - 1]]
      BY <2>4, <2>5, <2>6
    <2>8. k \in 0 .. n
      OBVIOUS
    <2> QED
      BY <2>7, <2>8
  <1> HIDE DEF T
  <1>3. \A i \in 0 .. n : i \in T
    BY <1>1, <1>2, Induction
  <1>4. n \in T
    BY <1>3
  <1> QED
    BY <1>4 DEF T, Stepwise

-----------------------------------------------------------------------------
(***************************************************************************)
(* Pieces, and what is spelled with them.                                  *)
(***************************************************************************)
Pieces == Characters \cup Strays

LEMMA CharacterUnits ==
  ASSUME NEW form \in Forms, NEW x \in Characters
  PROVE  /\ x[form] \in Seq(Nat) /\ x[form] # << >>
         /\ \A i \in 1 .. Len(x[form]) : x[form][i] # 0
         /\ \A i \in 2 .. Len(x[form]) : IsLoose(form, x[form][i])
         /\ x.code \in Nat \ {0} /\ ~IsStray(x)
         /\ x[form] = encode(form, x.code) /\ Len(x[form]) = width(form, x.code)
         /\ decode(form, x[form], 1) = Read(x.code, Len(x[form]) + 1)
  <1>1. /\ x.code \in Nat \ {0} /\ is_valid_codepoint(x.code)
        /\ x[form] = encode(form, x.code)
    BY CharactersAssumption
  <1>2. ~IsStray(x)
    BY StraysAssumption DEF IsStray
  <1> DEFINE c == x.code   u == x[form]
  <1>3. c \in Nat /\ c # 0
    BY <1>1
  <1> HIDE DEF c
  <1>4. CASE form = "utf8"
    <2>1. form # "utf16"
      BY <1>4
    <2>2. u = encode8(c) /\ width(form, c) = width8(c)
      BY <1>1, <1>4 DEF encode, width, c
    <2> HIDE DEF u
    <2>3. /\ u \in Seq(Nat) /\ Len(u) = width8(c) /\ Len(u) \in 1 .. 4
          /\ decode8(u, 1) = Read(c, Len(u) + 1)
          /\ \A i \in 2 .. Len(u) : is_trail(u[i])
          /\ \A i \in 1 .. Len(u) : u[i] # 0
      BY <1>1, <1>3, <2>2, ReadEncoded8 DEF c
    <2>4. decode(form, u, 1) = decode8(u, 1) /\ u # << >>
      <3>1. ~(1 > Len(u)) /\ 1 <= Len(u) /\ Len(u) # 0
        BY <2>3
      <3> QED
        BY <1>4, <2>1, <3>1 DEF decode
    <2> QED
      BY <1>1, <1>2, <1>4, <2>2, <2>3, <2>4 DEF IsLoose, u, c
  <1>5. CASE form = "utf16"
    <2>1. form # "utf8"
      BY <1>5
    <2>2. u = encode16(c) /\ width(form, c) = width16(c)
      BY <1>1, <2>1 DEF encode, width, c
    <2> HIDE DEF u
    <2>3. /\ u \in Seq(Nat) /\ Len(u) = width16(c) /\ Len(u) \in {1, 2}
          /\ decode16(u, 1) = Read(c, Len(u) + 1)
          /\ \A i \in 2 .. Len(u) : is_second_surrogate(u[i])
          /\ \A i \in 1 .. Len(u) : u[i] # 0
      BY <1>1, <1>3, <2>2, Encoded16 DEF c
    <2>4. decode(form, u, 1) = decode16(u, 1) /\ u # << >>
      <3>1. ~(1 > Len(u)) /\ 1 <= Len(u) /\ Len(u) # 0
        BY <2>3
      <3> QED
        BY <1>5, <2>1, <3>1 DEF decode
    <2> QED
      BY <1>1, <1>2, <2>1, <2>2, <2>3, <2>4 DEF IsLoose, u, c
  <1> QED
    BY <1>4, <1>5 DEF Forms

LEMMA PieceUnits ==
  ASSUME NEW form \in Forms, NEW x \in Pieces
  PROVE  /\ x[form] \in Seq(Nat) /\ x[form] # << >> /\ Len(x[form]) \in Nat \ {0}
         /\ \A i \in 1 .. Len(x[form]) : x[form][i] # 0
         /\ \A i \in 2 .. Len(x[form]) : IsLoose(form, x[form][i])
  <1>1. CASE x \in Characters
    BY <1>1, CharacterUnits, LenProperties, EmptySeq
  <1>2. CASE x \in Strays
    <2>1. /\ x.utf8 \in Seq(Unit8 \ {0}) /\ x.utf16 \in Seq(Unit16 \ {0})
          /\ x[form] # << >> /\ \A i \in 2 .. Len(x[form]) : IsLoose(form, x[form][i])
      BY <1>2, StraysAssumption
    <2>2. x[form] \in Seq(Nat \ {0})
      <3>1. Unit8 \ {0} \subseteq Nat \ {0} /\ Unit16 \ {0} \subseteq Nat \ {0}
        BY SMT DEF Unit8, Unit16
      <3>2. x.utf8 \in Seq(Nat \ {0}) /\ x.utf16 \in Seq(Nat \ {0})
        BY <2>1, <3>1, SeqMonotonic
      <3> QED
        BY <3>2 DEF Forms
    <2>3. x[form] \in Seq(Nat) /\ \A i \in 1 .. Len(x[form]) : x[form][i] # 0
      BY <2>2, ElementOfSeq
    <2> QED
      BY <2>1, <2>3, LenProperties, EmptySeq
  <1> QED
    BY <1>1, <1>2 DEF Pieces

\* What the pieces spell, one after the other.
LEMMA Flattens ==
  ASSUME NEW n \in Nat, NEW ss \in Seq(Seq(Nat)), Len(ss) = n,
         NEW f \in [0 .. n -> Seq(Nat)], f[0] = << >>, \A i \in 1 .. n : f[i] = f[i - 1] \o ss[i]
  PROVE  FlattenSeq(ss) = f[n]
  <1>1. CASE n = 0
    <2>1. FlattenSeq(ss) = ss
      BY <1>1 DEF FlattenSeq
    <2>2. ss = << >>
      BY <1>1, EmptySeq
    <2> QED
      BY <1>1, <2>1, <2>2
  <1>2. CASE n # 0
    <2> DEFINE Steps(w) == [i \in 1 .. n |-> IF i = 1 THEN ss[i] ELSE w[i - 1] \o ss[i]]
               flatten == CHOOSE w : w = Steps(w)
    <2>1. FlattenSeq(ss) = flatten[n]
      BY <1>2 DEF FlattenSeq
    <2>2. \E w : w = Steps(w)
      <3> DEFINE g == [i \in 1 .. n |-> f[i]]
      <3>1. ASSUME NEW i \in 1 .. n
            PROVE  g[i] = IF i = 1 THEN ss[i] ELSE g[i - 1] \o ss[i]
        <4>1. CASE i = 1
          <5>1. f[1] = << >> \o ss[1]
            <6>1. 1 \in 1 .. n /\ 1 - 1 = 0
              BY <1>2
            <6> QED
              BY <6>1
          <5>2. ss[1] \in Seq(Nat)
            BY <1>2, ElementOfSeq
          <5> QED
            BY <4>1, <5>1, <5>2, ConcatEmptySeq
        <4>2. CASE i # 1
          <5>1. i - 1 \in 1 .. n
            BY <4>2
          <5> QED
            BY <4>2, <5>1
        <4> QED
          BY <4>1, <4>2
      <3>2. g = Steps(g)
        <4>1. /\ g = [i \in 1 .. n |-> f[i]]
              /\ \A i \in 1 .. n : f[i] = Steps(g)[i]
          BY <3>1
        <4> QED
          BY <4>1
      <3> QED
        BY <3>2
    <2>3. flatten = Steps(flatten)
      <3> HIDE DEF Steps
      <3> QED
        BY <2>2
    <2> HIDE DEF flatten
    <2>4. \A i \in 1 .. n : flatten[i] = IF i = 1 THEN ss[i] ELSE flatten[i - 1] \o ss[i]
      BY <2>3
    <2> DEFINE h == [i \in 0 .. n |-> IF i = 0 THEN << >> ELSE flatten[i]]
    <2>5. f[0] = h[0]
      OBVIOUS
    <2>6. ASSUME NEW i \in 1 .. n, f[i - 1] = h[i - 1] PROVE f[i] = h[i]
      <3>1. h[i] = flatten[i] /\ i \in 0 .. n /\ f[i] = f[i - 1] \o ss[i]
        OBVIOUS
      <3>2. CASE i = 1
        <4>1. ss[1] \in Seq(Nat)
          BY <1>2, ElementOfSeq
        <4>2. f[i] = << >> \o ss[1]
          <5>1. i - 1 = 0
            BY <3>2
          <5> QED
            BY <3>1, <3>2, <5>1
        <4> HIDE DEF h
        <4> QED
          BY <2>4, <3>1, <3>2, <4>1, <4>2, ConcatEmptySeq
      <3>3. CASE i # 1
        <4>1. h[i - 1] = flatten[i - 1]
          BY <3>3
        <4> HIDE DEF h
        <4> QED
          BY <2>4, <2>6, <3>1, <3>3, <4>1
      <3> QED
        BY <3>2, <3>3
    <2> HIDE DEF h
    <2>7. f[n] = h[n]
      <3> DEFINE T == {i \in 0 .. n : f[i] = h[i]}
      <3>1. 0 \in T
        BY <2>5
      <3>3. \A i \in 1 .. n : i - 1 \in T => i \in T
        BY <2>6
      <3> HIDE DEF T
      <3>4. \A i \in 0 .. n : i \in T
        BY <3>1, <3>3, Induction
      <3>2. n \in T
        BY <3>4
      <3> QED
        BY <3>2 DEF T
    <2> QED
      BY <1>2, <2>1, <2>7 DEF h
  <1> QED
    BY <1>1, <1>2

\* What the first k pieces spell.
Before(ps, k, form) == Spelled(SubSeq(ps, 1, k), form)

LEMMA FirstPieces ==
  ASSUME NEW S, NEW ps \in Seq(S), NEW k \in 0 .. Len(ps)
  PROVE  /\ SubSeq(ps, 1, k) \in Seq(S) /\ Len(SubSeq(ps, 1, k)) = k
         /\ DOMAIN SubSeq(ps, 1, k) = 1 .. k
         /\ \A i \in 1 .. k : SubSeq(ps, 1, k)[i] = ps[i] /\ ps[i] \in S
  <1>1. Len(ps) \in Nat /\ k \in Nat /\ 1 \in Int /\ k \in Int
    BY LenProperties
  <1>2. \A i \in 1 .. k : ps[i] \in S
    <2>1. \A i \in 1 .. k : i \in 1 .. Len(ps)
      BY <1>1
    <2> QED
      BY <2>1, ElementOfSeq
  <1>3. /\ SubSeq(ps, 1, k) \in Seq(S)
        /\ Len(SubSeq(ps, 1, k)) = IF 1 <= k THEN k - 1 + 1 ELSE 0
        /\ \A i \in 1 .. k - 1 + 1 : SubSeq(ps, 1, k)[i] = ps[1 + i - 1]
    BY <1>1, <1>2, SubSeqProperties
  <1>4. k - 1 + 1 = k /\ (~(1 <= k) => k = 0) /\ \A i \in 1 .. k : 1 + i - 1 = i
    BY <1>1
  <1>5. Len(SubSeq(ps, 1, k)) = k
    BY <1>3, <1>4
  <1> QED
    BY <1>2, <1>3, <1>4, <1>5, LenProperties

LEMMA Spells ==
  ASSUME NEW form \in Forms, NEW ps \in Seq(Pieces)
  PROVE  \E f \in [0 .. Len(ps) -> Seq(Nat)] :
           /\ f[0] = << >>
           /\ \A i \in 1 .. Len(ps) : f[i] = f[i - 1] \o ps[i][form]
           /\ \A k \in 0 .. Len(ps) : Before(ps, k, form) = f[k]
  <1> DEFINE n == Len(ps)
             g == [i \in 1 .. n |-> [s \in Seq(Nat) |-> s \o ps[i][form]]]
  <1>1. n \in Nat /\ \A i \in 1 .. n : ps[i][form] \in Seq(Nat)
    BY LenProperties, ElementOfSeq, PieceUnits
  <1>2. g \in [1 .. n -> [Seq(Nat) -> Seq(Nat)]]
    <2> SUFFICES ASSUME NEW i \in 1 .. n, NEW s \in Seq(Nat) PROVE s \o ps[i][form] \in Seq(Nat)
      OBVIOUS
    <2> QED
      BY <1>1, ConcatProperties
  <1>3. << >> \in Seq(Nat)
    BY EmptySeq
  <1>4. PICK f \in [0 .. n -> Seq(Nat)] : f[0] = << >> /\ \A i \in 1 .. n : f[i] = g[i][f[i - 1]]
    <2> HIDE DEF g, n
    <2>1. \E f \in [0 .. n -> Seq(Nat)] : Stepwise(f, n, << >>, g)
      BY <1>1, <1>2, <1>3, Recursion
    <2> QED
      BY <2>1 DEF Stepwise
  <1>5. ASSUME NEW i \in 1 .. n PROVE f[i] = f[i - 1] \o ps[i][form]
    <2>1. i - 1 \in 0 .. n
      BY <1>1
    <2>2. f[i - 1] \in Seq(Nat)
      BY <2>1
    <2> QED
      BY <1>4, <2>2
  <1> HIDE DEF g
  <1>6. ASSUME NEW k \in 0 .. n PROVE Before(ps, k, form) = f[k]
    <2> DEFINE q == SubSeq(ps, 1, k)
               ss == [i \in DOMAIN q |-> q[i][form]]
               h == [i \in 0 .. k |-> f[i]]
    <2>1. q \in Seq(Pieces) /\ Len(q) = k /\ DOMAIN q = 1 .. k /\ \A i \in 1 .. k : q[i] = ps[i]
      BY FirstPieces
    <2>2. \A i \in 1 .. k : i \in 1 .. n /\ i \in 0 .. n /\ i - 1 \in 0 .. k /\ i \in 0 .. k
      BY <1>1
    <2> HIDE DEF q
    <2>3. ss \in Seq(Seq(Nat)) /\ Len(ss) = k /\ \A i \in 1 .. k : ss[i] = ps[i][form]
      <3>1. ss = [i \in 1 .. k |-> q[i][form]] /\ \A i \in 1 .. k : q[i][form] \in Seq(Nat)
        BY <1>1, <2>1, <2>2
      <3>2. k \in Nat
        BY <1>1
      <3> HIDE DEF ss
      <3> QED
        BY <2>1, <3>1, <3>2
    <2>4. /\ h \in [0 .. k -> Seq(Nat)] /\ h[0] = << >> /\ h[k] = f[k] /\ k \in Nat
      <3>1. \A i \in 0 .. k : i \in 0 .. n
        BY <1>1
      <3> QED
        BY <1>1, <1>4, <3>1
    <2>5. \A i \in 1 .. k : h[i] = h[i - 1] \o ss[i]
      <3> SUFFICES ASSUME NEW i \in 1 .. k PROVE h[i] = h[i - 1] \o ss[i]
        OBVIOUS
      <3>1. h[i] = f[i] /\ h[i - 1] = f[i - 1]
        BY <2>2
      <3> HIDE DEF h, ss
      <3> QED
        BY <1>5, <2>2, <2>3, <3>1
    <2>6. Spelled(q, form) = FlattenSeq(ss)
      BY DEF Spelled
    <2> HIDE DEF h, ss
    <2>7. FlattenSeq(ss) = h[k]
      BY <2>3, <2>4, <2>5, Flattens
    <2> QED
      BY <2>4, <2>6, <2>7 DEF Before, q
  <1> QED
    BY <1>4, <1>5, <1>6

LEMMA BeforeSteps ==
  ASSUME NEW form \in Forms, NEW ps \in Seq(Pieces)
  PROVE  /\ \A k \in 0 .. Len(ps) : Before(ps, k, form) \in Seq(Nat)
         /\ Before(ps, 0, form) = << >>
         /\ \A k \in 1 .. Len(ps) : Before(ps, k, form) = Before(ps, k - 1, form) \o ps[k][form]
         /\ Before(ps, Len(ps), form) = Spelled(ps, form)
         /\ Spelled(ps, form) \in Seq(Nat)
  <1>0. Len(ps) \in Nat
    BY LenProperties
  <1>1. PICK f \in [0 .. Len(ps) -> Seq(Nat)] :
           /\ f[0] = << >>
           /\ \A i \in 1 .. Len(ps) : f[i] = f[i - 1] \o ps[i][form]
           /\ \A k \in 0 .. Len(ps) : Before(ps, k, form) = f[k]
    BY Spells
  <1>2. \A k \in 1 .. Len(ps) : k - 1 \in 0 .. Len(ps) /\ k \in 0 .. Len(ps)
    BY <1>0
  <1>3. Before(ps, Len(ps), form) = Spelled(ps, form)
    BY SubSeqFull DEF Before
  <1>4. 0 \in 0 .. Len(ps) /\ Len(ps) \in 0 .. Len(ps)
    BY <1>0
  <1> QED
    BY <1>1, <1>2, <1>3, <1>4

\* Where each piece stands in what all of them spell.
LEMMA Lengths ==
  ASSUME NEW form \in Forms, NEW ps \in Seq(Pieces), NEW k \in 1 .. Len(ps)
  PROVE  /\ Len(Before(ps, k - 1, form)) \in Nat /\ Len(ps[k][form]) \in Nat \ {0}
         /\ Len(Before(ps, k, form)) = Len(Before(ps, k - 1, form)) + Len(ps[k][form])
         /\ \A i \in 1 .. Len(Before(ps, k - 1, form)) :
              Before(ps, k, form)[i] = Before(ps, k - 1, form)[i]
         /\ \A i \in 1 .. Len(ps[k][form]) :
              Before(ps, k, form)[Len(Before(ps, k - 1, form)) + i] = ps[k][form][i]
  <1>1. Len(ps) \in Nat /\ k - 1 \in 0 .. Len(ps)
    BY LenProperties
  <1> DEFINE a == Before(ps, k - 1, form)   b == ps[k][form]
  <1>2. a \in Seq(Nat) /\ Before(ps, k, form) = a \o b
    BY <1>1, BeforeSteps
  <1>3. b \in Seq(Nat) /\ Len(b) \in Nat \ {0}
    BY ElementOfSeq, PieceUnits
  <1> HIDE DEF a, b
  <1>4. /\ Len(a \o b) = Len(a) + Len(b)
        /\ \A i \in 1 .. Len(a) + Len(b) :
             (a \o b)[i] = IF i <= Len(a) THEN a[i] ELSE b[i - Len(a)]
    BY <1>2, <1>3, ConcatProperties
  <1>5. Len(a) \in Nat
    BY <1>2, LenProperties
  <1>6. /\ \A i \in 1 .. Len(a) : (a \o b)[i] = a[i]
        /\ \A i \in 1 .. Len(b) : (a \o b)[Len(a) + i] = b[i]
    <2>1. ASSUME NEW i \in 1 .. Len(a) PROVE (a \o b)[i] = a[i]
      <3>1. i \in 1 .. Len(a) + Len(b) /\ i <= Len(a)
        BY <1>3, <1>5
      <3> QED
        BY <1>4, <3>1
    <2>2. ASSUME NEW i \in 1 .. Len(b) PROVE (a \o b)[Len(a) + i] = b[i]
      <3>1. /\ Len(a) + i \in 1 .. Len(a) + Len(b) /\ ~(Len(a) + i <= Len(a))
            /\ Len(a) + i - Len(a) = i
        BY <1>3, <1>5
      <3> QED
        BY <1>4, <3>1
    <2> QED
      BY <2>1, <2>2
  <1> QED
    BY <1>2, <1>3, <1>4, <1>5, <1>6 DEF a, b

LEMMA BeforePrefix ==
  ASSUME NEW form \in Forms, NEW ps \in Seq(Pieces), NEW k \in 0 .. Len(ps), NEW m \in k .. Len(ps)
  PROVE  /\ Len(Before(ps, k, form)) \in Nat
         /\ Len(Before(ps, k, form)) <= Len(Before(ps, m, form))
         /\ \A i \in 1 .. Len(Before(ps, k, form)) : Before(ps, m, form)[i] = Before(ps, k, form)[i]
  <1> DEFINE B(j) == Before(ps, j, form)
             n == Len(ps)
             T == {j \in 0 .. n : j >= k =>
                     /\ Len(B(k)) <= Len(B(j))
                     /\ \A i \in 1 .. Len(B(k)) : B(j)[i] = B(k)[i]}
  <1>1. n \in Nat /\ \A j \in 0 .. n : Len(B(j)) \in Nat
    BY LenProperties, BeforeSteps
  <1>2. ASSUME NEW j \in 1 .. n
        PROVE  /\ Len(B(j - 1)) <= Len(B(j))
               /\ \A i \in 1 .. Len(B(j - 1)) : B(j)[i] = B(j - 1)[i]
    <2>1. /\ Len(B(j - 1)) \in Nat /\ Len(ps[j][form]) \in Nat \ {0}
          /\ Len(B(j)) = Len(B(j - 1)) + Len(ps[j][form])
          /\ \A i \in 1 .. Len(B(j - 1)) : B(j)[i] = B(j - 1)[i]
      BY Lengths
    <2> HIDE DEF B
    <2>2. Len(B(j - 1)) <= Len(B(j))
      <3>1. PICK a \in Nat : a = Len(B(j - 1))
        BY <2>1
      <3>2. PICK b \in Nat : b = Len(ps[j][form])
        BY <2>1
      <3>3. Len(B(j)) = a + b
        BY <2>1, <3>1, <3>2
      <3> QED
        BY <3>1, <3>3
    <2> QED
      BY <2>1, <2>2
  <1> HIDE DEF B
  <1>3. 0 \in T
    <2>1. 0 >= k => k = 0
      OBVIOUS
    <2> QED
      BY <1>1, <2>1
  <1>4. ASSUME NEW j \in 1 .. n, j - 1 \in T PROVE j \in T
    <2>1. CASE j = k
      BY <1>1, <2>1
    <2>2. CASE j > k
      <3>1. j - 1 >= k /\ j \in 0 .. n /\ j - 1 \in 0 .. n
        BY <1>1, <2>2
      <3>2. /\ Len(B(k)) <= Len(B(j - 1))
            /\ \A i \in 1 .. Len(B(k)) : B(j - 1)[i] = B(k)[i]
        BY <1>4, <3>1
      <3>3. Len(B(k)) \in Nat /\ Len(B(j - 1)) \in Nat /\ Len(B(j)) \in Nat
        BY <1>1, <3>1
      <3>4. Len(B(k)) <= Len(B(j))
        BY <1>2, <3>2, <3>3
      <3>5. ASSUME NEW i \in 1 .. Len(B(k)) PROVE B(j)[i] = B(k)[i]
        <4>1. i \in 1 .. Len(B(j - 1))
          BY <3>2, <3>3
        <4> QED
          BY <1>2, <3>2, <4>1
      <3> QED
        BY <3>1, <3>4, <3>5
    <2>3. CASE ~(j >= k)
      BY <1>1, <2>3
    <2> QED
      BY <1>1, <2>1, <2>2, <2>3
  <1> HIDE DEF T
  <1>5. \A j \in 0 .. n : j \in T
    BY <1>1, <1>3, <1>4, Induction
  <1>6. m \in 0 .. n /\ m >= k
    BY <1>1
  <1> QED
    BY <1>1, <1>5, <1>6 DEF T, B

LEMMA PieceStands ==
  ASSUME NEW form \in Forms, NEW ps \in Seq(Pieces), NEW k \in 1 .. Len(ps)
  PROVE  /\ Stands(ps[k][form], Spelled(ps, form), Len(Before(ps, k - 1, form)) + 1)
         /\ Len(Before(ps, k, form)) <= Len(Spelled(ps, form))
  <1> DEFINE B(j) == Before(ps, j, form)
  <1>0. Len(ps) \in Nat
    BY LenProperties
  <1>1. /\ k \in 0 .. Len(ps) /\ Len(ps) \in k .. Len(ps)
        /\ B(Len(ps)) = Spelled(ps, form)
    <2>1. k \in 0 .. Len(ps) /\ Len(ps) \in k .. Len(ps)
      BY <1>0
    <2>2. B(Len(ps)) = Spelled(ps, form)
      BY BeforeSteps
    <2> QED
      BY <2>1, <2>2
  <1>2. /\ Len(B(k)) <= Len(Spelled(ps, form))
        /\ \A i \in 1 .. Len(B(k)) : Spelled(ps, form)[i] = B(k)[i]
    BY <1>1, BeforePrefix
  <1>3. /\ Len(B(k - 1)) \in Nat /\ Len(ps[k][form]) \in Nat \ {0}
        /\ Len(B(k)) = Len(B(k - 1)) + Len(ps[k][form])
        /\ \A i \in 1 .. Len(ps[k][form]) : B(k)[Len(B(k - 1)) + i] = ps[k][form][i]
    BY Lengths
  <1> HIDE DEF B
  <1>4. PICK a \in Nat : a = Len(B(k - 1))
    BY <1>3
  <1>5. PICK l \in Nat \ {0} : l = Len(ps[k][form])
    BY <1>3
  <1>6. /\ Len(Spelled(ps, form)) \in Nat /\ a + l <= Len(Spelled(ps, form))
    BY <1>2, <1>3, <1>4, <1>5, BeforeSteps, LenProperties
  <1>7. a + 1 \in Nat \ {0} /\ a + 1 + l - 1 <= Len(Spelled(ps, form))
    BY <1>6
  <1>8. ASSUME NEW j \in 1 .. l PROVE Spelled(ps, form)[a + 1 + j - 1] = ps[k][form][j]
    <2>1. a + 1 + j - 1 = a + j /\ a + j \in 1 .. a + l
      OBVIOUS
    <2>2. Spelled(ps, form)[a + j] = B(k)[a + j]
      BY <1>2, <1>3, <1>4, <1>5, <2>1
    <2> QED
      BY <1>3, <1>4, <1>5, <2>1, <2>2
  <1> QED
    BY <1>2, <1>4, <1>5, <1>7, <1>8 DEF Stands, B

\* Units that all pieces are made of.
LEMMA UnitsOfPieces ==
  ASSUME NEW form \in Forms, NEW ps \in Seq(Pieces), NEW U,
         \A i \in 1 .. Len(ps) : ps[i][form] \in Seq(U)
  PROVE  Spelled(ps, form) \in Seq(U)
  <1> DEFINE B(j) == Before(ps, j, form)
             T == {j \in 0 .. Len(ps) : B(j) \in Seq(U)}
  <1>1. Len(ps) \in Nat /\ Len(ps) \in 0 .. Len(ps)
    BY LenProperties
  <1>2. 0 \in T
    <2>1. B(0) = << >>
      BY BeforeSteps
    <2>2. 0 \in 0 .. Len(ps)
      BY <1>1
    <2> HIDE DEF B
    <2> QED
      BY <2>1, <2>2, EmptySeq
  <1>3. ASSUME NEW j \in 1 .. Len(ps), j - 1 \in T PROVE j \in T
    <2>1. B(j) = B(j - 1) \o ps[j][form]
      BY BeforeSteps
    <2>2. j \in 0 .. Len(ps)
      BY <1>1
    <2> HIDE DEF B
    <2>3. B(j - 1) \o ps[j][form] \in Seq(U)
      BY <1>3, ConcatProperties
    <2> QED
      BY <2>1, <2>2, <2>3
  <1> HIDE DEF T
  <1>4. \A j \in 0 .. Len(ps) : j \in T
    BY <1>1, <1>2, <1>3, Induction
  <1>5. B(Len(ps)) \in Seq(U)
    BY <1>1, <1>4 DEF T
  <1> QED
    BY <1>5, BeforeSteps

-----------------------------------------------------------------------------
(***************************************************************************)
(* What is heard of the pieces.                                            *)
(***************************************************************************)
LEMMA TakingSteps ==
  ASSUME NEW ps \in Seq(Pieces)
  PROVE  /\ ~Taking(ps)[0]
         /\ \A i \in 1 .. Len(ps) : Taking(ps)[i] <=> IsCut(ps[i]) /\ ~Taking(ps)[i - 1]
  <1> DEFINE n == Len(ps)
             Steps(w) == [i \in 0 .. n |-> i > 0 /\ IsCut(ps[i]) /\ ~w[i - 1]]
             taking == CHOOSE w : w = Steps(w)
             g == [i \in 1 .. n |-> [b \in BOOLEAN |-> IsCut(ps[i]) /\ ~b]]
  <1>0. n \in Nat
    BY LenProperties
  <1>1. Taking(ps) = taking
    BY DEF Taking
  <1>2. g \in [1 .. n -> [BOOLEAN -> BOOLEAN]] /\ FALSE \in BOOLEAN
    BY Zenon
  <1>3. PICK f \in [0 .. n -> BOOLEAN] : Stepwise(f, n, FALSE, g)
    <2> HIDE DEF n, g
    <2> QED
      BY <1>0, <1>2, Recursion
  <1>4. \E w : w = Steps(w)
    <2>1. ASSUME NEW i \in 0 .. n PROVE f[i] = (i > 0 /\ IsCut(ps[i]) /\ ~f[i - 1])
      <3>1. CASE i = 0
        <4>1. f[i] = FALSE /\ ~(i > 0)
          BY <1>3, <3>1 DEF Stepwise
        <4> QED
          BY <4>1
      <3>2. CASE i # 0
        <4>1. i \in 1 .. n /\ i > 0 /\ i - 1 \in 0 .. n
          BY <1>0, <3>2
        <4>2. f[i - 1] \in BOOLEAN
          BY <4>1
        <4>3. f[i] = g[i][f[i - 1]]
          BY <1>3, <4>1 DEF Stepwise
        <4>4. g[i][f[i - 1]] = (IsCut(ps[i]) /\ ~f[i - 1])
          BY <4>1, <4>2, Zenon
        <4> QED
          BY <4>1, <4>3, <4>4
      <3> QED
        BY <3>1, <3>2
    <2>2. f = [i \in 0 .. n |-> f[i]]
      OBVIOUS
    <2>3. f = Steps(f)
      BY <2>1, <2>2
    <2> QED
      BY <2>3
  <1>5. taking = Steps(taking)
    <2> HIDE DEF Steps
    <2> QED
      BY <1>4
  <1> HIDE DEF taking
  <1>6. \A i \in 0 .. n : taking[i] = (i > 0 /\ IsCut(ps[i]) /\ ~taking[i - 1])
    BY <1>5
  <1>7. 0 \in 0 .. n /\ ~(0 > 0)
    BY <1>0
  <1>8. \A i \in 1 .. n : i \in 0 .. n /\ i > 0
    BY <1>0
  <1> HIDE DEF n
  <1> QED
    BY <1>1, <1>6, <1>7, <1>8 DEF n

LEMMA HeardSteps ==
  ASSUME NEW ps \in Seq(Pieces)
  PROVE  /\ HeardIn(ps) \in [0 .. Len(ps) -> Seq(Characters)]
         /\ HeardIn(ps)[0] = << >>
         /\ \A i \in 1 .. Len(ps) :
              HeardIn(ps)[i] = IF IsStray(ps[i]) \/ Taking(ps)[i - 1] THEN HeardIn(ps)[i - 1]
                               ELSE Append(HeardIn(ps)[i - 1], ps[i])
  <1> DEFINE n == Len(ps)
             Dropped(i) == IsStray(ps[i]) \/ Taking(ps)[i - 1]
             Steps(w) == [i \in 0 .. n |->
               CASE i = 0 -> << >>
                 [] i > 0 /\ (IsStray(ps[i]) \/ Taking(ps)[i - 1]) -> w[i - 1]
                 [] OTHER -> Append(w[i - 1], ps[i])]
             heard == CHOOSE w : w = Steps(w)
             g == [i \in 1 .. n |-> [s \in Seq(Characters) |->
                     IF Dropped(i) THEN s ELSE Append(s, ps[i])]]
  <1>0. n \in Nat
    BY LenProperties
  <1>1. HeardIn(ps) = heard
    BY DEF HeardIn
  <1>2. \A i \in 1 .. n : ~Dropped(i) => ps[i] \in Characters
    BY ElementOfSeq DEF IsStray, Pieces
  <1>3. g \in [1 .. n -> [Seq(Characters) -> Seq(Characters)]]
    <2> SUFFICES ASSUME NEW i \in 1 .. n, NEW s \in Seq(Characters)
                 PROVE  (IF Dropped(i) THEN s ELSE Append(s, ps[i])) \in Seq(Characters)
      OBVIOUS
    <2> HIDE DEF Dropped
    <2>1. ~Dropped(i) => Append(s, ps[i]) \in Seq(Characters)
      BY <1>2, AppendProperties
    <2> QED
      BY <2>1
  <1>4. << >> \in Seq(Characters)
    BY EmptySeq
  <1>5. PICK f \in [0 .. n -> Seq(Characters)] : Stepwise(f, n, << >>, g)
    <2> HIDE DEF n, g
    <2> QED
      BY <1>0, <1>3, <1>4, Recursion
  <1>6. \E w : w = Steps(w)
    <2>1. ASSUME NEW i \in 0 .. n PROVE f[i] = Steps(f)[i]
      <3>1. CASE i = 0
        <4>1. f[i] = << >> /\ ~(i > 0)
          BY <1>5, <3>1 DEF Stepwise
        <4> QED
          BY <3>1, <4>1
      <3>2. CASE i # 0
        <4>1. i \in 1 .. n /\ i > 0 /\ i - 1 \in 0 .. n
          BY <1>0, <3>2
        <4>2. f[i - 1] \in Seq(Characters)
          BY <4>1
        <4>3. f[i] = g[i][f[i - 1]]
          BY <1>5, <4>1 DEF Stepwise
        <4>4. g[i][f[i - 1]] = IF Dropped(i) THEN f[i - 1] ELSE Append(f[i - 1], ps[i])
          <5> HIDE DEF Dropped
          <5> QED
            BY <4>1, <4>2
        <4>5. Steps(f)[i] = IF Dropped(i) THEN f[i - 1] ELSE Append(f[i - 1], ps[i])
          BY <3>2, <4>1
        <4> QED
          BY <4>3, <4>4, <4>5
      <3> QED
        BY <3>1, <3>2
    <2>2. f = [i \in 0 .. n |-> f[i]]
      OBVIOUS
    <2>3. f = Steps(f)
      BY <2>1, <2>2
    <2> QED
      BY <2>3
  <1>7. heard = Steps(heard)
    <2> HIDE DEF Steps
    <2> QED
      BY <1>6
  <1> HIDE DEF heard
  <1>8. heard[0] = << >> /\ DOMAIN heard = 0 .. n /\ heard = [i \in 0 .. n |-> heard[i]]
    <2>1. 0 \in 0 .. n
      BY <1>0
    <2> QED
      BY <1>7, <2>1
  <1>9. ASSUME NEW i \in 1 .. n
        PROVE  heard[i] = IF Dropped(i) THEN heard[i - 1] ELSE Append(heard[i - 1], ps[i])
    <2>1. i \in 0 .. n /\ i > 0 /\ i # 0
      BY <1>0
    <2> QED
      BY <1>7, <2>1
  <1> DEFINE T == {i \in 0 .. n : heard[i] \in Seq(Characters)}
  <1>10. 0 \in T
    BY <1>0, <1>4, <1>8
  <1>11. ASSUME NEW i \in 1 .. n, i - 1 \in T PROVE i \in T
    <2>1. i \in 0 .. n
      BY <1>0
    <2> HIDE DEF Dropped
    <2>2. ~Dropped(i) => Append(heard[i - 1], ps[i]) \in Seq(Characters)
      BY <1>2, <1>11, AppendProperties
    <2> QED
      BY <1>9, <1>11, <2>1, <2>2
  <1> HIDE DEF T
  <1>12. \A i \in 0 .. n : i \in T
    BY <1>0, <1>10, <1>11, Induction
  <1>13. heard \in [0 .. n -> Seq(Characters)]
    BY <1>8, <1>12 DEF T
  <1> QED
    BY <1>1, <1>8, <1>9, <1>13

\* What is heard grows.
LEMMA HeardGrows ==
  ASSUME NEW ps \in Seq(Pieces), NEW k \in 0 .. Len(ps), NEW m \in k .. Len(ps)
  PROVE  /\ HeardIn(ps)[k] \in Seq(Characters) /\ HeardIn(ps)[m] \in Seq(Characters)
         /\ Len(HeardIn(ps)[k]) <= Len(HeardIn(ps)[m])
         /\ HeardIn(ps)[k] = SubSeq(HeardIn(ps)[m], 1, Len(HeardIn(ps)[k]))
  <1> DEFINE n == Len(ps)
             h == HeardIn(ps)
             T == {j \in 0 .. n : j >= k => \E t \in Seq(Characters) : h[j] = h[k] \o t}
  <1>1. n \in Nat /\ h \in [0 .. n -> Seq(Characters)]
    BY LenProperties, HeardSteps
  <1>2. \A j \in 1 .. n : h[j] = h[j - 1] \/ (ps[j] \in Characters /\ h[j] = Append(h[j - 1], ps[j]))
    <2>1. \A j \in 1 .. n : ps[j] \in Pieces
      BY ElementOfSeq
    <2> QED
      BY <2>1, HeardSteps DEF Pieces, IsStray
  <1> HIDE DEF h
  <1>3. h[k] = h[k] \o << >> /\ << >> \in Seq(Characters)
    BY <1>1, ConcatEmptySeq, EmptySeq
  <1>4. 0 \in T
    <2>1. 0 >= k => k = 0
      OBVIOUS
    <2>2. 0 \in 0 .. n
      BY <1>1
    <2>3. 0 >= k => \E t \in Seq(Characters) : h[0] = h[k] \o t
      BY <1>3, <2>1
    <2> QED
      BY <2>2, <2>3
  <1>5. ASSUME NEW j \in 1 .. n, j - 1 \in T PROVE j \in T
    <2>0. j \in 0 .. n /\ j - 1 \in 0 .. n
      BY <1>1
    <2>1. CASE j = k
      BY <1>3, <2>0, <2>1
    <2>2. CASE j > k
      <3>1. j - 1 >= k
        BY <2>2
      <3>2. PICK t \in Seq(Characters) : h[j - 1] = h[k] \o t
        BY <1>5, <3>1
      <3>3. \E t2 \in Seq(Characters) : h[j] = h[k] \o t2
        <4>1. CASE h[j] = h[j - 1]
          BY <3>2, <4>1
        <4>2. CASE ps[j] \in Characters /\ h[j] = Append(h[j - 1], ps[j])
          <5>1. h[k] \in Seq(Characters) /\ h[j - 1] \in Seq(Characters)
            BY <1>1, <2>0
          <5>2. << ps[j] >> \in Seq(Characters)
            BY <4>2
          <5>3. h[j] = h[j - 1] \o << ps[j] >>
            BY <4>2, <5>1, AppendIsConcat
          <5>4. h[j] = h[k] \o (t \o << ps[j] >>)
            <6>1. h[j] = (h[k] \o t) \o << ps[j] >>
              BY <3>2, <5>3
            <6> DEFINE a == h[k]   u == << ps[j] >>
            <6>3. a \in Seq(Characters) /\ u \in Seq(Characters) /\ t \in Seq(Characters)
              BY <5>1, <5>2
            <6> HIDE DEF a, u
            <6>4. (a \o t) \o u = a \o (t \o u)
              BY ONLY <6>3, ConcatAssociative, SMT
            <6>2. (h[k] \o t) \o << ps[j] >> = h[k] \o (t \o << ps[j] >>)
              BY <6>4 DEF a, u
            <6> QED
              BY <6>1, <6>2
          <5>5. t \o << ps[j] >> \in Seq(Characters)
            BY <5>2, ConcatProperties
          <5> QED
            BY <5>4, <5>5
        <4> QED
          BY <1>2, <4>1, <4>2
      <3> QED
        BY <2>0, <3>3
    <2>3. CASE ~(j >= k)
      BY <2>0, <2>3
    <2> HIDE DEF T
    <2>4. j = k \/ j > k \/ ~(j >= k)
      BY <2>0
    <2> QED
      BY <2>1, <2>2, <2>3, <2>4
  <1> HIDE DEF T
  <1>6. \A j \in 0 .. n : j \in T
    BY <1>1, <1>4, <1>5, Induction
  <1>7. m \in 0 .. n /\ m >= k
    BY <1>1
  <1>8. PICK t \in Seq(Characters) : h[m] = h[k] \o t
    BY <1>6, <1>7 DEF T
  <1>9. h[k] \in Seq(Characters) /\ h[m] \in Seq(Characters)
    BY <1>1, <1>7
  <1> DEFINE a == h[k]
  <1>10. a \in Seq(Characters) /\ Len(a) \in Nat /\ Len(t) \in Nat
    BY <1>9, LenProperties
  <1> HIDE DEF a
  <1>11. /\ Len(a \o t) = Len(a) + Len(t)
         /\ \A i \in 1 .. Len(a) + Len(t) :
              (a \o t)[i] = IF i <= Len(a) THEN a[i] ELSE t[i - Len(a)]
    BY <1>10, ConcatProperties
  <1>12. a = SubSeq(a \o t, 1, Len(a))
    <2>1. a \o t \in Seq(Characters) /\ Len(a) \in 0 .. Len(a \o t)
      BY <1>10, <1>11, ConcatProperties
    <2>2. /\ SubSeq(a \o t, 1, Len(a)) \in Seq(Characters)
          /\ Len(SubSeq(a \o t, 1, Len(a))) = Len(a)
          /\ \A i \in 1 .. Len(a) : SubSeq(a \o t, 1, Len(a))[i] = (a \o t)[i]
      BY <2>1, FirstPieces
    <2>3. \A i \in 1 .. Len(a) : (a \o t)[i] = a[i]
      <3>1. \A i \in 1 .. Len(a) : i \in 1 .. Len(a) + Len(t) /\ i <= Len(a)
        BY <1>10
      <3> QED
        BY <1>11, <3>1
    <2>4. \A i \in 1 .. Len(a) : SubSeq(a \o t, 1, Len(a))[i] = a[i]
      BY <2>2, <2>3
    <2> QED
      BY <1>10, <2>2, <2>4, SeqEqual
  <1>13. Len(a) <= Len(a \o t)
    BY <1>10, <1>11
  <1> QED
    BY <1>8, <1>9, <1>12, <1>13 DEF a, h

\* All of a text that has characters only.
LEMMA HeardOfCharacters ==
  ASSUME NEW cs \in Seq(Characters)
  PROVE  Heard(cs) = cs
  <1> DEFINE n == Len(cs)
             h == HeardIn(cs)
             T == {j \in 0 .. n : ~Taking(cs)[j] /\ h[j] = SubSeq(cs, 1, j)}
  <1>1. n \in Nat /\ cs \in Seq(Pieces) /\ \A j \in 1 .. n : cs[j] \in Characters
    BY LenProperties, ElementOfSeq, SeqMonotonic DEF Pieces
  <1>2. \A j \in 1 .. n : ~IsStray(cs[j]) /\ ~IsCut(cs[j])
    <2>1. "utf8" \in Forms
      BY DEF Forms
    <2> QED
      BY <1>1, <2>1, CharacterUnits DEF IsCut
  <1>3. ~Taking(cs)[0] /\ \A j \in 1 .. n : ~Taking(cs)[j]
    BY <1>1, <1>2, TakingSteps
  <1>4. h[0] = << >>
    BY <1>1, HeardSteps
  <1>5. \A j \in 1 .. n :
          h[j] = IF IsStray(cs[j]) \/ Taking(cs)[j - 1] THEN h[j - 1] ELSE Append(h[j - 1], cs[j])
    BY <1>1, HeardSteps
  <1> HIDE DEF h
  <1>6. 0 \in T
    <2>1. SubSeq(cs, 1, 0) = << >>
      BY SubSeqEmpty
    <2>2. 0 \in 0 .. n
      BY <1>1
    <2> QED
      BY <1>3, <1>4, <2>1, <2>2
  <1>7. ASSUME NEW j \in 1 .. n, j - 1 \in T PROVE j \in T
    <2>1. h[j] = Append(h[j - 1], cs[j])
      BY <1>2, <1>5, <1>7
    <2>2. j \in 1 .. Len(cs) /\ 1 \in 1 .. Len(cs) /\ j \in 1 .. j /\ j \in 0 .. n
          /\ j \in 1 .. Len(cs)
      BY <1>1
    <2>3. SubSeq(cs, 1, j) = SubSeq(cs, 1, j - 1) \o << cs[j] >>
      BY <2>2, SubSeqRecursiveSecond
    <2>4. SubSeq(cs, 1, j - 1) \in Seq(Characters)
      <3>1. j - 1 \in 0 .. Len(cs)
        BY <1>1
      <3> QED
        BY <3>1, FirstPieces
    <2>5. Append(SubSeq(cs, 1, j - 1), cs[j]) = SubSeq(cs, 1, j - 1) \o << cs[j] >>
      BY <1>1, <2>4, AppendIsConcat
    <2> QED
      BY <1>3, <1>7, <2>1, <2>2, <2>3, <2>5
  <1> HIDE DEF T
  <1>8. \A j \in 0 .. n : j \in T
    BY <1>1, <1>6, <1>7, Induction
  <1>9. n \in T
    BY <1>1, <1>8
  <1>10. h[n] = cs
    BY <1>9, SubSeqFull DEF T
  <1> QED
    BY <1>10 DEF Heard, h

-----------------------------------------------------------------------------
(***************************************************************************)
(* Reading a text: what each step of the code finds.                       *)
(***************************************************************************)

\* The units of the text that belong together.
Good(ps, form) ==
  /\ ps \in Seq(Pieces)
  /\ \A i \in 1 .. Len(ps) - 1 : IsCut(ps[i]) => ~Follows(ps[i + 1], form)

\* Where the piece after the first k begins.
Place(ps, k, form) == Len(Before(ps, k, form)) + 1

\* The iterator is past k pieces, or in the last of them behind its first unit.
At(ps, form, k, p) ==
  /\ k \in 0 .. Len(ps) /\ p \in Nat \ {0} /\ ~Taking(ps)[k]
  /\ p <= Place(ps, k, form)
  /\ k > 0 => p > Place(ps, k - 1, form)
  /\ k = 0 => p = 1

LEMMA Places ==
  ASSUME NEW form \in Forms, NEW ps \in Seq(Pieces)
  PROVE  /\ Len(ps) \in Nat /\ Place(ps, 0, form) = 1
         /\ \A k \in 0 .. Len(ps) : Place(ps, k, form) \in Nat \ {0}
         /\ \A k \in 1 .. Len(ps) :
              /\ Len(ps[k][form]) \in Nat \ {0}
              /\ Place(ps, k, form) = Place(ps, k - 1, form) + Len(ps[k][form])
              /\ Stands(ps[k][form], Spelled(ps, form), Place(ps, k - 1, form))
         /\ Place(ps, Len(ps), form) = Len(Spelled(ps, form)) + 1
         /\ Spelled(ps, form) \in Seq(Nat)
  <1>1. /\ Len(ps) \in Nat /\ Len(<< >>) = 0
        /\ \A k \in 0 .. Len(ps) : Len(Before(ps, k, form)) \in Nat
    BY LenProperties, EmptySeq, BeforeSteps
  <1>2. Before(ps, 0, form) = << >> /\ Before(ps, Len(ps), form) = Spelled(ps, form)
        /\ Spelled(ps, form) \in Seq(Nat)
    BY BeforeSteps
  <1>3. ASSUME NEW k \in 1 .. Len(ps)
        PROVE  /\ Len(ps[k][form]) \in Nat \ {0}
               /\ Place(ps, k, form) = Place(ps, k - 1, form) + Len(ps[k][form])
               /\ Stands(ps[k][form], Spelled(ps, form), Place(ps, k - 1, form))
    <2>1. /\ Len(Before(ps, k - 1, form)) \in Nat /\ Len(ps[k][form]) \in Nat \ {0}
          /\ Len(Before(ps, k, form)) = Len(Before(ps, k - 1, form)) + Len(ps[k][form])
      BY Lengths
    <2>2. Stands(ps[k][form], Spelled(ps, form), Len(Before(ps, k - 1, form)) + 1)
      BY PieceStands
    <2>3. PICK a \in Nat : a = Len(Before(ps, k - 1, form))
      BY <2>1
    <2>4. PICK b \in Nat \ {0} : b = Len(ps[k][form])
      BY <2>1
    <2>5. a + b + 1 = a + 1 + b
      OBVIOUS
    <2> QED
      BY <2>1, <2>2, <2>3, <2>4, <2>5 DEF Place
  <1>4. \A k \in 0 .. Len(ps) : Place(ps, k, form) \in Nat \ {0}
    <2> SUFFICES ASSUME NEW k \in 0 .. Len(ps) PROVE Place(ps, k, form) \in Nat \ {0}
      OBVIOUS
    <2>1. PICK a \in Nat : a = Len(Before(ps, k, form))
      BY <1>1
    <2> QED
      BY <2>1 DEF Place
  <1>5. Place(ps, 0, form) = 1
    <2>1. Len(Before(ps, 0, form)) = 0
      BY <1>1, <1>2
    <2> QED
      BY <2>1 DEF Place
  <1>6. Place(ps, Len(ps), form) = Len(Spelled(ps, form)) + 1
    BY <1>2 DEF Place
  <1> QED
    BY <1>1, <1>2, <1>3, <1>4, <1>5, <1>6

\* Behind the first unit of a piece.
LEMMA ReadInside ==
  ASSUME NEW form \in Forms, NEW ps \in Seq(Pieces), NEW k, NEW p, At(ps, form, k, p),
         p # Place(ps, k, form)
  PROVE  /\ decode(form, Spelled(ps, form), p) = Read(illegal, p + 1)
         /\ At(ps, form, k, p + 1)
  <1> DEFINE s == Spelled(ps, form)   u == ps[k][form]
  <1>1. k \in 1 .. Len(ps)
    BY Places DEF At
  <1>2. PICK a \in Nat \ {0} : a = Place(ps, k - 1, form)
    <2>1. k - 1 \in 0 .. Len(ps)
      BY <1>1, Places
    <2> QED
      BY <2>1, Places
  <1>3. PICK l \in Nat \ {0} : l = Len(u)
    BY <1>1, Places
  <1>4. Place(ps, k, form) = a + l
    BY <1>1, <1>2, <1>3, Places
  <1>5. /\ Stands(u, s, a) /\ s \in Seq(Nat)
    BY <1>1, <1>2, Places
  <1>6. p \in Nat \ {0} /\ a < p /\ p < a + l /\ ~Taking(ps)[k] /\ k \in 0 .. Len(ps) /\ k > 0
    <2>1. p \in Nat \ {0} /\ p <= Place(ps, k, form) /\ ~Taking(ps)[k] /\ k \in 0 .. Len(ps)
      BY DEF At
    <2>2. p > Place(ps, k - 1, form) /\ k > 0
      BY <1>1 DEF At
    <2> QED
      BY <1>2, <1>4, <2>1, <2>2
  <1>7. PICK j \in 2 .. l : j = p - a + 1
    BY <1>6
  <1>8. a + j - 1 = p /\ j \in 1 .. l
    BY <1>6, <1>7
  <1>9. s[p] = u[j] /\ a + l - 1 <= Len(s)
    BY <1>3, <1>5, <1>8 DEF Stands
  <1>10. IsLoose(form, u[j])
    BY <1>1, <1>3, <1>7, ElementOfSeq, PieceUnits
  <1>11. p \in 1 .. Len(s)
    <2>1. Len(s) \in Nat
      BY <1>5, LenProperties
    <2> HIDE DEF s, u
    <2> QED
      BY <1>6, <1>9, <2>1
  <1>12. decode(form, s, p) = Read(illegal, p + 1)
    <2> HIDE DEF s, u
    <2> QED
      BY <1>5, <1>9, <1>10, <1>11, ReadLoose
  <1>13. At(ps, form, k, p + 1)
    <2>1. p + 1 \in Nat \ {0} /\ p + 1 <= a + l /\ p + 1 > a /\ k # 0
      BY <1>6
    <2> QED
      BY <1>2, <1>4, <1>6, <2>1 DEF At
  <1> QED
    BY <1>12, <1>13

\* Past all pieces.
LEMMA ReadEnd ==
  ASSUME NEW form \in Forms, NEW ps \in Seq(Pieces)
  PROVE  decode(form, Spelled(ps, form), Place(ps, Len(ps), form)).cp = incomplete
  <1>1. PICK n \in Nat : n = Len(Spelled(ps, form))
    BY Places, LenProperties
  <1>2. Place(ps, Len(ps), form) = n + 1
    BY <1>1, Places
  <1>3. n + 1 > n /\ ~(n + 1 <= n)
    OBVIOUS
  <1>4. decode(form, Spelled(ps, form), n + 1) = Read(incomplete, n + 1)
    BY <1>1, <1>3 DEF decode
  <1> QED
    BY <1>2, <1>4 DEF Read

LEMMA ReadCharacter ==
  ASSUME NEW form \in Forms, NEW ps \in Seq(Pieces), NEW k \in 1 .. Len(ps), ps[k] \in Characters
  PROVE  decode(form, Spelled(ps, form), Place(ps, k - 1, form)) = Read(ps[k].code, Place(ps, k, form))
  <1> DEFINE s == Spelled(ps, form)   u == ps[k][form]
  <1>1. /\ u \in Seq(Nat) /\ u # << >> /\ decode(form, u, 1) = Read(ps[k].code, Len(u) + 1)
        /\ ps[k].code \in Nat
    BY CharacterUnits
  <1>2. PICK a \in Nat \ {0} : a = Place(ps, k - 1, form)
    <2>1. k - 1 \in 0 .. Len(ps)
      BY Places
    <2> QED
      BY <2>1, Places
  <1>3. PICK l \in Nat \ {0} : l = Len(u)
    BY Places
  <1>4. Place(ps, k, form) = a + l /\ Stands(u, s, a) /\ s \in Seq(Nat)
    BY <1>2, <1>3, Places
  <1> DEFINE d == decode(form, u, 1)
  <1>5. d.cp = ps[k].code /\ d.next = l + 1 /\ d.cp # incomplete
    <2>1. d.cp = ps[k].code /\ d.next = l + 1
      BY <1>1, <1>3 DEF Read
    <2>2. \A n \in Nat : n # incomplete
      BY SMT DEF incomplete
    <2> QED
      BY <1>1, <2>1, <2>2
  <1> HIDE DEF s, u
  <1>6. decode(form, s, a) = Read(d.cp, a + d.next - 1)
    BY <1>1, <1>4, <1>5, Within
  <1>7. a + (l + 1) - 1 = a + l
    OBVIOUS
  <1> HIDE DEF d
  <1> QED
    BY <1>2, <1>4, <1>5, <1>6, <1>7 DEF s

LEMMA ReadStray ==
  ASSUME NEW form \in Forms, NEW ps \in Seq(Pieces), NEW k \in 1 .. Len(ps), IsStray(ps[k]), ~IsCut(ps[k])
  PROVE  \E p \in Nat :
           /\ p > Place(ps, k - 1, form) /\ p <= Place(ps, k, form)
           /\ decode(form, Spelled(ps, form), Place(ps, k - 1, form)) = Read(illegal, p)
  <1> DEFINE s == Spelled(ps, form)   u == ps[k][form]
  <1>1. u \in Seq(Nat) /\ u # << >> /\ decode(form, u, 1).cp = illegal
    <2>1. decode(form, u, 1).cp = IF ps[k].cut THEN incomplete ELSE illegal
      BY StraysAssumption DEF IsStray
    <2> QED
      BY <2>1, ElementOfSeq, PieceUnits DEF IsCut
  <1>2. PICK a \in Nat \ {0} : a = Place(ps, k - 1, form)
    <2>1. k - 1 \in 0 .. Len(ps)
      BY Places
    <2> QED
      BY <2>1, Places
  <1>3. PICK l \in Nat \ {0} : l = Len(u)
    BY Places
  <1>4. Place(ps, k, form) = a + l /\ Stands(u, s, a) /\ s \in Seq(Nat)
    BY <1>2, <1>3, Places
  <1> DEFINE d == decode(form, u, 1)
  <1>5. d.cp # incomplete
    BY <1>1, SMT DEF incomplete, illegal
  <1> HIDE DEF s, u
  <1>6. d.next \in 2 .. Len(u) + 1 /\ decode(form, s, a) = Read(d.cp, a + d.next - 1)
    BY <1>1, <1>4, <1>5, Within
  <1>7. PICK m \in 2 .. l + 1 : m = d.next
    BY <1>3, <1>6
  <1>8. a + m - 1 \in Nat /\ a + m - 1 > a /\ a + m - 1 <= a + l
    OBVIOUS
  <1> QED
    BY <1>1, <1>2, <1>4, <1>6, <1>7, <1>8 DEF s

LEMMA ReadCut ==
  ASSUME NEW form \in Forms, NEW ps, Good(ps, form), NEW k \in 1 .. Len(ps), IsCut(ps[k])
  PROVE  LET d == decode(form, Spelled(ps, form), Place(ps, k - 1, form)) IN
         /\ k = Len(ps) => d.cp = incomplete
         /\ k # Len(ps) => d = Read(illegal, Place(ps, k, form) + 1)
  <1>0. ps \in Seq(Pieces)
    BY DEF Good
  <1> DEFINE s == Spelled(ps, form)   u == ps[k][form]
  <1>1. u \in Seq(Nat) /\ u # << >> /\ decode(form, u, 1).cp = incomplete
    <2>1. decode(form, u, 1).cp = IF ps[k].cut THEN incomplete ELSE illegal
      BY StraysAssumption DEF IsStray, IsCut
    <2> QED
      BY <1>0, <2>1, ElementOfSeq, PieceUnits DEF IsCut
  <1>2. PICK a \in Nat \ {0} : a = Place(ps, k - 1, form)
    <2>1. k - 1 \in 0 .. Len(ps)
      BY <1>0, Places
    <2> QED
      BY <1>0, <2>1, Places
  <1>3. PICK l \in Nat \ {0} : l = Len(u)
    BY <1>0, Places
  <1>4. Place(ps, k, form) = a + l /\ Stands(u, s, a) /\ s \in Seq(Nat)
    BY <1>0, <1>2, <1>3, Places
  <1>5. /\ a + Len(u) - 1 = Len(s) => decode(form, s, a).cp = incomplete
        /\ a + Len(u) <= Len(s) /\ ~IsLoose(form, s[a + Len(u)]) =>
             decode(form, s, a) = Read(illegal, a + Len(u) + 1)
    <2> HIDE DEF s, u
    <2> QED
      BY <1>1, <1>4, Within
  <1>6. ASSUME k = Len(ps) PROVE decode(form, s, a).cp = incomplete
    <2>1. Place(ps, k, form) = Len(s) + 1 /\ Len(s) \in Nat
      BY <1>0, <1>6, Places, LenProperties
    <2> HIDE DEF s, u
    <2>2. a + Len(u) - 1 = Len(s)
      BY <1>3, <1>4, <2>1
    <2> QED
      BY <1>5, <2>2
  <1>7. ASSUME k # Len(ps) PROVE decode(form, s, a) = Read(illegal, a + l + 1)
    <2>1. k + 1 \in 1 .. Len(ps) /\ k \in 1 .. Len(ps) - 1 /\ k + 1 - 1 = k
      BY <1>0, <1>7, Places
    <2> DEFINE v == ps[k + 1][form]
    <2>2. /\ ~IsLoose(form, v[1]) /\ Len(v) \in Nat \ {0} /\ Stands(v, s, a + l)
      BY <1>0, <1>4, <2>1, Places DEF Good, Follows
    <2> HIDE DEF v, s, u
    <2>3. PICK b \in Nat \ {0} : b = Len(v)
      BY <2>2
    <2>4. PICK n \in Nat : n = Len(s)
      BY <1>4, LenProperties
    <2>5. a + l + b - 1 <= n /\ \A j \in 1 .. b : s[a + l + j - 1] = v[j]
      BY <2>2, <2>3, <2>4 DEF Stands
    <2>6. a + l <= n /\ 1 \in 1 .. b /\ a + l + 1 - 1 = a + l
      BY <2>5
    <2>7. s[a + l] = v[1]
      BY <2>5, <2>6
    <2> QED
      BY <1>3, <1>5, <2>2, <2>4, <2>6, <2>7
  <1> QED
    BY <1>2, <1>4, <1>6, <1>7

\* The text has ended, or one piece more is dropped or heard.
Ended(ps, k, d) ==
  d.cp = incomplete /\ HeardIn(ps)[Len(ps)] = HeardIn(ps)[k]
Dropped(ps, form, k, d) ==
  /\ d.cp = illegal
  /\ \E m \in 0 .. Len(ps) : At(ps, form, m, d.next) /\ HeardIn(ps)[m] = HeardIn(ps)[k]
Heeded(ps, form, k, d) ==
  \E c \in Characters :
    /\ d.cp = c.code
    /\ At(ps, form, k + 1, d.next)
    /\ HeardIn(ps)[k + 1] = Append(HeardIn(ps)[k], c)

LEMMA ReadStep ==
  ASSUME NEW form \in Forms, NEW ps, Good(ps, form), NEW k, NEW p, At(ps, form, k, p)
  PROVE  LET d == decode(form, Spelled(ps, form), p) IN
         Ended(ps, k, d) \/ Dropped(ps, form, k, d) \/ Heeded(ps, form, k, d)
  <1> DEFINE d == decode(form, Spelled(ps, form), p)
             h == HeardIn(ps)
  <1>0. /\ ps \in Seq(Pieces) /\ Len(ps) \in Nat
        /\ k \in 0 .. Len(ps) /\ ~Taking(ps)[k]
    BY Places DEF Good, At
  <1>1. CASE p # Place(ps, k, form)
    <2>1. d = Read(illegal, p + 1) /\ At(ps, form, k, p + 1)
      BY <1>0, <1>1, ReadInside
    <2>2. d.cp = illegal /\ d.next = p + 1
      BY <2>1 DEF Read
    <2>3. Dropped(ps, form, k, d)
      BY <1>0, <2>1, <2>2 DEF Dropped
    <2> QED
      BY <2>3
  <1>2. CASE p = Place(ps, k, form) /\ k = Len(ps)
    <2>1. d.cp = incomplete
      BY <1>0, <1>2, ReadEnd
    <2>2. Ended(ps, k, d)
      BY <1>2, <2>1 DEF Ended
    <2> QED
      BY <2>2
  <1>3. CASE p = Place(ps, k, form) /\ k # Len(ps)
    <2> DEFINE x == ps[k + 1]
    <2>1. k + 1 \in 1 .. Len(ps) /\ k + 1 \in 0 .. Len(ps) /\ k + 1 - 1 = k /\ k + 1 > 0 /\ k + 1 # 0
      BY <1>0, <1>3
    <2>2. PICK a \in Nat \ {0} : a = Place(ps, k, form)
      BY <1>0, Places
    <2>3. PICK l \in Nat \ {0} : l = Len(x[form])
      BY <1>0, <2>1, Places
    <2>4. Place(ps, k + 1, form) = a + l
      BY <1>0, <2>1, <2>2, <2>3, Places
    <2>5. x \in Pieces
      BY <1>0, <2>1, ElementOfSeq
    <2>6. /\ Taking(ps)[k + 1] <=> IsCut(x)
          /\ h[k + 1] = IF IsStray(x) THEN h[k] ELSE Append(h[k], x)
      BY <1>0, <2>1, TakingSteps, HeardSteps
    <2>7. CASE x \in Characters
      <3>1. ~IsStray(x) /\ ~IsCut(x)
        BY <2>7, StraysAssumption DEF IsStray, IsCut
      <3>2. d = Read(x.code, a + l)
        BY <1>0, <1>3, <2>1, <2>4, <2>7, ReadCharacter
      <3>3. d.cp = x.code /\ d.next = a + l
        BY <3>2 DEF Read
      <3>4. At(ps, form, k + 1, a + l)
        <4>1. a + l \in Nat \ {0} /\ a + l > a /\ a + l <= a + l
          OBVIOUS
        <4> QED
          BY <2>1, <2>2, <2>4, <2>6, <3>1, <4>1 DEF At
      <3>5. Heeded(ps, form, k, d)
        BY <2>6, <2>7, <3>1, <3>3, <3>4 DEF Heeded
      <3> QED
        BY <3>5
    <2>8. CASE IsStray(x) /\ ~IsCut(x)
      <3>1. PICK q \in Nat : /\ q > Place(ps, k, form) /\ q <= Place(ps, k + 1, form)
                             /\ d = Read(illegal, q)
        BY <1>0, <1>3, <2>1, <2>8, ReadStray
      <3>2. d.cp = illegal /\ d.next = q
        BY <3>1 DEF Read
      <3>3. At(ps, form, k + 1, q)
        <4>1. q # 0
          BY <2>2, <3>1
        <4> QED
          BY <2>1, <2>6, <2>8, <3>1, <4>1 DEF At
      <3>4. Dropped(ps, form, k, d)
        BY <2>1, <2>6, <2>8, <3>2, <3>3 DEF Dropped
      <3> QED
        BY <3>4
    <2>9. CASE IsCut(x)
      <3>0. IsStray(x)
        BY <2>9 DEF IsCut
      <3>1. /\ k + 1 = Len(ps) => d.cp = incomplete
            /\ k + 1 # Len(ps) => d = Read(illegal, Place(ps, k + 1, form) + 1)
        <4>1. PICK j \in 1 .. Len(ps) : j = k + 1
          BY <2>1
        <4>2. IsCut(ps[j]) /\ Place(ps, j - 1, form) = p
          <5>1. j - 1 = k
            BY <1>0, <4>1
          <5> QED
            BY <1>3, <2>9, <4>1, <5>1
        <4>3. /\ j = Len(ps) => decode(form, Spelled(ps, form), Place(ps, j - 1, form)).cp = incomplete
              /\ j # Len(ps) => decode(form, Spelled(ps, form), Place(ps, j - 1, form))
                                  = Read(illegal, Place(ps, j, form) + 1)
          BY <4>2, ReadCut
        <4> QED
          BY <4>1, <4>2, <4>3
      <3>2. CASE k + 1 = Len(ps)
        <4>1. Ended(ps, k, d)
          BY <2>6, <3>0, <3>1, <3>2 DEF Ended
        <4> QED
          BY <4>1
      <3>3. CASE k + 1 # Len(ps)
        <4>1. k + 2 \in 1 .. Len(ps) /\ k + 2 \in 0 .. Len(ps) /\ k + 2 - 1 = k + 1 /\ k + 2 # 0
              /\ k + 2 > 0
          BY <1>0, <2>1, <3>3
        <4>2. Taking(ps)[k + 1] /\ ~Taking(ps)[k + 2] /\ h[k + 2] = h[k]
          BY <1>0, <2>6, <2>9, <3>0, <4>1, TakingSteps, HeardSteps
        <4>3. PICK b \in Nat \ {0} : b = Len(ps[k + 2][form])
          BY <1>0, <4>1, Places
        <4>4. Place(ps, k + 2, form) = a + l + b
          <5>1. PICK j \in 1 .. Len(ps) : j = k + 2
            BY <4>1
          <5>2. Place(ps, j, form) = Place(ps, j - 1, form) + Len(ps[j][form])
            BY <1>0, Places
          <5>3. j - 1 = k + 1
            BY <1>0, <5>1
          <5> QED
            BY <2>4, <4>3, <5>1, <5>2, <5>3
        <4>5. At(ps, form, k + 2, a + l + 1)
          <5>1. a + l + 1 \in Nat \ {0} /\ a + l + 1 > a + l /\ a + l + 1 <= a + l + b
            OBVIOUS
          <5> QED
            BY <2>4, <4>1, <4>2, <4>4, <5>1 DEF At
        <4>6. d.cp = illegal /\ d.next = a + l + 1
          BY <2>4, <3>1, <3>3 DEF Read
        <4>7. Dropped(ps, form, k, d)
          BY <4>1, <4>2, <4>5, <4>6 DEF Dropped
        <4> QED
          BY <4>7
      <3> QED
        BY <3>2, <3>3
    <2> QED
      BY <2>5, <2>7, <2>8, <2>9 DEF Pieces, IsStray
  <1> QED
    BY <1>1, <1>2, <1>3

LEMMA ReadFirst ==
  ASSUME NEW form \in Forms, NEW ps \in Seq(Pieces)
  PROVE  At(ps, form, 0, 1) /\ HeardIn(ps)[0] = << >>
  BY Places, TakingSteps, HeardSteps DEF At

-----------------------------------------------------------------------------
(***************************************************************************)
(* Arrays, and what fits in them.                                          *)
(***************************************************************************)
LEMMA GreatestIsMax ==
  ASSUME NEW S \in SUBSET Int, NEW m \in S, \A i \in S : i <= m
  PROVE  Max(S) = m
  <1>1. Max(S) \in S /\ \A i \in S : Max(S) >= i
    BY Zenon DEF Max
  <1>2. m \in Int /\ Max(S) \in Int /\ Max(S) <= m /\ Max(S) >= m
    BY <1>1
  <1> QED
    BY <1>2

LEMMA SpelledAppend ==
  ASSUME NEW form \in Forms, NEW cs \in Seq(Characters), NEW c \in Characters
  PROVE  /\ Spelled(Append(cs, c), form) = Spelled(cs, form) \o c[form]
         /\ Spelled(cs, form) \in Seq(Nat) /\ c[form] \in Seq(Nat)
         /\ Len(Spelled(Append(cs, c), form)) = Len(Spelled(cs, form)) + Len(c[form])
  <1> DEFINE qs == Append(cs, c)   n == Len(cs)
  <1>1. qs \in Seq(Pieces) /\ cs \in Seq(Pieces)
    <2>1. qs \in Seq(Characters)
      BY AppendProperties
    <2> QED
      BY <2>1, SeqMonotonic DEF Pieces
  <1>2. n \in Nat /\ Len(qs) = n + 1 /\ qs[n + 1] = c /\ \A i \in 1 .. n : qs[i] = cs[i]
    BY LenProperties, AppendProperties
  <1> HIDE DEF qs, n
  <1>3. n + 1 \in 1 .. Len(qs) /\ n + 1 - 1 = n /\ n \in 0 .. Len(qs) /\ Len(qs) = n + 1
    BY <1>2
  <1>4. SubSeq(qs, 1, n) = cs
    <2>1. /\ SubSeq(qs, 1, n) \in Seq(Pieces) /\ Len(SubSeq(qs, 1, n)) = n
          /\ \A i \in 1 .. n : SubSeq(qs, 1, n)[i] = qs[i]
      BY <1>1, <1>3, FirstPieces
    <2>2. \A i \in 1 .. n : SubSeq(qs, 1, n)[i] = cs[i]
      BY <1>2, <2>1
    <2> QED
      BY <1>1, <2>1, <2>2, SeqEqual DEF n
  <1>5. Before(qs, n + 1, form) = Before(qs, n, form) \o qs[n + 1][form]
    <2>1. PICK m \in 1 .. Len(qs) : m = n + 1
      BY <1>3
    <2>2. m - 1 = n
      BY <1>2, <2>1
    <2>3. Before(qs, m, form) = Before(qs, m - 1, form) \o qs[m][form]
      BY <1>1, BeforeSteps
    <2> QED
      BY <2>1, <2>2, <2>3
  <1>6. Before(qs, n + 1, form) = Spelled(qs, form) /\ Before(qs, n, form) = Spelled(cs, form)
    BY <1>1, <1>3, <1>4, BeforeSteps DEF Before
  <1>7. Spelled(qs, form) = Spelled(cs, form) \o c[form]
    BY <1>2, <1>5, <1>6
  <1>8. Spelled(cs, form) \in Seq(Nat) /\ c[form] \in Seq(Nat)
    BY <1>1, BeforeSteps, CharacterUnits
  <1> QED
    BY <1>7, <1>8, ConcatProperties DEF qs

\* The array b, of r units, begins with the units of out.
Holds(b, r, out) ==
  /\ DOMAIN b = 1 .. r /\ Len(b) = r
  /\ \A i \in 1 .. Len(out) : b[i] = out[i]

LEMMA WrittenHolds ==
  ASSUME NEW r \in Nat, NEW out \in Seq(Nat), NEW u \in Seq(Nat), Holds(buf, r, out),
         at = Len(out) + 1, Len(out) + Len(u) <= r
  PROVE  Holds(Written(u), r, out \o u)
  <1>1. Len(out) \in Nat /\ Len(u) \in Nat
    BY LenProperties
  <1>2. /\ Len(out \o u) = Len(out) + Len(u)
        /\ \A i \in 1 .. Len(out) + Len(u) :
             (out \o u)[i] = IF i <= Len(out) THEN out[i] ELSE u[i - Len(out)]
    BY ConcatProperties
  <1>3. DOMAIN buf = 1 .. r /\ \A i \in 1 .. Len(out) : buf[i] = out[i]
    BY DEF Holds
  <1> DEFINE w == [i \in 1 .. r |->
                IF i \in at .. at + Len(u) - 1 THEN u[i - at + 1] ELSE buf[i]]
  <1>4. Written(u) = w
    BY <1>3 DEF Written
  <1>5. DOMAIN w = 1 .. r /\ Len(w) = r
    OBVIOUS
  <1>6. ASSUME NEW i \in 1 .. Len(out \o u) PROVE w[i] = (out \o u)[i]
    <2>1. PICK n \in Nat : n = Len(out)
      BY <1>1
    <2>2. PICK m \in Nat : m = Len(u)
      BY <1>1
    <2>3. i \in 1 .. n + m /\ i \in 1 .. r /\ at = n + 1
      BY <1>2, <2>1, <2>2
    <2>4. w[i] = IF i \in at .. at + m - 1 THEN u[i - at + 1] ELSE buf[i]
      BY <2>2, <2>3
    <2> HIDE DEF w
    <2>5. CASE i <= n
      <3>1. i \notin at .. at + m - 1 /\ i \in 1 .. n
        BY <2>3, <2>5
      <3> QED
        BY <1>2, <1>3, <2>1, <2>2, <2>3, <2>4, <2>5, <3>1
    <2>6. CASE ~(i <= n)
      <3>1. i \in at .. at + m - 1 /\ i - at + 1 = i - n
        BY <2>3, <2>6
      <3> QED
        BY <1>2, <2>1, <2>2, <2>3, <2>4, <2>6, <3>1
    <2> QED
      BY <2>5, <2>6
  <1> HIDE DEF w
  <1> QED
    BY <1>4, <1>5, <1>6 DEF Holds

\* What begins an array, and ends with its first zero.
LEMMA FirstUnits ==
  ASSUME NEW b, NEW r \in Nat, NEW S, NEW out \in Seq(S), Holds(b, r, out)
  PROVE  SubSeq(b, 1, Len(out)) = out
  <1>1. PICK n \in Nat : n = Len(out)
    BY LenProperties
  <1>2. \A i \in 1 .. n : b[i] = out[i] /\ out[i] \in S
    BY <1>1, ElementOfSeq DEF Holds
  <1>3. /\ SubSeq(b, 1, n) \in Seq(S)
        /\ Len(SubSeq(b, 1, n)) = IF 1 <= n THEN n - 1 + 1 ELSE 0
        /\ \A i \in 1 .. n - 1 + 1 : SubSeq(b, 1, n)[i] = b[1 + i - 1]
    <2>1. 1 \in Int /\ n \in Int /\ \A i \in 1 .. n : b[i] \in S
      BY <1>2
    <2> QED
      BY <2>1, SubSeqProperties
  <1>4. n - 1 + 1 = n /\ (~(1 <= n) => n = 0) /\ \A i \in 1 .. n : 1 + i - 1 = i
    OBVIOUS
  <1>5. Len(SubSeq(b, 1, n)) = n /\ \A i \in 1 .. n : SubSeq(b, 1, n)[i] = out[i]
    BY <1>2, <1>3, <1>4
  <1> QED
    BY <1>1, <1>3, <1>5, SeqEqual

LEMMA EndsAt ==
  ASSUME NEW b, NEW r \in Nat, NEW z, NEW out \in Seq(Nat \ {z}), Holds(b, r, out),
         Len(out) <= r, Len(out) < r => b[Len(out) + 1] = z
  PROVE  SubSeq(b, 1, Min({i \in 1 .. r : b[i] = z} \cup {r + 1}) - 1) = out
  <1>1. PICK n \in Nat : n = Len(out)
    BY LenProperties
  <1>2. \A i \in 1 .. n : b[i] = out[i] /\ out[i] # z
    BY <1>1, ElementOfSeq DEF Holds
  <1> DEFINE Z == {i \in 1 .. r : b[i] = z} \cup {r + 1}
  <1>4. Min(Z) = n + 1
    <2>1. Z \in SUBSET Int
      OBVIOUS
    <2>2. n + 1 \in Z
      <3>1. CASE n < r
        <4>1. n + 1 \in 1 .. r /\ b[n + 1] = z
          BY <1>1, <3>1
        <4> QED
          BY <4>1
      <3>2. CASE ~(n < r)
        <4>1. n = r
          BY <1>1, <3>2
        <4> QED
          BY <4>1
      <3> QED
        BY <3>1, <3>2
    <2>3. ASSUME NEW i \in Z PROVE n + 1 <= i
      <3>1. i \in 1 .. r + 1 /\ (i <= r => b[i] = z)
        OBVIOUS
      <3>2. i \notin 1 .. n
        <4>1. ASSUME i \in 1 .. n PROVE FALSE
          <5>1. i <= r
            BY <1>1, <4>1
          <5> QED
            BY <1>2, <3>1, <4>1, <5>1
        <4> QED
          BY <4>1
      <3> QED
        BY <3>1, <3>2
    <2> HIDE DEF Z
    <2> QED
      BY <2>1, <2>2, <2>3, LeastIsMin
  <1> HIDE DEF Z
  <1>6. n + 1 - 1 = n
    OBVIOUS
  <1>7. SubSeq(b, 1, Min(Z) - 1) = out
    BY <1>1, <1>4, <1>6, FirstUnits
  <1> QED
    BY <1>7 DEF Z

LEMMA UpToNulHolds ==
  ASSUME NEW b, NEW r \in Nat, NEW out \in Seq(Nat \ {0}), Holds(b, r, out),
         Len(out) <= r, Len(out) < r => b[Len(out) + 1] = 0
  PROVE  UpToNul(b) = out
  <1>1. Len(b) = r
    BY DEF Holds
  <1>2. SubSeq(b, 1, Min({i \in 1 .. r : b[i] = 0} \cup {r + 1}) - 1) = out
    BY EndsAt
  <1> QED
    BY <1>1, <1>2 DEF UpToNul

\* The units that are no question mark.
NoQuery == Nat \ {63}

LEMMA BeforeQueryHolds ==
  ASSUME NEW b, NEW r \in Nat, NEW out \in Seq(NoQuery), Holds(b, r, out),
         Len(out) <= r, Len(out) < r => b[Len(out) + 1] = 63
  PROVE  BeforeQuery(b) = out
  <1>1. Len(b) = r /\ DOMAIN b = 1 .. r
    BY DEF Holds
  <1>2. SubSeq(b, 1, Min({i \in 1 .. r : b[i] = 63} \cup {r + 1}) - 1) = out
    <2> DEFINE z == 63
    <2>1. out \in Seq(Nat \ {z}) /\ (Len(out) < r => b[Len(out) + 1] = z)
      BY DEF NoQuery
    <2> HIDE DEF z
    <2>2. SubSeq(b, 1, Min({i \in 1 .. r : b[i] = z} \cup {r + 1}) - 1) = out
      BY ONLY <2>1, r \in Nat, Holds(b, r, out), Len(out) <= r, EndsAt
    <2> QED
      BY <2>2 DEF z
  <1> QED
    BY <1>1, <1>2 DEF BeforeQuery

\* As many characters as there is room for.
LEMMA FittingIs ==
  ASSUME NEW form \in Forms, NEW cs \in Seq(Characters), NEW n \in 0 .. Len(cs), NEW r \in Nat,
         Len(Before(cs, n, form)) < r,
         n # Len(cs) => Len(Before(cs, n + 1, form)) >= r
  PROVE  Fitting(cs, form, r) = SubSeq(cs, 1, n)
  <1> DEFINE S == {i \in 0 .. Len(cs) : Len(Spelled(SubSeq(cs, 1, i), form)) < r}
  <1>1. cs \in Seq(Pieces) /\ Len(cs) \in Nat
    BY SeqMonotonic, LenProperties DEF Pieces
  <1>2. S = {i \in 0 .. Len(cs) : Len(Before(cs, i, form)) < r}
    BY DEF Before
  <1>3. S \in SUBSET Int /\ n \in S
    BY <1>1, <1>2
  <1>4. ASSUME NEW i \in S PROVE i <= n
    <2> SUFFICES ASSUME ~(i <= n) PROVE FALSE
      OBVIOUS
    <2>1. i \in 0 .. Len(cs) /\ Len(Before(cs, i, form)) < r
      BY <1>2
    <2>2. n # Len(cs) /\ n + 1 \in 0 .. Len(cs) /\ i \in n + 1 .. Len(cs)
      BY <1>1, <2>1
    <2>3. PICK m \in 0 .. Len(cs) : m = n + 1
      BY <2>2
    <2>4. i \in m .. Len(cs)
      BY <2>2, <2>3
    <2>5. Len(Before(cs, m, form)) \in Nat /\ Len(Before(cs, m, form)) <= Len(Before(cs, i, form))
      BY <1>1, <2>4, BeforePrefix
    <2>6. Len(Before(cs, m, form)) >= r
      BY <2>2, <2>3
    <2>7. Len(Before(cs, i, form)) \in Nat
      BY <1>1, <2>1, BeforeSteps, LenProperties
    <2> HIDE DEF S
    <2> QED
      BY <2>1, <2>5, <2>6, <2>7
  <1>5. Fitting(cs, form, r) = SubSeq(cs, 1, Max(S))
    BY DEF Fitting
  <1> HIDE DEF S
  <1>6. Max(S) = n
    BY <1>3, <1>4, GreatestIsMax
  <1> QED
    BY <1>5, <1>6

LEMMA FittingFits ==
  ASSUME NEW form \in Forms, NEW cs \in Seq(Characters), NEW r \in Nat \ {0}
  PROVE  /\ \E n \in 0 .. Len(cs) : Fitting(cs, form, r) = SubSeq(cs, 1, n)
         /\ Fitting(cs, form, r) \in Seq(Characters)
         /\ Len(Spelled(Fitting(cs, form, r), form)) < r
         /\ Fitting(Fitting(cs, form, r), form, r) = Fitting(cs, form, r)
  <1> DEFINE L(i) == Len(Before(cs, i, form))
             T == {i \in 0 .. Len(cs) : i # Len(cs) => L(i + 1) >= r}
  <1>1. cs \in Seq(Pieces) /\ Len(cs) \in Nat /\ \A i \in 0 .. Len(cs) : L(i) \in Nat
    BY SeqMonotonic, LenProperties, BeforeSteps DEF Pieces
  <1>2. PICK n \in T : \A i \in T : n <= i
    <2>1. Len(cs) \in T /\ T \in SUBSET Nat
      BY <1>1
    <2> HIDE DEF T
    <2> QED
      BY <2>1, Least
  <1>3. n \in 0 .. Len(cs) /\ (n # Len(cs) => L(n + 1) >= r)
    OBVIOUS
  <1>4. L(n) < r
    <2>1. CASE n = 0
      <3>1. L(0) = 0
        <4>1. Before(cs, 0, form) = << >>
          BY <1>1, BeforeSteps
        <4> QED
          BY <4>1, EmptySeq
      <3> HIDE DEF L
      <3> QED
        BY <2>1, <3>1
    <2>2. CASE n # 0
      <3>1. n - 1 \in 0 .. Len(cs) /\ n - 1 # Len(cs) /\ ~(n <= n - 1) /\ n - 1 + 1 = n
        BY <1>1, <1>3, <2>2
      <3>2. n - 1 \notin T
        BY <1>2, <3>1
      <3>3. ~(L(n - 1 + 1) >= r)
        BY <3>1, <3>2
      <3>4. L(n) \in Nat
        BY <1>1, <1>3
      <3> HIDE DEF L, T
      <3> QED
        BY <3>1, <3>3, <3>4
    <2> QED
      BY <2>1, <2>2
  <1> DEFINE fs == SubSeq(cs, 1, n)
  <1>5. Fitting(cs, form, r) = fs
    <2> HIDE DEF T
    <2> QED
      BY <1>3, <1>4, FittingIs
  <1>6. fs \in Seq(Characters) /\ Len(fs) = n
    BY <1>3, FirstPieces
  <1>7. Spelled(fs, form) = Before(cs, n, form)
    BY DEF Before
  <1> HIDE DEF fs, T
  <1>8. fs \in Seq(Pieces) /\ Before(fs, n, form) = Spelled(fs, form) /\ SubSeq(fs, 1, n) = fs
    <2>1. fs \in Seq(Pieces)
      BY <1>6, SeqMonotonic DEF Pieces
    <2>2. Before(fs, Len(fs), form) = Spelled(fs, form) /\ SubSeq(fs, 1, Len(fs)) = fs
      BY <1>6, <2>1, BeforeSteps, SubSeqFull
    <2> QED
      BY <1>6, <2>1, <2>2
  <1>9. Fitting(fs, form, r) = SubSeq(fs, 1, n)
    <2>1. n \in 0 .. Len(fs) /\ n = Len(fs) /\ Len(Before(fs, n, form)) < r
      BY <1>3, <1>4, <1>6, <1>7, <1>8
    <2> QED
      BY <1>6, <2>1, FittingIs
  <1>10. \E m \in 0 .. Len(cs) : Fitting(cs, form, r) = SubSeq(cs, 1, m)
    BY <1>3, <1>5 DEF fs
  <1> QED
    BY <1>4, <1>5, <1>6, <1>7, <1>8, <1>9, <1>10

\* All of them, when they fit.
LEMMA FittingAll ==
  ASSUME NEW form \in Forms, NEW cs \in Seq(Characters), NEW r \in Nat,
         Len(Spelled(cs, form)) < r
  PROVE  Fitting(cs, form, r) = cs
  <1>1. cs \in Seq(Pieces) /\ Len(cs) \in 0 .. Len(cs)
    BY SeqMonotonic, LenProperties DEF Pieces
  <1>2. Before(cs, Len(cs), form) = Spelled(cs, form)
    BY <1>1, BeforeSteps
  <1>3. PICK n \in 0 .. Len(cs) : n = Len(cs)
    BY <1>1
  <1>4. Fitting(cs, form, r) = SubSeq(cs, 1, n)
    BY <1>2, <1>3, FittingIs
  <1> QED
    BY <1>3, <1>4, SubSeqFull

\* What is heard of a text is no longer than the text.
LEMMA HeardShorter ==
  ASSUME NEW form \in Forms, NEW ps \in Seq(Pieces)
  PROVE  /\ Len(Spelled(Heard(ps), form)) <= Len(Spelled(ps, form))
         /\ Len(Spelled(ps, form)) \in Nat
  <1> DEFINE n == Len(ps)
             h == HeardIn(ps)
             T == {j \in 0 .. n : Len(Spelled(h[j], form)) <= Len(Before(ps, j, form))}
  <1>1. /\ n \in Nat /\ h \in [0 .. n -> Seq(Characters)] /\ h[0] = << >>
        /\ \A j \in 1 .. n :
             h[j] = IF IsStray(ps[j]) \/ Taking(ps)[j - 1] THEN h[j - 1]
                    ELSE Append(h[j - 1], ps[j])
    BY LenProperties, HeardSteps
  <1>2. \A j \in 1 .. n : IsStray(ps[j]) \/ ps[j] \in Characters
    BY ElementOfSeq DEF Pieces, IsStray
  <1>3. Before(ps, 0, form) = << >> /\ Spelled(<< >>, form) = << >>
    <2>1. << >> \in Seq(Pieces) /\ Len(<< >>) = 0
      BY EmptySeq
    <2>2. Before(<< >>, 0, form) = << >> /\ Before(<< >>, Len(<< >>), form) = Spelled(<< >>, form)
      BY <2>1, BeforeSteps
    <2> QED
      BY <2>1, <2>2, BeforeSteps
  <1> HIDE DEF h, n
  <1>4. 0 \in T
    <2>1. Len(<< >>) <= Len(<< >>) /\ 0 \in 0 .. n
      BY <1>1
    <2> QED
      BY <1>1, <1>3, <2>1
  <1>5. ASSUME NEW j \in 1 .. n, j - 1 \in T PROVE j \in T
    <2>1. /\ j \in 1 .. Len(ps) /\ j \in 0 .. n /\ j - 1 \in 0 .. n
      BY <1>1 DEF n
    <2>2. PICK cs \in Seq(Characters) : cs = h[j - 1]
      BY <1>1, <2>1
    <2>3. /\ Len(Before(ps, j - 1, form)) \in Nat /\ Len(ps[j][form]) \in Nat \ {0}
          /\ Len(Before(ps, j, form)) = Len(Before(ps, j - 1, form)) + Len(ps[j][form])
      BY <2>1, Lengths
    <2>4. Len(Spelled(cs, form)) <= Len(Before(ps, j - 1, form))
      BY <1>5, <2>2
    <2>5. Len(Spelled(cs, form)) \in Nat
      <3>1. cs \in Seq(Pieces)
        BY SeqMonotonic DEF Pieces
      <3> QED
        BY <3>1, BeforeSteps, LenProperties
    <2>6. CASE h[j] = h[j - 1]
      <3>1. PICK a \in Nat : a = Len(Before(ps, j - 1, form))
        BY <2>3
      <3>2. PICK b \in Nat : b = Len(ps[j][form])
        BY <2>3
      <3>3. PICK l \in Nat : l = Len(Spelled(cs, form))
        BY <2>5
      <3>4. l <= a /\ Len(Before(ps, j, form)) = a + b
        BY <2>3, <2>4, <3>1, <3>2, <3>3
      <3>5. Len(Spelled(h[j], form)) = l
        BY <2>2, <2>6, <3>3
      <3>6. Len(Spelled(h[j], form)) <= Len(Before(ps, j, form))
        BY <3>4, <3>5
      <3> QED
        BY <2>1, <3>6
    <2>7. CASE ps[j] \in Characters /\ h[j] = Append(h[j - 1], ps[j])
      <3>1. Len(Spelled(h[j], form)) = Len(Spelled(cs, form)) + Len(ps[j][form])
        BY <2>2, <2>7, SpelledAppend
      <3>2. Len(Spelled(h[j], form)) <= Len(Before(ps, j, form))
        BY <2>3, <2>4, <2>5, <3>1
      <3> QED
        BY <2>1, <3>2
    <2> QED
      BY <1>1, <1>2, <2>6, <2>7
  <1> HIDE DEF T
  <1>6. \A j \in 0 .. n : j \in T
    BY <1>1, <1>4, <1>5, Induction
  <1>7. Len(Spelled(h[n], form)) <= Len(Before(ps, n, form))
    BY <1>1, <1>6 DEF T
  <1> QED
    BY <1>7, BeforeSteps, LenProperties DEF Heard, h, n

\* A copy that goes on, or ends.
LEMMA CopyEndsWithFitting ==
  ASSUME NEW form \in Forms, NEW into \in Forms, NEW ps, Good(ps, form), NEW k, NEW p,
         At(ps, form, k, p), NEW r \in Nat \ {0},
         Len(Spelled(HeardIn(ps)[k], into)) < r,
         LET d == decode(form, Spelled(ps, form), p) IN
           d.cp # incomplete =>
             d.cp >= 0 /\ Len(Spelled(HeardIn(ps)[k], into)) + width(into, d.cp) >= r
  PROVE  HeardIn(ps)[k] = Fitting(Heard(ps), into, r)
  <1> DEFINE d == decode(form, Spelled(ps, form), p)
             all == Heard(ps)
             h == HeardIn(ps)
             n == Len(h[k])
  <1>1. /\ ps \in Seq(Pieces) /\ Len(ps) \in Nat /\ k \in 0 .. Len(ps)
        /\ Len(ps) \in k .. Len(ps) /\ Len(ps) \in 0 .. Len(ps)
    <2>1. ps \in Seq(Pieces) /\ k \in 0 .. Len(ps)
      BY DEF Good, At
    <2>2. Len(ps) \in Nat
      BY <2>1, LenProperties
    <2> QED
      BY <2>1, <2>2
  <1>2. all = h[Len(ps)]
    BY DEF Heard
  <1>3. /\ h[k] \in Seq(Characters) /\ all \in Seq(Characters) /\ n <= Len(all)
        /\ h[k] = SubSeq(all, 1, n)
    BY <1>1, <1>2, HeardGrows
  <1>4. n \in 0 .. Len(all) /\ n \in Nat /\ Len(all) \in Nat
    <2>1. n \in Nat /\ Len(all) \in Nat
      BY <1>3, LenProperties
    <2> HIDE DEF n, all
    <2> QED
      BY <1>3, <2>1
  <1>5. Before(all, n, into) = Spelled(h[k], into)
    BY <1>3 DEF Before
  <1>6. CASE Ended(ps, k, d)
    <2>1. all = h[k]
      BY <1>2, <1>6 DEF Ended
    <2>2. n = Len(all)
      BY <2>1
    <2> HIDE DEF n, all, h
    <2>3. Fitting(all, into, r) = SubSeq(all, 1, n)
      BY <1>3, <1>4, <1>5, <2>2, FittingIs DEF h
    <2> QED
      BY <1>3, <2>3 DEF all, h
  <1>7. CASE Heeded(ps, form, k, d)
    <2>1. PICK c \in Characters : d.cp = c.code /\ k + 1 \in 0 .. Len(ps)
                                  /\ h[k + 1] = Append(h[k], c)
      BY <1>7 DEF Heeded, At
    <2>2. PICK m \in 0 .. Len(ps) : m = k + 1
      BY <2>1
    <2>3. /\ h[m] \in Seq(Characters) /\ Len(h[m]) <= Len(all) /\ h[m] = SubSeq(all, 1, Len(h[m]))
      <3>1. Len(ps) \in m .. Len(ps)
        BY <1>1
      <3> QED
        BY <1>1, <1>2, <3>1, HeardGrows
    <2>4. h[m] = Append(h[k], c) /\ Len(h[m]) = n + 1
      BY <1>3, <2>1, <2>2, AppendProperties
    <2>5. Len(Spelled(h[m], into)) = Len(Spelled(h[k], into)) + Len(c[into])
      BY <1>3, <2>4, SpelledAppend
    <2>6. Len(c[into]) = width(into, d.cp) /\ d.cp # incomplete
      <3>1. c.code \in Nat /\ Len(c[into]) = width(into, c.code)
        BY CharacterUnits
      <3>2. \A i \in Nat : i # incomplete
        BY SMT DEF incomplete
      <3> QED
        BY <2>1, <3>1, <3>2
    <2>7. Len(Before(all, n + 1, into)) >= r
      BY <2>3, <2>4, <2>5, <2>6 DEF Before
    <2> HIDE DEF n, all, h
    <2>8. Fitting(all, into, r) = SubSeq(all, 1, n)
      BY <1>3, <1>4, <1>5, <2>7, FittingIs DEF h
    <2> QED
      BY <1>3, <2>8 DEF all, h
  <1>8. CASE Dropped(ps, form, k, d)
    <2>1. d.cp = illegal
      BY <1>8 DEF Dropped
    <2>2. illegal # incomplete /\ ~(illegal >= 0)
      BY SMT DEF illegal, incomplete
    <2> QED
      BY <2>1, <2>2
  <1>9. Ended(ps, k, d) \/ Dropped(ps, form, k, d) \/ Heeded(ps, form, k, d)
    BY ReadStep
  <1> QED
    BY <1>6, <1>7, <1>8, <1>9

-----------------------------------------------------------------------------
(***************************************************************************)
(* Addresses.                                                              *)
(***************************************************************************)

\* The units of UTF-8 are bytes, and a question mark is one by itself.
LEMMA CharacterBytes ==
  ASSUME NEW x \in Characters
  PROVE  /\ \A i \in 1 .. Len(x.utf8) : x.utf8[i] <= 255
         /\ \A i \in 1 .. Len(x.utf8) : x.utf8[i] = 63 => x.utf8 = << 63 >>
  <1> DEFINE c == x.code   u == x.utf8
  <1>1. c \in Nat /\ is_valid_codepoint(c) /\ u = encode8(c)
    <2>1. "utf8" \in Forms
      BY DEF Forms
    <2>2. x["utf8"] = encode("utf8", x.code)
      BY <2>1, CharactersAssumption
    <2> QED
      BY <2>2, CharactersAssumption DEF encode
  <1> HIDE DEF c, u
  <1>2. PICK t \in 0 .. 3 : IsEncoded8(u, t, c)
    BY <1>1, Encoded8
  <1>3. /\ u \in Seq(Nat) /\ Len(u) = t + 1 /\ trail_length(u[1]) = t
        /\ \A i \in 2 .. Len(u) : is_trail(u[i])
        /\ t = 0 => u = <<c>>
        /\ t # 0 => \A i \in 1 .. Len(u) : u[i] >= 128
    BY <1>2 DEF IsEncoded8
  <1>4. ASSUME NEW i \in 1 .. Len(u) PROVE u[i] <= 255
    <2>1. PICK w \in Nat : w = u[i]
      BY <1>3, ElementOfSeq
    <2>2. CASE i = 1
      <3>1. trail_length(w) >= 0
        BY <1>3, <2>1, <2>2
      <3>2. w <= 255
        BY <3>1, SMT DEF trail_length
      <3> QED
        BY <2>1, <3>2
    <2>3. CASE i # 1
      <3>1. is_trail(w)
        BY <1>3, <2>1, <2>3
      <3>2. w <= 255
        BY <3>1, SMT DEF is_trail
      <3> QED
        BY <2>1, <3>2
    <2> QED
      BY <2>2, <2>3
  <1>5. ASSUME NEW i \in 1 .. Len(u), u[i] = 63 PROVE u = << 63 >>
    <2>1. t = 0
      BY <1>3, <1>5, SMT
    <2>2. i = 1 /\ u = << c >>
      BY <1>3, <2>1
    <2>3. << c >>[1] = c
      OBVIOUS
    <2>4. c = 63
      BY <1>5, <2>2, <2>3
    <2> QED
      BY <2>2, <2>4
  <1> QED
    BY <1>4, <1>5 DEF u

LEMMA StrayBytes ==
  ASSUME NEW x \in Strays
  PROVE  /\ \A i \in 1 .. Len(x.utf8) : x.utf8[i] <= 255
         /\ \A i \in 1 .. Len(x.utf8) : x.utf8[i] # 63
  <1> DEFINE u == x.utf8
  <1>1. /\ u \in Seq(Unit8 \ {0}) /\ u # << >>
        /\ decode("utf8", u, 1).cp \in {incomplete, illegal}
        /\ \A i \in 2 .. Len(u) : is_trail(u[i])
    <2>1. "utf8" \in Forms
      BY DEF Forms
    <2>2. /\ x.utf8 \in Seq(Unit8 \ {0})
          /\ decode("utf8", x["utf8"], 1).cp = IF x.cut THEN incomplete ELSE illegal
          /\ x["utf8"] # << >> /\ \A i \in 2 .. Len(x["utf8"]) : IsLoose("utf8", x["utf8"][i])
      BY <2>1, StraysAssumption
    <2> QED
      BY <2>2 DEF IsLoose
  <1> HIDE DEF u
  <1>2. ASSUME NEW i \in 1 .. Len(u) PROVE u[i] \in Nat /\ u[i] <= 255
    <2>1. u[i] \in Unit8
      BY <1>1, ElementOfSeq
    <2> QED
      BY <2>1 DEF Unit8
  <1>3. u \in Seq(Nat) /\ Len(u) \in Nat \ {0}
    <2>1. Unit8 \ {0} \subseteq Nat
      BY DEF Unit8
    <2> QED
      BY <1>1, <2>1, SeqMonotonic, EmptySeq, LenProperties
  <1>4. ASSUME NEW i \in 1 .. Len(u), u[i] = 63 PROVE FALSE
    <2>1. CASE i # 1
      <3>1. is_trail(u[i])
        BY <1>1, <2>1
      <3> QED
        BY <1>4, <3>1, SMT DEF is_trail
    <2>2. CASE i = 1
      <3>1. 1 \in 1 .. Len(u) /\ ~(1 > Len(u)) /\ 1 <= Len(u) /\ 1 + 0 <= Len(u)
        BY <1>3
      <3>2. trail_length(u[1]) = 0
        BY <1>4, <2>2, SMT DEF trail_length
      <3>3. CodePoint8(u, 1, 0) = u[1]
        BY DEF CodePoint8
      <3>4. is_valid_codepoint(u[1]) /\ width8(u[1]) = 0 + 1
        BY <1>4, <2>2, SMT DEF is_valid_codepoint, width8
      <3>5. decode8(u, 1) = Read(IF /\ is_valid_codepoint(CodePoint8(u, 1, 0))
                                    /\ width8(CodePoint8(u, 1, 0)) = 0 + 1
                                 THEN CodePoint8(u, 1, 0) ELSE illegal, 1 + 0 + 1)
        <4>1. 0 \in Nat /\ 0 = trail_length(u[1]) /\ \A j \in 1 .. 0 : is_trail(u[1 + j])
          BY <3>2
        <4> QED
          BY <1>3, <3>1, <4>1, Whole8
      <3>6. decode8(u, 1).cp = u[1]
        BY <3>3, <3>4, <3>5 DEF Read
      <3>7. decode("utf8", u, 1) = decode8(u, 1)
        BY <3>1 DEF decode
      <3>8. u[1] # incomplete /\ u[1] # illegal
        BY <1>4, <2>2, SMT DEF incomplete, illegal
      <3> QED
        BY <1>1, <3>6, <3>7, <3>8
    <2> QED
      BY <2>1, <2>2
  <1> QED
    BY <1>2, <1>4 DEF u

Bytes == {b \in Nat \ {0} : b <= 255}

LEMMA PieceBytes ==
  ASSUME NEW x \in Pieces
  PROVE  /\ x.utf8 \in Seq(Bytes)
         /\ x.utf8 # << 63 >> => x.utf8 \in Seq(NoQuery)
  <1>1. x.utf8 \in Seq(Nat) /\ \A i \in 1 .. Len(x.utf8) : x.utf8[i] # 0
    <2>1. "utf8" \in Forms
      BY DEF Forms
    <2>2. x["utf8"] \in Seq(Nat) /\ \A i \in 1 .. Len(x["utf8"]) : x["utf8"][i] # 0
      BY <2>1, PieceUnits
    <2> QED
      BY <2>2
  <1>2. /\ \A i \in 1 .. Len(x.utf8) : x.utf8[i] <= 255
        /\ \A i \in 1 .. Len(x.utf8) : x.utf8[i] = 63 => x.utf8 = << 63 >>
    BY CharacterBytes, StrayBytes DEF Pieces
  <1> DEFINE u == x.utf8
  <1>3. u = [i \in 1 .. Len(u) |-> u[i]] /\ Len(u) \in Nat
    BY <1>1, LenProperties
  <1>4. \A i \in 1 .. Len(u) : u[i] \in Nat
    BY <1>1, ElementOfSeq
  <1>5. \A i \in 1 .. Len(u) : u[i] \in Bytes
    BY <1>1, <1>2, <1>4 DEF Bytes
  <1>6. u # << 63 >> => \A i \in 1 .. Len(u) : u[i] \in NoQuery
    BY <1>2, <1>4 DEF NoQuery
  <1> HIDE DEF u
  <1>7. u \in Seq(Bytes)
    BY <1>3, <1>5
  <1>8. u # << 63 >> => u \in Seq(NoQuery)
    <2>1. u # << 63 >> => \A i \in 1 .. Len(u) : u[i] \in NoQuery
      BY <1>6
    <2>2. u # << 63 >> => u \in Seq(NoQuery)
      BY <1>3, <2>1
    <2> QED
      BY <2>2
  <1> QED
    BY <1>7, <1>8 DEF u

\* Where the address proper ends.
LEMMA QueryOfPieces ==
  ASSUME NEW ps \in Seq(Pieces)
  PROVE  LET n == Min({i \in DOMAIN ps : ps[i].utf8 = << 63 >>} \cup {Len(ps) + 1}) - 1 IN
         /\ n \in 0 .. Len(ps)
         /\ BeforeQuery(Spelled(ps, "utf8")) = Spelled(SubSeq(ps, 1, n), "utf8")
  <1> DEFINE Q == {i \in DOMAIN ps : ps[i].utf8 = << 63 >>} \cup {Len(ps) + 1}
             f == "utf8"
             s == Spelled(ps, f)
  <1>1. DOMAIN ps = 1 .. Len(ps) /\ Len(ps) \in Nat /\ f \in Forms
    BY LenProperties DEF Forms
  <1>2. PICK m \in Q : \A i \in Q : m <= i
    <2>1. Q \in SUBSET Nat /\ Q # {}
      BY <1>1
    <2> HIDE DEF Q
    <2> QED
      BY <2>1, Least
  <1>3. /\ m \in 1 .. Len(ps) + 1
        /\ m <= Len(ps) => ps[m].utf8 = << 63 >>
        /\ \A i \in 1 .. Len(ps) : i < m => ps[i].utf8 # << 63 >>
    <2>1. m \in 1 .. Len(ps) + 1 /\ (m <= Len(ps) => ps[m].utf8 = << 63 >>)
      BY <1>1
    <2>2. ASSUME NEW i \in 1 .. Len(ps), i < m PROVE ps[i].utf8 # << 63 >>
      <3>1. ~(m <= i)
        BY <2>1, <2>2
      <3>2. i \notin Q
        BY <1>2, <3>1
      <3> QED
        BY <1>1, <3>2
    <2> HIDE DEF Q
    <2> QED
      BY <2>1, <2>2
  <1>4. Min(Q) = m
    <2>1. Q \in SUBSET Int
      BY <1>1
    <2> HIDE DEF Q
    <2> QED
      BY <1>2, <2>1, LeastIsMin
  <1>5. PICK n \in 0 .. Len(ps) : n = m - 1
    BY <1>1, <1>3
  <1> DEFINE qs == SubSeq(ps, 1, n)   out == Spelled(qs, f)
  <1>6. qs \in Seq(Pieces) /\ Len(qs) = n /\ \A i \in 1 .. n : qs[i] = ps[i] /\ ps[i] \in Pieces
    BY FirstPieces
  <1>7. out = Before(ps, n, f)
    BY DEF Before
  <1>8. out \in Seq(NoQuery)
    <2>1. ASSUME NEW i \in 1 .. n PROVE qs[i][f] \in Seq(NoQuery)
      <3>1. i \in 1 .. Len(ps) /\ i < m
        BY <1>1, <1>3, <1>5
      <3>2. ps[i].utf8 # << 63 >>
        BY <1>3, <3>1
      <3>3. ps[i].utf8 \in Seq(NoQuery)
        BY <1>6, <3>2, PieceBytes
      <3> HIDE DEF qs
      <3> QED
        BY <1>6, <3>3
    <2>2. \A i \in 1 .. n : qs[i][f] \in Seq(NoQuery)
      BY <2>1
    <2> HIDE DEF qs, f
    <2>3. Spelled(qs, f) \in Seq(NoQuery)
      BY <1>1, <1>6, <2>2, UnitsOfPieces
    <2> QED
      BY <2>3
  <1>9. /\ s \in Seq(Nat) /\ Len(out) \in Nat /\ Len(s) \in Nat /\ Len(out) <= Len(s)
        /\ \A i \in 1 .. Len(out) : s[i] = out[i]
    <2>1. Len(ps) \in n .. Len(ps)
      BY <1>1
    <2>2. /\ Before(ps, Len(ps), f) = s /\ s \in Seq(Nat)
      BY <1>1, BeforeSteps
    <2> HIDE DEF s, out, f
    <2>3. /\ Len(out) \in Nat /\ Len(out) <= Len(s) /\ \A i \in 1 .. Len(out) : s[i] = out[i]
      BY <1>1, <1>7, <2>1, <2>2, BeforePrefix
    <2> QED
      BY <2>2, <2>3, LenProperties
  <1>10. Holds(s, Len(s), out)
    <2> HIDE DEF s, out
    <2> QED
      BY <1>9, LenProperties DEF Holds
  <1>11. ASSUME Len(out) < Len(s) PROVE s[Len(out) + 1] = 63
    <2>1. CASE n = Len(ps)
      <3>1. out = s
        BY <1>1, <1>7, <2>1, BeforeSteps
      <3> HIDE DEF s, out
      <3> QED
        BY <1>9, <1>11, <3>1
    <2>2. CASE n # Len(ps)
      <3>1. PICK j \in 1 .. Len(ps) : j = n + 1 /\ j = m
        BY <1>1, <1>3, <1>5, <2>2
      <3>2. j - 1 = n /\ ps[j].utf8 = << 63 >> /\ ps[j][f] = ps[j].utf8
        BY <1>3, <3>1
      <3>3. Stands(<< 63 >>, s, Place(ps, n, f))
        <4>1. Stands(ps[j][f], Spelled(ps, f), Place(ps, j - 1, f))
          BY <1>1, Places
        <4> QED
          BY <3>2, <4>1
      <3>4. Place(ps, n, f) = Len(out) + 1
        BY <1>7 DEF Place
      <3> HIDE DEF s, out
      <3>5. PICK a \in Nat : a = Len(out)
        BY <1>9
      <3>6. Len(<< 63 >>) = 1 /\ << 63 >>[1] = 63
        OBVIOUS
      <3>7. s[a + 1 + 1 - 1] = 63
        <4>1. 1 \in 1 .. Len(<< 63 >>)
          BY <3>6
        <4> QED
          BY <3>3, <3>4, <3>5, <3>6, <4>1 DEF Stands
      <3>8. a + 1 + 1 - 1 = a + 1
        OBVIOUS
      <3> QED
        BY <3>5, <3>7, <3>8
    <2> QED
      BY <2>1, <2>2
  <1>12. BeforeQuery(s) = out
    <2> HIDE DEF s, out
    <2> QED
      BY <1>8, <1>9, <1>10, <1>11, BeforeQueryHolds
  <1> HIDE DEF Q
  <1> QED
    BY <1>4, <1>5, <1>12 DEF Q

\* What an address is spelled with when its characters are escaped.
LEMMA Digits ==
  ASSUME NEW d \in 0 .. 15, NEW letters \in {65, 97}
  PROVE  /\ hexdigit(Digit(d, letters)) = d
         /\ Digit(d, letters) \in NoQuery
  <1>1. CASE d < 10
    <2>1. Digit(d, letters) = 48 + d
      BY <1>1 DEF Digit
    <2>2. hexdigit(48 + d) = d
      <3>1. 48 <= 48 + d /\ 48 + d <= 57 /\ 48 + d - 48 = d
        BY <1>1
      <3> QED
        BY <1>1, <3>1, SMT DEF hexdigit
    <2> QED
      BY <1>1, <2>1, <2>2, SMT DEF NoQuery
  <1>2. CASE ~(d < 10)
    <2>1. Digit(d, letters) = letters + d - 10
      BY <1>2 DEF Digit
    <2>2. CASE letters = 65
      <3>1. PICK w \in Nat : w = d + 55
        OBVIOUS
      <3>2. Digit(d, letters) = w
        BY <2>1, <2>2, <3>1, SMT
      <3>3. 65 <= w /\ w <= 70 /\ w # 63
        BY <1>2, <3>1, SMT
      <3>4. hexdigit(w) = w - 55
        BY <3>3, SMT DEF hexdigit
      <3> QED
        BY <3>1, <3>2, <3>3, <3>4, SMT DEF NoQuery
    <2>3. CASE letters = 97
      <3>1. PICK w \in Nat : w = d + 87
        OBVIOUS
      <3>2. Digit(d, letters) = w
        BY <2>1, <2>3, <3>1, SMT
      <3>3. 97 <= w /\ w <= 102 /\ w # 63
        BY <1>2, <3>1, SMT
      <3>4. hexdigit(w) = w - 87
        BY <3>3, SMT DEF hexdigit
      <3> QED
        BY <3>1, <3>2, <3>3, <3>4, SMT DEF NoQuery
    <2> QED
      BY <2>2, <2>3
  <1> QED
    BY <1>1, <1>2

LEMMA OneEscape ==
  ASSUME NEW u \in Bytes, NEW letters \in {65, 97}
  PROVE  LET e == Escape(u, letters) IN
         /\ e \in Seq(NoQuery) /\ Len(e) = 3
         /\ e[1] = 37 /\ hexdigit(e[2]) # -1 /\ hexdigit(e[3]) # -1
         /\ hexdigit(e[2]) * 16 + hexdigit(e[3]) = u
  <1>1. u \in Nat /\ u <= 255
    BY DEF Bytes
  <1>2. PICK a \in 0 .. 15 : a = u \div 16
    BY <1>1, SMT
  <1>3. PICK b \in 0 .. 15 : b = u % 16
    BY <1>1, SMT
  <1>4. a * 16 + b = u
    BY <1>1, <1>2, <1>3, SMT
  <1>5. /\ hexdigit(Digit(a, letters)) = a /\ hexdigit(Digit(b, letters)) = b
        /\ Digit(a, letters) \in NoQuery /\ Digit(b, letters) \in NoQuery
    BY Digits
  <1> DEFINE x == Digit(a, letters)   y == Digit(b, letters)
  <1>6. Escape(u, letters) = << 37, x, y >>
    BY <1>2, <1>3 DEF Escape
  <1>7. 37 \in NoQuery /\ x \in NoQuery /\ y \in NoQuery
    <2>1. 37 \in NoQuery
      BY SMT DEF NoQuery
    <2> QED
      BY <1>5, <2>1
  <1>8. a # -1 /\ b # -1
    OBVIOUS
  <1> HIDE DEF x, y
  <1>9. << 37, x, y >> \in Seq(NoQuery) /\ Len(<< 37, x, y >>) = 3
        /\ << 37, x, y >>[1] = 37 /\ << 37, x, y >>[2] = x /\ << 37, x, y >>[3] = y
    BY <1>7
  <1> QED
    BY <1>4, <1>5, <1>6, <1>8, <1>9 DEF x, y

\* The sequences that are put together step by step.
Flattening(f, ss) ==
  /\ f[0] = << >> /\ f[Len(ss)] = FlattenSeq(ss)
  /\ \A i \in 1 .. Len(ss) : f[i] = f[i - 1] \o ss[i]

LEMMA Flat ==
  ASSUME NEW S, NEW ss \in Seq(Seq(S)), S \subseteq Nat
  PROVE  \E f \in [0 .. Len(ss) -> Seq(S)] : Flattening(f, ss)
  <1> DEFINE n == Len(ss)
             g == [i \in 1 .. n |-> [s \in Seq(S) |-> s \o ss[i]]]
  <1>1. n \in Nat /\ (\A i \in 1 .. n : ss[i] \in Seq(S)) /\ << >> \in Seq(S)
    BY LenProperties, ElementOfSeq, EmptySeq
  <1>2. g \in [1 .. n -> [Seq(S) -> Seq(S)]]
    <2> SUFFICES ASSUME NEW i \in 1 .. n, NEW s \in Seq(S) PROVE s \o ss[i] \in Seq(S)
      OBVIOUS
    <2> QED
      BY <1>1, ConcatProperties
  <1>3. PICK f \in [0 .. n -> Seq(S)] : Stepwise(f, n, << >>, g)
    <2> HIDE DEF n, g
    <2> QED
      BY <1>1, <1>2, Recursion
  <1>4. ASSUME NEW i \in 1 .. n PROVE f[i] = f[i - 1] \o ss[i]
    <2>1. i - 1 \in 0 .. n
      BY <1>1
    <2>2. f[i - 1] \in Seq(S) /\ f[i] = g[i][f[i - 1]]
      BY <1>3, <2>1 DEF Stepwise
    <2> QED
      BY <2>2
  <1>5. f[0] = << >>
    BY <1>3 DEF Stepwise
  <1>6. FlattenSeq(ss) = f[n]
    <2>1. Seq(S) \subseteq Seq(Nat)
      BY SeqMonotonic
    <2>2. f \in [0 .. n -> Seq(Nat)] /\ ss \in Seq(Seq(Nat))
      BY <2>1, SeqMonotonic
    <2> HIDE DEF n
    <2> QED
      BY <1>1, <1>4, <1>5, <2>2, Flattens DEF n
  <1> QED
    BY <1>4, <1>5, <1>6 DEF Flattening

\* Three characters for each unit.
EscapesStand(e, units, letters) ==
  \A j \in 1 .. Len(units) : \A i \in 1 .. 3 :
    e[3 * (j - 1) + i] = Escape(units[j], letters)[i]

LEMMA Escapes ==
  ASSUME NEW units \in Seq(Bytes), NEW letters \in {65, 97}
  PROVE  LET e == Escaped(units, letters) IN
         /\ e \in Seq(NoQuery) /\ Len(e) = 3 * Len(units)
         /\ EscapesStand(e, units, letters)
  <1> DEFINE n == Len(units)
             ss == [i \in DOMAIN units |-> Escape(units[i], letters)]
  <1>1. n \in Nat /\ DOMAIN units = 1 .. n /\ \A i \in 1 .. n : units[i] \in Bytes
    BY LenProperties, ElementOfSeq
  <1>2. \A i \in 1 .. n : Escape(units[i], letters) \in Seq(NoQuery) /\ Len(Escape(units[i], letters)) = 3
    <2> SUFFICES ASSUME NEW i \in 1 .. n
                 PROVE  Escape(units[i], letters) \in Seq(NoQuery) /\ Len(Escape(units[i], letters)) = 3
      OBVIOUS
    <2>1. PICK w \in Bytes : w = units[i]
      BY <1>1
    <2>2. Escape(w, letters) \in Seq(NoQuery) /\ Len(Escape(w, letters)) = 3
      BY OneEscape
    <2> QED
      BY <2>1, <2>2
  <1>3. Escaped(units, letters) = FlattenSeq(ss)
    BY DEF Escaped
  <1>4. NoQuery \subseteq Nat
    BY DEF NoQuery
  <1> HIDE DEF n
  <1>5. ss = [i \in 1 .. n |-> Escape(units[i], letters)]
    BY <1>1
  <1> HIDE DEF ss
  <1>6. ss \in Seq(Seq(NoQuery)) /\ Len(ss) = n /\ \A i \in 1 .. n : ss[i] = Escape(units[i], letters)
    BY <1>1, <1>2, <1>5
  <1>7. PICK f \in [0 .. n -> Seq(NoQuery)] :
           /\ f[0] = << >> /\ f[n] = FlattenSeq(ss)
           /\ \A i \in 1 .. n : f[i] = f[i - 1] \o ss[i]
    <2>1. \E f \in [0 .. n -> Seq(NoQuery)] : Flattening(f, ss)
      BY <1>4, <1>6, Flat
    <2> QED
      BY <1>6, <2>1 DEF Flattening
  <1> DEFINE T == {k \in 0 .. n :
                     /\ Len(f[k]) = 3 * k
                     /\ \A j \in 1 .. k : \A i \in 1 .. 3 : f[k][3 * (j - 1) + i] = ss[j][i]}
  <1>8. 0 \in T
    <2>1. Len(f[0]) = 0
      BY <1>7, EmptySeq
    <2> QED
      BY <1>1, <2>1
  <1>9. ASSUME NEW k \in 1 .. n, k - 1 \in T PROVE k \in T
    <2>1. k \in 0 .. n /\ k - 1 \in 0 .. n
      BY <1>1
    <2>2. f[k - 1] \in Seq(NoQuery) /\ ss[k] \in Seq(NoQuery) /\ Len(ss[k]) = 3 /\ f[k] = f[k - 1] \o ss[k]
      <3>1. f[k - 1] \in Seq(NoQuery) /\ f[k] = f[k - 1] \o ss[k]
        BY <1>7, <2>1
      <3> QED
        BY <1>2, <1>6, <3>1
    <2>3. /\ Len(f[k - 1]) = 3 * (k - 1)
          /\ \A j \in 1 .. k - 1 : \A i \in 1 .. 3 : f[k - 1][3 * (j - 1) + i] = ss[j][i]
      BY <1>9
    <2> DEFINE a == f[k - 1]   b == ss[k]
    <2> HIDE DEF a, b, T
    <2>4. /\ Len(a \o b) = Len(a) + Len(b)
          /\ \A i \in 1 .. Len(a) + Len(b) :
               (a \o b)[i] = IF i <= Len(a) THEN a[i] ELSE b[i - Len(a)]
      <3>1. a \in Seq(NoQuery) /\ b \in Seq(NoQuery)
        BY <2>2 DEF a, b
      <3> QED
        BY <3>1, ConcatProperties
    <2>5. Len(a) = 3 * (k - 1) /\ Len(b) = 3 /\ f[k] = a \o b
      BY <2>2, <2>3 DEF a, b
    <2>6. Len(f[k]) = 3 * k
      BY <2>4, <2>5
    <2>7. ASSUME NEW j \in 1 .. k, NEW i \in 1 .. 3 PROVE f[k][3 * (j - 1) + i] = ss[j][i]
      <3>1. CASE j = k
        <4>1. PICK p \in Nat : p = 3 * (j - 1) + i
          OBVIOUS
        <4>2. p \in 1 .. 3 * (k - 1) + 3 /\ ~(p <= 3 * (k - 1)) /\ p - 3 * (k - 1) = i
          BY <3>1, <4>1
        <4>3. (a \o b)[p] = b[i]
          BY <2>4, <2>5, <4>2
        <4> QED
          BY <2>5, <3>1, <4>1, <4>3 DEF b
      <3>2. CASE j # k
        <4>1. PICK p \in Nat : p = 3 * (j - 1) + i
          OBVIOUS
        <4>2. j \in 1 .. k - 1 /\ p \in 1 .. 3 * (k - 1) + 3 /\ p <= 3 * (k - 1)
          BY <3>2, <4>1
        <4>3. (a \o b)[p] = a[p]
          BY <2>4, <2>5, <4>2
        <4> QED
          BY <2>3, <2>5, <4>1, <4>2, <4>3 DEF a
      <3> QED
        BY <3>1, <3>2
    <2> QED
      BY <2>1, <2>6, <2>7 DEF T
  <1> HIDE DEF T
  <1>10. \A k \in 0 .. n : k \in T
    BY <1>1, <1>8, <1>9, Induction
  <1>11. n \in T /\ n \in 0 .. n
    BY <1>1, <1>10
  <1>12. /\ Len(f[n]) = 3 * n /\ f[n] \in Seq(NoQuery)
         /\ \A j \in 1 .. n : \A i \in 1 .. 3 : f[n][3 * (j - 1) + i] = ss[j][i]
    BY <1>7, <1>11 DEF T
  <1>13. Escaped(units, letters) = f[n]
    BY <1>3, <1>7
  <1>14. \A j \in 1 .. n : \A i \in 1 .. 3 : f[n][3 * (j - 1) + i] = Escape(units[j], letters)[i]
    <2> SUFFICES ASSUME NEW j \in 1 .. n
                 PROVE  \A i \in 1 .. 3 : f[n][3 * (j - 1) + i] = Escape(units[j], letters)[i]
      OBVIOUS
    <2>1. ss[j] = Escape(units[j], letters)
      BY <1>6
    <2>2. \A i \in 1 .. 3 : f[n][3 * (j - 1) + i] = ss[j][i]
      BY <1>12
    <2> QED
      BY <2>1, <2>2
  <1>15. EscapesStand(Escaped(units, letters), units, letters)
    BY <1>13, <1>14 DEF n, EscapesStand
  <1> QED
    BY <1>12, <1>13, <1>15 DEF n

-----------------------------------------------------------------------------
(***************************************************************************)
(* The invariant: what is read is spelled with the pieces it came from,    *)
(* the iterator is between two of them or behind the first unit of one,    *)
(* and what is written are the characters that are before it.              *)
(***************************************************************************)
Source ==
  CASE stage = "class_info_2" \/ (stage = "value_for_string" /\ ~typed) -> Wide
    [] stage = "class_info" -> Fitting(Wide, "utf8", room)
    [] stage = "factory_info" -> Addressed
    [] \/ stage \in {"class_info_utf16", "string_for_value", "measure", "fill", "url", "decode",
                     "told", "mailed", "valued", "named"}
       \/ stage = "value_for_string" /\ typed -> pieces

\* What is written of the characters among the first k pieces.
Said(k) == Spelled(HeardIn(Source)[k], Into)

\* A text of the plugin was in an array like the one a text is given back in.
Plain == Spelled(pieces, "utf8")
Shown ==
  /\ stage = "string_for_value" => ~typed
  /\ stage \in {"string_for_value", "value_for_string"} /\ ~typed => Len(Plain) < Display

InputsOK ==
  /\ room \in Nat \ {0} /\ mail \in BOOLEAN /\ spelling \in {"literal", "upper", "lower"}
  /\ pieces \in Seq(Pieces)
  /\ stage \in Copies \cup
               {"measure", "fill", "url", "decode", "told", "mailed", "valued", "named"}
  /\ stage \in {"url", "decode"} => Good(pieces, "utf8")
  /\ stage \in {"decode", "factory_info"} => mail
  /\ Shown

ReadsSource ==
  stage \in Copies \cup {"measure", "fill"} =>
    Good(Source, From) /\ text = Spelled(Source, From)

Copied(k) ==
  /\ At(Source, From, k, pos)
  /\ Holds(buf, Room, Said(k)) /\ at = Len(Said(k)) + 1 /\ at <= Room
Copying == stage \in Copies => \E k \in 0 .. Len(Source) : Copied(k)

Measured(k) == At(Source, From, k, pos) /\ size = Len(Said(k)) /\ at = 1
Measuring == stage = "measure" => \E k \in 0 .. Len(Source) : Measured(k)

Filled(k) ==
  /\ At(Source, From, k, pos)
  /\ Holds(buf, size, Said(k)) /\ at = Len(Said(k)) + 1
Filling ==
  stage = "fill" =>
    /\ size = Len(Spelled(Heard(pieces), "utf8"))
    /\ buf = [i \in 1 .. size |-> buf[i]]
    /\ \E k \in 0 .. Len(Source) : Filled(k)

Letters == IF spelling = "upper" THEN 65 ELSE 97
Waiting ==
  stage = "url" =>
    /\ text = Address /\ buf = << >> /\ pos = 1
    /\ spelling = "literal" => \A p \in DOMAIN text : ~IsEscape(text, p)

Unescaped(j) == pos = 3 * j + 1 /\ buf = SubSeq(Plain, 1, j)
Decoding ==
  /\ stage = "decode" /\ spelling = "literal" =>
       /\ text = Spelled(Addressed, "utf8") /\ \A p \in DOMAIN text : ~IsEscape(text, p)
       /\ pos \in 1 .. Len(text) + 1 /\ buf = SubSeq(text, 1, pos - 1)
  /\ stage = "decode" /\ spelling # "literal" =>
       /\ text = Escaped(Plain, Letters)
       /\ \E j \in 0 .. Len(Plain) : Unescaped(j)

Arrived == IF typed THEN Fitting(Heard(pieces), "utf8", Display) ELSE Wide
Answered == stage = "valued" => UpToNul(buf) = Spelled(Arrived, "utf8")

Results ==
  /\ stage = "told" => UpToNul(buf) = Narrow
  /\ AddressTrue /\ HostNameTrue /\ Answered

IInv ==
  /\ InputsOK /\ ReadsSource /\ Copying /\ Measuring /\ Filling
  /\ Waiting /\ Decoding /\ Results

-----------------------------------------------------------------------------
LEMMA Forms8and16 == "utf8" \in Forms /\ "utf16" \in Forms /\ From \in Forms /\ Into \in Forms
  BY DEF Forms, From, Into

LEMMA Nothing ==
  ASSUME NEW form \in Forms
  PROVE  Spelled(<< >>, form) = << >> /\ Len(Spelled(<< >>, form)) = 0 /\ Len(<< >>) = 0
  <1>1. << >> \in Seq(Pieces) /\ Len(<< >>) = 0
    BY EmptySeq
  <1>2. Before(<< >>, 0, form) = << >> /\ Before(<< >>, Len(<< >>), form) = Spelled(<< >>, form)
    BY <1>1, BeforeSteps
  <1> QED
    BY <1>1, <1>2

LEMMA SpelledCharacters ==
  ASSUME NEW form \in Forms, NEW cs \in Seq(Characters)
  PROVE  /\ Spelled(cs, form) \in Seq(Nat \ {0}) /\ Spelled(cs, form) \in Seq(Nat)
         /\ Len(Spelled(cs, form)) \in Nat
  <1>1. cs \in Seq(Pieces) /\ \A i \in 1 .. Len(cs) : cs[i] \in Pieces
    BY SeqMonotonic, ElementOfSeq DEF Pieces
  <1>2. ASSUME NEW i \in 1 .. Len(cs) PROVE cs[i][form] \in Seq(Nat \ {0})
    <2> DEFINE u == cs[i][form]
    <2>1. u \in Seq(Nat) /\ \A j \in 1 .. Len(u) : u[j] # 0
      BY <1>1, PieceUnits
    <2> HIDE DEF u
    <2>2. u = [j \in 1 .. Len(u) |-> u[j]] /\ Len(u) \in Nat /\ \A j \in 1 .. Len(u) : u[j] \in Nat \ {0}
      BY <2>1, LenProperties, ElementOfSeq
    <2>3. u \in Seq(Nat \ {0})
      BY <2>2
    <2> QED
      BY <2>3 DEF u
  <1>3. Spelled(cs, form) \in Seq(Nat \ {0})
    BY <1>1, <1>2, UnitsOfPieces
  <1> QED
    BY <1>1, <1>3, BeforeSteps, LenProperties

LEMMA GoodCharacters ==
  ASSUME NEW form \in Forms, NEW cs \in Seq(Characters)
  PROVE  Good(cs, form)
  <1>1. cs \in Seq(Pieces)
    BY SeqMonotonic DEF Pieces
  <1>2. ASSUME NEW i \in 1 .. Len(cs) - 1 PROVE ~IsCut(cs[i])
    <2>1. i \in 1 .. Len(cs)
      BY LenProperties
    <2> QED
      BY <2>1, ElementOfSeq, StraysAssumption DEF IsCut, IsStray
  <1> QED
    BY <1>1, <1>2 DEF Good

LEMMA GoodFirst ==
  ASSUME NEW form \in Forms, NEW ps, Good(ps, form), NEW n \in 0 .. Len(ps)
  PROVE  Good(SubSeq(ps, 1, n), form)
  <1>1. ps \in Seq(Pieces) /\ Len(ps) \in Nat
    BY LenProperties DEF Good
  <1>2. /\ SubSeq(ps, 1, n) \in Seq(Pieces) /\ Len(SubSeq(ps, 1, n)) = n
        /\ \A i \in 1 .. n : SubSeq(ps, 1, n)[i] = ps[i]
    BY <1>1, FirstPieces
  <1> DEFINE qs == SubSeq(ps, 1, n)
  <1> HIDE DEF qs
  <1>3. ASSUME NEW i \in 1 .. Len(qs) - 1, IsCut(qs[i]) PROVE ~Follows(qs[i + 1], form)
    <2>1. i \in 1 .. n /\ i + 1 \in 1 .. n /\ i \in 1 .. Len(ps) - 1
      BY <1>1, <1>2 DEF qs
    <2>2. qs[i] = ps[i] /\ qs[i + 1] = ps[i + 1]
      BY <1>2, <2>1 DEF qs
    <2> QED
      BY <1>3, <2>1, <2>2 DEF Good
  <1> QED
    BY <1>2, <1>3 DEF qs, Good

\* The pieces of what is read, and the characters before the iterator.
LEMMA SaidIsUnits ==
  ASSUME NEW form \in Forms, NEW into \in Forms, NEW ps \in Seq(Pieces), NEW k, NEW p,
         At(ps, form, k, p)
  PROVE  /\ HeardIn(ps)[k] \in Seq(Characters)
         /\ Spelled(HeardIn(ps)[k], into) \in Seq(Nat \ {0})
         /\ Spelled(HeardIn(ps)[k], into) \in Seq(Nat)
         /\ Len(Spelled(HeardIn(ps)[k], into)) \in Nat
         /\ k \in Nat
  <1>1. k \in 0 .. Len(ps)
    BY DEF At
  <1>2. HeardIn(ps)[k] \in Seq(Characters)
    BY <1>1, HeardSteps
  <1>3. k \in Nat
    BY <1>1, LenProperties
  <1> QED
    BY <1>2, <1>3, SpelledCharacters

LEMMA AddressedGood ==
  ASSUME Good(pieces, "utf8")
  PROVE  Good(Addressed, "utf8")
  <1>1. pieces \in Seq(Pieces) /\ "utf8" \in Forms
    BY Forms8and16 DEF Good
  <1> DEFINE n == Min({i \in DOMAIN pieces : pieces[i].utf8 = << 63 >>} \cup {Len(pieces) + 1}) - 1
  <1>2. n \in 0 .. Len(pieces)
    BY <1>1, QueryOfPieces
  <1>3. Addressed = IF spelling = "literal" THEN SubSeq(pieces, 1, n) ELSE pieces
    BY DEF Addressed
  <1> HIDE DEF n
  <1>4. Good(SubSeq(pieces, 1, n), "utf8")
    BY <1>1, <1>2, GoodFirst
  <1> QED
    BY <1>3, <1>4

\* Nothing but the iterators and the array changes.
LEMMA Frame ==
  ASSUME UNCHANGED <<inputs, stage>>
  PROVE  /\ Source' = Source /\ From' = From /\ Into' = Into /\ Wide' = Wide
         /\ Narrow' = Narrow /\ Addressed' = Addressed /\ Plain' = Plain /\ Letters' = Letters
         /\ pieces' = pieces /\ room' = room /\ stage' = stage /\ mail' = mail /\ spelling' = spelling
         /\ typed' = typed /\ Room' = Room /\ Display' = Display /\ Arrived' = Arrived
         /\ Shown' = Shown
  BY DEF inputs, Source, From, Into, Wide, Narrow, Addressed, Plain, Letters, Fitting, Room, Display,
         Arrived, Shown

LEMMA RoomIs ==
  ASSUME room \in Nat \ {0}
  PROVE  Room \in Nat \ {0} /\ Display \in Nat \ {0}
  BY DEF Room, Display

LEMMA Numbers ==
  /\ illegal # incomplete /\ ~(illegal >= 0) /\ ~(incomplete >= 0)
  /\ \A n \in Nat : n >= 0 /\ n # illegal /\ n # incomplete
  BY SMT DEF illegal, incomplete

\* What is read in a state, of the pieces of the invariant.
LEMMA ReadNow ==
  ASSUME IInv, stage \in Copies \cup {"measure", "fill"},
         NEW k, At(Source, From, k, pos)
  PROVE  /\ Ended(Source, k, Decoded) \/ Dropped(Source, From, k, Decoded)
            \/ Heeded(Source, From, k, Decoded)
         /\ Good(Source, From) /\ Source \in Seq(Pieces) /\ text = Spelled(Source, From)
         /\ Decoded = decode(From, Spelled(Source, From), pos)
         /\ From \in Forms /\ Into \in Forms
         /\ HeardIn(Source)[k] \in Seq(Characters) /\ Said(k) \in Seq(Nat \ {0})
         /\ Said(k) \in Seq(Nat) /\ Len(Said(k)) \in Nat /\ k \in 0 .. Len(Source)
  <1>1. Good(Source, From) /\ text = Spelled(Source, From) /\ From \in Forms /\ Into \in Forms
    BY Forms8and16 DEF IInv, ReadsSource
  <1>2. Decoded = decode(From, Spelled(Source, From), pos)
    BY <1>1 DEF Decoded
  <1>3. Ended(Source, k, Decoded) \/ Dropped(Source, From, k, Decoded) \/ Heeded(Source, From, k, Decoded)
    BY <1>1, <1>2, ReadStep
  <1>4. Source \in Seq(Pieces) /\ k \in 0 .. Len(Source)
    BY <1>1 DEF Good, At
  <1>5. /\ HeardIn(Source)[k] \in Seq(Characters) /\ Said(k) \in Seq(Nat \ {0})
        /\ Said(k) \in Seq(Nat) /\ Len(Said(k)) \in Nat
    BY <1>1, <1>4, SaidIsUnits DEF Said
  <1> QED
    BY <1>1, <1>2, <1>3, <1>4, <1>5

\* A character that is heeded is written with its units.
LEMMA HeededUnits ==
  ASSUME IInv, stage \in Copies \cup {"measure", "fill"},
         NEW k, At(Source, From, k, pos), Decoded.cp >= 0
  PROVE  /\ At(Source, From, k + 1, Decoded.next)
         /\ encode(Into, Decoded.cp) \in Seq(Nat)
         /\ Len(encode(Into, Decoded.cp)) = width(Into, Decoded.cp)
         /\ Said(k + 1) = Said(k) \o encode(Into, Decoded.cp)
         /\ Len(Said(k + 1)) = Len(Said(k)) + width(Into, Decoded.cp)
         /\ width(Into, Decoded.cp) \in Nat /\ k + 1 \in 0 .. Len(Source)
  <1>1. Heeded(Source, From, k, Decoded)
    BY ReadNow, Numbers DEF Ended, Dropped
  <1>2. PICK c \in Characters :
          /\ Decoded.cp = c.code
          /\ At(Source, From, k + 1, Decoded.next)
          /\ HeardIn(Source)[k + 1] = Append(HeardIn(Source)[k], c)
    BY <1>1 DEF Heeded
  <1>3. Into \in Forms /\ HeardIn(Source)[k] \in Seq(Characters)
    BY ReadNow
  <1>4. /\ c[Into] = encode(Into, Decoded.cp) /\ Len(c[Into]) = width(Into, Decoded.cp)
        /\ c[Into] \in Seq(Nat)
    BY <1>2, <1>3, CharacterUnits
  <1>5. Said(k + 1) = Said(k) \o c[Into] /\ Len(Said(k + 1)) = Len(Said(k)) + Len(c[Into])
    BY <1>2, <1>3, SpelledAppend DEF Said
  <1>6. width(Into, Decoded.cp) \in Nat
    BY <1>4, LenProperties
  <1>7. k + 1 \in 0 .. Len(Source)
    BY <1>2 DEF At
  <1> QED
    BY <1>2, <1>4, <1>5, <1>6, <1>7

\* What is dropped changes nothing that is said.
LEMMA DroppedUnits ==
  ASSUME IInv, stage \in Copies \cup {"measure", "fill"},
         NEW k, At(Source, From, k, pos), Decoded.cp = illegal
  PROVE  \E m \in 0 .. Len(Source) : At(Source, From, m, Decoded.next) /\ Said(m) = Said(k)
  <1>1. Dropped(Source, From, k, Decoded)
    <2>1. ~Ended(Source, k, Decoded)
      BY Numbers DEF Ended
    <2>2. ~Heeded(Source, From, k, Decoded)
      <3> SUFFICES ASSUME NEW c \in Characters, Decoded.cp = c.code PROVE FALSE
        BY DEF Heeded
      <3>1. c.code \in Nat
        BY CharactersAssumption
      <3> QED
        BY <3>1, Numbers
    <2> QED
      BY <2>1, <2>2, ReadNow
  <1> QED
    BY <1>1 DEF Dropped, Said

LEMMA EndedUnits ==
  ASSUME IInv, stage \in Copies \cup {"measure", "fill"},
         NEW k, At(Source, From, k, pos), Decoded.cp = incomplete
  PROVE  HeardIn(Source)[k] = Heard(Source)
  <1>1. Ended(Source, k, Decoded)
    <2>1. ~Dropped(Source, From, k, Decoded)
      BY Numbers DEF Dropped
    <2>2. ~Heeded(Source, From, k, Decoded)
      <3> SUFFICES ASSUME NEW c \in Characters, Decoded.cp = c.code PROVE FALSE
        BY DEF Heeded
      <3>1. c.code \in Nat
        BY CharactersAssumption
      <3> QED
        BY <3>1, Numbers
    <2> QED
      BY <2>1, <2>2, ReadNow
  <1> QED
    BY <1>1 DEF Ended, Heard

LEMMA DecodedIs ==
  ASSUME IInv, stage \in Copies \cup {"measure", "fill"},
         NEW k, At(Source, From, k, pos)
  PROVE  Decoded.cp = incomplete \/ Decoded.cp = illegal \/ (Decoded.cp \in Nat /\ Decoded.cp >= 0)
  <1>1. ASSUME Heeded(Source, From, k, Decoded) PROVE Decoded.cp \in Nat /\ Decoded.cp >= 0
    <2>1. PICK c \in Characters : Decoded.cp = c.code
      BY <1>1 DEF Heeded
    <2>2. c.code \in Nat
      BY CharactersAssumption
    <2> QED
      BY <2>1, <2>2
  <1> QED
    BY <1>1, ReadNow DEF Ended, Dropped

-----------------------------------------------------------------------------
(***************************************************************************)
(* The steps.                                                              *)
(***************************************************************************)
LEMMA IllegalStep ==
  ASSUME IInv, UTF_copy_illegal
  PROVE  IInv'
  <1>1. /\ stage \in Copies /\ Decoded.cp = illegal /\ pos' = Decoded.next
        /\ UNCHANGED <<inputs, stage, text, buf, at, size>>
    BY DEF UTF_copy_illegal
  <1>2. /\ Source' = Source /\ From' = From /\ Into' = Into /\ stage' = stage /\ Room' = Room
        /\ text' = text /\ buf' = buf /\ at' = at /\ \A k : Said(k)' = Said(k)
    BY <1>1, Frame DEF Said
  <1>3. PICK k \in 0 .. Len(Source) : Copied(k)
    BY <1>1 DEF IInv, Copying
  <1>4. PICK m \in 0 .. Len(Source) : At(Source, From, m, Decoded.next) /\ Said(m) = Said(k)
    BY <1>1, <1>3, DroppedUnits DEF Copied
  <1>5. Copied(m)'
    BY <1>1, <1>2, <1>3, <1>4 DEF Copied
  <1>6. Copying'
    BY <1>2, <1>5 DEF Copying
  <1>7. ReadsSource' /\ InputsOK'
    BY <1>1, <1>2, Frame DEF IInv, ReadsSource, InputsOK
  <1>8. Measuring' /\ Filling' /\ Waiting' /\ Decoding' /\ Results'
    BY <1>1, <1>2 DEF Copies, Measuring, Filling, Waiting, Decoding, Results, AddressTrue, HostNameTrue, Answered
  <1> QED
    BY <1>6, <1>7, <1>8 DEF IInv

LEMMA CopyStep ==
  ASSUME IInv, UTF_copy
  PROVE  IInv'
  <1> DEFINE u == encode(Into, Decoded.cp)
  <1>1. /\ stage \in Copies /\ Decoded.cp >= 0 /\ Fits(Decoded.cp) /\ pos' = Decoded.next
        /\ buf' = Written(u) /\ at' = at + Len(u)
        /\ UNCHANGED <<inputs, stage, text, size>>
    BY DEF UTF_copy
  <1>2. /\ Source' = Source /\ From' = From /\ Into' = Into /\ stage' = stage /\ Room' = Room
        /\ text' = text /\ \A k : Said(k)' = Said(k)
    BY <1>1, Frame DEF Said
  <1>3. PICK k \in 0 .. Len(Source) : Copied(k)
    BY <1>1 DEF IInv, Copying
  <1>4. /\ At(Source, From, k + 1, Decoded.next) /\ u \in Seq(Nat)
        /\ Len(u) = width(Into, Decoded.cp)
        /\ Said(k + 1) = Said(k) \o u /\ Len(Said(k + 1)) = Len(Said(k)) + Len(u)
        /\ Len(u) \in Nat /\ k + 1 \in 0 .. Len(Source)
    BY <1>1, <1>3, HeededUnits DEF Copied
  <1>5. /\ Said(k) \in Seq(Nat) /\ Len(Said(k)) \in Nat /\ Room \in Nat
        /\ Holds(buf, Room, Said(k)) /\ at = Len(Said(k)) + 1
    BY <1>1, <1>3, ReadNow, RoomIs DEF Copied, IInv, InputsOK
  <1>6. Len(Said(k)) + Len(u) < Room
    <2>1. at + Len(u) - 1 <= Room - 1
      BY <1>1, <1>4 DEF Fits
    <2> HIDE DEF u
    <2>2. PICK a \in Nat : a = Len(Said(k))
      BY <1>5
    <2>3. PICK b \in Nat : b = Len(u)
      BY <1>4
    <2>4. a + 1 + b - 1 <= Room - 1
      BY <1>5, <2>1, <2>2, <2>3
    <2> QED
      BY <1>5, <2>2, <2>3, <2>4
  <1> HIDE DEF u
  <1>7. Holds(Written(u), Room, Said(k + 1))
    <2>1. Len(Said(k)) + Len(u) <= Room
      BY <1>4, <1>5, <1>6
    <2> QED
      BY <1>4, <1>5, <2>1, WrittenHolds
  <1>8. at' = Len(Said(k + 1)) + 1 /\ at' <= Room
    BY <1>1, <1>4, <1>5, <1>6
  <1>9. PICK m \in 0 .. Len(Source) : m = k + 1
    BY <1>4
  <1>10. Copied(m)'
    BY <1>1, <1>2, <1>4, <1>7, <1>8, <1>9 DEF Copied
  <1>11. Copying'
    BY <1>2, <1>10 DEF Copying
  <1>12. ReadsSource' /\ InputsOK'
    BY <1>1, <1>2, Frame DEF IInv, ReadsSource, InputsOK
  <1>13. Measuring' /\ Filling' /\ Waiting' /\ Decoding' /\ Results'
    BY <1>1, <1>2 DEF Copies, Measuring, Filling, Waiting, Decoding, Results, AddressTrue, HostNameTrue, Answered
  <1> QED
    BY <1>11, <1>12, <1>13 DEF IInv

\* What a copy leaves in the array.
LEMMA CopyResult ==
  ASSUME IInv, stage \in Copies, CopyEnds
  PROVE  UpToNul(Terminated) = Spelled(Fitting(Heard(Source), Into, Room), Into)
  <1>1. PICK k \in 0 .. Len(Source) : Copied(k)
    BY DEF IInv, Copying
  <1>2. /\ At(Source, From, k, pos) /\ Holds(buf, Room, Said(k)) /\ at = Len(Said(k)) + 1
        /\ at <= Room /\ Room \in Nat \ {0}
    BY <1>1, RoomIs DEF Copied, IInv, InputsOK
  <1>3. /\ Good(Source, From) /\ From \in Forms /\ Into \in Forms
        /\ Decoded = decode(From, Spelled(Source, From), pos)
        /\ Said(k) \in Seq(Nat \ {0}) /\ Said(k) \in Seq(Nat) /\ Len(Said(k)) \in Nat
    BY <1>2, ReadNow
  <1>4. Len(Said(k)) < Room
    BY <1>2, <1>3
  <1>5. ASSUME Decoded.cp # incomplete
        PROVE  Decoded.cp >= 0 /\ Len(Said(k)) + width(Into, Decoded.cp) >= Room
    <2>1. Decoded.cp >= 0 /\ ~Fits(Decoded.cp)
      BY <1>5 DEF CopyEnds
    <2>2. width(Into, Decoded.cp) \in Nat
      BY <1>2, <2>1, HeededUnits
    <2>3. ~(at + width(Into, Decoded.cp) - 1 <= Room - 1)
      BY <2>1 DEF Fits
    <2>4. PICK a \in Nat : a = Len(Said(k))
      BY <1>3
    <2>5. PICK b \in Nat : b = width(Into, Decoded.cp)
      BY <2>2
    <2>6. a + b >= Room
      BY <1>2, <2>3, <2>4, <2>5
    <2> QED
      BY <2>1, <2>4, <2>5, <2>6
  <1>6. HeardIn(Source)[k] = Fitting(Heard(Source), Into, Room)
    BY <1>2, <1>3, <1>4, <1>5, CopyEndsWithFitting DEF Said
  <1>7. << 0 >> \in Seq(Nat) /\ Len(<< 0 >>) = 1 /\ << 0 >>[1] = 0
    OBVIOUS
  <1>8. Holds(Terminated, Room, Said(k) \o << 0 >>)
    <2>1. Len(Said(k)) + Len(<< 0 >>) <= Room
      BY <1>2, <1>3, <1>4, <1>7
    <2> QED
      BY <1>2, <1>3, <1>7, <2>1, WrittenHolds DEF Terminated
  <1> DEFINE out == Said(k)
  <1>9. /\ Len(out \o << 0 >>) = Len(out) + 1
        /\ \A i \in 1 .. Len(out) : (out \o << 0 >>)[i] = out[i]
        /\ (out \o << 0 >>)[Len(out) + 1] = 0
    <2> HIDE DEF out
    <2>1. out \in Seq(Nat) /\ Len(out) \in Nat
      BY <1>3 DEF out
    <2> QED
      BY <1>7, <2>1, ConcatProperties
  <1>10. Holds(Terminated, Room, out) /\ Terminated[Len(out) + 1] = 0
    <2> HIDE DEF out
    <2>1. /\ DOMAIN Terminated = 1 .. Room /\ Len(Terminated) = Room
          /\ \A i \in 1 .. Len(out \o << 0 >>) : Terminated[i] = (out \o << 0 >>)[i]
      BY <1>8 DEF Holds, out
    <2>2. PICK n \in Nat : n = Len(out)
      BY <1>3 DEF out
    <2>3. \A i \in 1 .. n : i \in 1 .. n + 1
      OBVIOUS
    <2>4. n + 1 \in 1 .. n + 1
      OBVIOUS
    <2> QED
      BY <1>9, <2>1, <2>2, <2>3, <2>4 DEF Holds
  <1>11. UpToNul(Terminated) = out
    <2> HIDE DEF out
    <2>1. out \in Seq(Nat \ {0}) /\ Len(out) <= Room /\ Room \in Nat
      BY <1>2, <1>3, <1>4 DEF out
    <2> QED
      BY <1>10, <2>1, UpToNulHolds
  <1> QED
    BY <1>6, <1>11 DEF Said

\* A copy that begins.
LEMMA EnterCopying ==
  ASSUME NEW r \in Nat \ {0}, NEW ps \in Seq(Pieces), NEW form \in Forms, NEW into \in Forms,
         NEW left, NEW b, b = ArrayOf(r, left)
  PROVE  /\ At(ps, form, 0, 1) /\ 0 \in 0 .. Len(ps)
         /\ Holds(b, r, Spelled(HeardIn(ps)[0], into))
         /\ Len(Spelled(HeardIn(ps)[0], into)) = 0
         /\ 1 = 0 + 1 /\ 1 <= r
  <1>1. At(ps, form, 0, 1) /\ HeardIn(ps)[0] = << >> /\ Len(ps) \in Nat
    BY ReadFirst, LenProperties
  <1>2. Len(Spelled(HeardIn(ps)[0], into)) = 0
    BY <1>1, Nothing
  <1>3. Holds(b, r, Spelled(HeardIn(ps)[0], into))
    BY <1>2 DEF Holds, ArrayOf
  <1> QED
    BY <1>1, <1>2, <1>3

LEMMA EnteredStep ==
  ASSUME IInv, NEW s \in {"class_info_2", "class_info", "factory_info", "value_for_string"},
         NEW units, NEW left, NEW array, Enter(s, units, array),
         array = ArrayOf(IF s = "value_for_string" THEN Display ELSE room, left),
         s = "factory_info" => mail, s = "value_for_string" => Len(Plain) < Display,
         NEW ps, Source' = ps, Good(ps, From'), units = Spelled(ps, From')
  PROVE  IInv'
  <1>1. /\ stage' = s /\ text' = units /\ buf' = array /\ pos' = 1 /\ at' = 1
        /\ UNCHANGED <<inputs, size>>
    BY DEF Enter
  <1>2. /\ pieces' = pieces /\ spelling' = spelling /\ mail' = mail /\ room' = room
        /\ typed' = typed /\ room \in Nat \ {0} /\ stage' \in Copies
    BY <1>1 DEF inputs, IInv, InputsOK, Copies
  <1>3. From' \in Forms /\ Into' \in Forms
    BY DEF From, Into, Forms
  <1>4. Shown'
    <2>1. Len(Plain)' = Len(Plain) /\ Display' = Display
      BY <1>2 DEF Plain, Display
    <2> QED
      BY <1>1, <2>1 DEF Shown
  <1>5. InputsOK' /\ ReadsSource'
    BY <1>1, <1>2, <1>4 DEF IInv, InputsOK, ReadsSource
  <1>6. PICK into \in Forms : into = Into'
    BY <1>3
  <1>7. PICK form \in Forms : form = From'
    BY <1>3
  <1>8. PICK r \in Nat \ {0} : r = Room'
    BY <1>2, RoomIs DEF Room, Display
  <1>9. ps \in Seq(Pieces) /\ array = ArrayOf(r, left)
    BY <1>1, <1>2, <1>8 DEF Good, Room, Display
  <1>10. /\ At(ps, form, 0, 1) /\ 0 \in 0 .. Len(ps)
         /\ Holds(array, r, Spelled(HeardIn(ps)[0], into))
         /\ Len(Spelled(HeardIn(ps)[0], into)) = 0
         /\ 1 = 0 + 1 /\ 1 <= r
    BY <1>9, EnterCopying
  <1>11. Said(0)' = Spelled(HeardIn(ps)[0], into)
    BY <1>6 DEF Said
  <1>12. Copied(0)'
    BY <1>1, <1>7, <1>8, <1>10, <1>11 DEF Copied
  <1>13. Copying'
    BY <1>10, <1>12 DEF Copying
  <1>14. Measuring' /\ Filling' /\ Waiting' /\ Decoding' /\ Results'
    BY <1>1 DEF Measuring, Filling, Waiting, Decoding, Results, AddressTrue, HostNameTrue, Answered
  <1> QED
    BY <1>5, <1>13, <1>14 DEF IInv

\* What is shown is no longer than what was to be shown.
LEMMA WideFits ==
  ASSUME room \in Nat \ {0}, pieces \in Seq(Pieces), Len(Plain) < Display
  PROVE  Fitting(Wide, "utf8", Display) = Wide
  <1>1. PICK all \in Seq(Characters) : all = Heard(pieces)
    <2>1. Len(pieces) \in 0 .. Len(pieces)
      BY LenProperties
    <2> QED
      BY <2>1, HeardSteps DEF Heard
  <1>2. PICK n \in 0 .. Len(all) : Wide = SubSeq(all, 1, n)
    BY <1>1, Forms8and16, FittingFits DEF Wide
  <1>3. PICK cs \in Seq(Characters) : cs = Wide
    BY <1>2, FirstPieces
  <1>4. all \in Seq(Pieces) /\ Len(all) \in Nat /\ Len(all) \in n .. Len(all)
    BY SeqMonotonic, LenProperties DEF Pieces
  <1>5. Len(Spelled(cs, "utf8")) <= Len(Spelled(all, "utf8"))
    <2>1. Len(Before(all, n, "utf8")) <= Len(Before(all, Len(all), "utf8"))
      BY <1>4, Forms8and16, BeforePrefix
    <2>2. Before(all, Len(all), "utf8") = Spelled(all, "utf8")
      BY <1>4, Forms8and16, BeforeSteps
    <2> QED
      BY <1>2, <1>3, <2>1, <2>2 DEF Before
  <1>6. Len(Spelled(all, "utf8")) <= Len(Plain) /\ Len(Plain) \in Nat
    BY <1>1, Forms8and16, HeardShorter DEF Plain
  <1>7. /\ Len(Spelled(cs, "utf8")) \in Nat /\ Len(Spelled(all, "utf8")) \in Nat
        /\ Display \in Nat \ {0}
    BY Forms8and16, SpelledCharacters, RoomIs
  <1>8. Len(Spelled(cs, "utf8")) < Display
    BY <1>5, <1>6, <1>7
  <1>9. PICK r \in Nat \ {0} : r = Display
    BY <1>7
  <1>10. Fitting(cs, "utf8", r) = cs
    BY <1>8, <1>9, Forms8and16, FittingAll
  <1> QED
    BY <1>3, <1>9, <1>10

\* The names that are made of one another.
LEMMA WideIs ==
  ASSUME room \in Nat \ {0}, pieces \in Seq(Pieces)
  PROVE  /\ Wide \in Seq(Characters) /\ Heard(Wide) = Wide
         /\ Len(Plain) < Display => Fitting(Wide, "utf8", Display) = Wide
         /\ Fitting(Wide, "utf8", room) \in Seq(Characters)
         /\ Heard(Fitting(Wide, "utf8", room)) = Fitting(Wide, "utf8", room)
         /\ Fitting(Fitting(Wide, "utf8", room), "utf8", room) = Fitting(Wide, "utf8", room)
  <1>1. Heard(pieces) \in Seq(Characters)
    <2>1. Len(pieces) \in 0 .. Len(pieces)
      BY LenProperties
    <2> QED
      BY <2>1, HeardSteps DEF Heard
  <1>2. Wide \in Seq(Characters)
    BY <1>1, Forms8and16, FittingFits DEF Wide
  <1>3. /\ Fitting(Wide, "utf8", room) \in Seq(Characters)
        /\ Fitting(Fitting(Wide, "utf8", room), "utf8", room) = Fitting(Wide, "utf8", room)
    BY <1>2, Forms8and16, FittingFits
  <1> QED
    BY <1>2, <1>3, HeardOfCharacters, WideFits

LEMMA CopyDoneStep ==
  ASSUME IInv, UTF_copy_done
  PROVE  IInv'
  <1>1. stage \in {"class_info_utf16", "class_info_2", "class_info", "factory_info"} /\ CopyEnds
    BY DEF UTF_copy_done
  <1>2. UpToNul(Terminated) = Spelled(Fitting(Heard(Source), Into, room), Into)
    BY <1>1, CopyResult DEF Copies, Room
  <1>3. room \in Nat \ {0} /\ pieces \in Seq(Pieces)
    BY DEF IInv, InputsOK
  <1>4. CASE stage = "class_info_utf16"
    <2>1. PICK left : Enter("class_info_2", UpToNul(Terminated), ArrayOf(room, left))
      BY <1>4 DEF UTF_copy_done
    <2>2. stage' = "class_info_2" /\ UNCHANGED inputs
      BY <2>1 DEF Enter
    <2>3. Wide' = Wide /\ From' = "utf16" /\ Source' = Wide
      BY <2>2 DEF inputs, From, Source, Wide, Fitting
    <2>4. Source = pieces /\ Into = "utf16"
      BY <1>4 DEF Source, Into
    <2>5. UpToNul(Terminated) = Spelled(Wide, "utf16")
      BY <1>2, <2>4 DEF Wide
    <2>6. PICK ps \in Seq(Characters) : ps = Wide
      BY <1>3, WideIs
    <2>7. Good(ps, "utf16")
      BY Forms8and16, GoodCharacters
    <2> QED
      BY <2>1, <2>3, <2>5, <2>6, <2>7, EnteredStep
  <1>5. CASE stage = "class_info_2"
    <2>1. PICK left : Enter("class_info", UpToNul(Terminated), ArrayOf(room, left))
      BY <1>5 DEF UTF_copy_done
    <2>2. stage' = "class_info" /\ UNCHANGED inputs
      BY <2>1 DEF Enter
    <2>3. Wide' = Wide /\ From' = "utf8" /\ Source' = Fitting(Wide, "utf8", room)
      BY <2>2 DEF inputs, From, Source, Wide, Fitting
    <2>4. Source = Wide /\ Into = "utf8"
      BY <1>5 DEF Source, Into
    <2>5. UpToNul(Terminated) = Spelled(Fitting(Wide, "utf8", room), "utf8")
      BY <1>2, <1>3, <2>4, WideIs
    <2>6. PICK ps \in Seq(Characters) : ps = Fitting(Wide, "utf8", room)
      BY <1>3, WideIs
    <2>7. Good(ps, "utf8")
      BY Forms8and16, GoodCharacters
    <2> QED
      BY <2>1, <2>3, <2>5, <2>6, <2>7, EnteredStep
  <1>6. CASE stage = "class_info"
    <2>1. stage' = "told" /\ buf' = Terminated /\ UNCHANGED inputs
      BY <1>6 DEF UTF_copy_done
    <2>2. Source = Fitting(Wide, "utf8", room) /\ Into = "utf8"
      BY <1>6 DEF Source, Into
    <2>3. UpToNul(Terminated) = Narrow
      BY <1>2, <1>3, <2>2, WideIs DEF Narrow
    <2>4. Narrow' = Narrow
      BY <2>1 DEF inputs, Narrow, Wide, Fitting
    <2>5. UpToNul(buf)' = UpToNul(Terminated)
      BY <2>1 DEF UpToNul
    <2>6. InputsOK'
      BY <2>1 DEF IInv, InputsOK, Shown, inputs
    <2> QED
      BY <2>1, <2>3, <2>4, <2>5, <2>6 DEF IInv, ReadsSource, Copying, Measuring, Filling, Waiting,
         Decoding, Results, AddressTrue, HostNameTrue, Answered, Copies
  <1>7. CASE stage = "factory_info"
    <2>1. stage' = "mailed" /\ buf' = Terminated /\ UNCHANGED inputs
      BY <1>7 DEF UTF_copy_done
    <2>2. Source = Addressed /\ Into = "utf8" /\ mail
      BY <1>7 DEF Source, Into, IInv, InputsOK
    <2>3. UpToNul(Terminated) = Spelled(Fitting(Heard(Addressed), "utf8", room), "utf8")
      BY <1>2, <2>2
    <2>4. mail' /\ Spelled(Fitting(Heard(Addressed), "utf8", room), "utf8")'
                     = Spelled(Fitting(Heard(Addressed), "utf8", room), "utf8")
      BY <2>1, <2>2 DEF inputs, Addressed, Fitting
    <2>5. UpToNul(buf)' = UpToNul(Terminated)
      BY <2>1 DEF UpToNul
    <2>6. InputsOK'
      BY <2>1 DEF IInv, InputsOK, Shown, inputs
    <2> QED
      BY <2>1, <2>3, <2>4, <2>5, <2>6 DEF IInv, ReadsSource, Copying, Measuring, Filling, Waiting,
         Decoding, Results, AddressTrue, HostNameTrue, Answered, Copies
  <1> QED
    BY <1>1, <1>4, <1>5, <1>6, <1>7

\* What the host shows is what it gives back.
LEMMA ShownStep ==
  ASSUME IInv, get_parameter_string_for_value
  PROVE  IInv'
  <1>1. /\ stage = "string_for_value" /\ CopyEnds
        /\ Enter("value_for_string", UpToNul(Terminated), ArrayOf(Display, 0))
    BY DEF get_parameter_string_for_value
  <1>2. room \in Nat \ {0} /\ pieces \in Seq(Pieces) /\ ~typed /\ Len(Plain) < Display
    BY <1>1 DEF IInv, InputsOK, Shown
  <1>3. Source = pieces /\ Into = "utf16" /\ Room = room /\ stage \in Copies
    BY <1>1 DEF Source, Into, Room, Copies
  <1>4. UpToNul(Terminated) = Spelled(Wide, "utf16")
    BY <1>1, <1>3, CopyResult DEF Wide
  <1>5. stage' = "value_for_string" /\ UNCHANGED inputs
    BY <1>1 DEF Enter
  <1>6. Wide' = Wide /\ From' = "utf16" /\ Source' = Wide
    BY <1>2, <1>5 DEF inputs, From, Source, Wide, Fitting
  <1>7. PICK ps \in Seq(Characters) : ps = Wide
    BY <1>2, WideIs
  <1>8. Good(ps, "utf16")
    BY Forms8and16, GoodCharacters
  <1> QED
    BY <1>1, <1>2, <1>4, <1>6, <1>7, <1>8, EnteredStep

\* What the plugin is asked for the value of.
LEMMA ValuedStep ==
  ASSUME IInv, get_parameter_value_for_string
  PROVE  IInv'
  <1>1. /\ stage = "value_for_string" /\ CopyEnds /\ stage' = "valued" /\ buf' = Terminated
        /\ UNCHANGED <<inputs, text, pos, at, size>>
    BY DEF get_parameter_value_for_string
  <1>2. room \in Nat \ {0} /\ pieces \in Seq(Pieces) /\ (~typed => Len(Plain) < Display)
    BY <1>1 DEF IInv, InputsOK, Shown
  <1>3. Into = "utf8" /\ Room = Display /\ stage \in Copies
    BY <1>1 DEF Into, Room, Copies
  <1>4. UpToNul(Terminated) = Spelled(Fitting(Heard(Source), "utf8", Display), "utf8")
    BY <1>1, <1>3, CopyResult
  <1>5. Fitting(Heard(Source), "utf8", Display) = Arrived
    <2>1. CASE typed
      BY <1>1, <2>1 DEF Source, Arrived
    <2>2. CASE ~typed
      <3>1. Source = Wide
        BY <1>1, <2>2 DEF Source
      <3> QED
        BY <1>2, <2>2, <3>1, WideIs DEF Arrived
    <2> QED
      BY <2>1, <2>2
  <1>6. Arrived' = Arrived
    BY <1>1 DEF inputs, Arrived, Wide, Fitting, Display
  <1>7. UpToNul(buf)' = UpToNul(Terminated)
    BY <1>1 DEF UpToNul
  <1>8. Answered'
    BY <1>4, <1>5, <1>6, <1>7 DEF Answered
  <1>9. InputsOK'
    BY <1>1 DEF IInv, InputsOK, Shown, inputs
  <1> QED
    BY <1>1, <1>8, <1>9 DEF IInv, ReadsSource, Copying, Measuring, Filling, Waiting, Decoding, Results,
       AddressTrue, HostNameTrue, Copies

-----------------------------------------------------------------------------
\* No more is said of the first pieces than of all of them.
LEMMA SaidFits ==
  ASSUME NEW form \in Forms, NEW ps \in Seq(Pieces), NEW k \in 0 .. Len(ps)
  PROVE  /\ Len(Spelled(HeardIn(ps)[k], form)) \in Nat
         /\ Len(Spelled(Heard(ps), form)) \in Nat
         /\ Len(Spelled(HeardIn(ps)[k], form)) <= Len(Spelled(Heard(ps), form))
  <1>1. Len(ps) \in Nat /\ Len(ps) \in k .. Len(ps)
    BY LenProperties
  <1>2. PICK h : h = HeardIn(ps)[Len(ps)]
    OBVIOUS
  <1>3. PICK s : s = HeardIn(ps)[k]
    OBVIOUS
  <1>4. s \in Seq(Characters) /\ h \in Seq(Characters) /\ Len(s) <= Len(h) /\ s = SubSeq(h, 1, Len(s))
    BY <1>1, <1>2, <1>3, HeardGrows
  <1>5. h \in Seq(Pieces) /\ Len(s) \in Nat /\ Len(h) \in Nat
    BY <1>4, SeqMonotonic, LenProperties DEF Pieces
  <1>6. Len(s) \in 0 .. Len(h) /\ Len(h) \in Len(s) .. Len(h)
    BY <1>4, <1>5
  <1>7. Len(Before(h, Len(s), form)) \in Nat
        /\ Len(Before(h, Len(s), form)) <= Len(Before(h, Len(h), form))
    BY <1>5, <1>6, BeforePrefix
  <1>8. Before(h, Len(s), form) = Spelled(s, form)
    BY <1>4 DEF Before
  <1>9. Before(h, Len(h), form) = Spelled(h, form)
    BY <1>5, BeforeSteps
  <1>10. Len(Spelled(h, form)) \in Nat
    BY <1>4, SpelledCharacters
  <1> QED
    BY <1>2, <1>3, <1>7, <1>8, <1>9, <1>10 DEF Heard

LEMMA MeasureStep ==
  ASSUME IInv, UTF_convert_measure
  PROVE  IInv'
  <1>1. /\ stage = "measure" /\ Decoded.cp # incomplete /\ pos' = Decoded.next
        /\ size' = IF Decoded.cp = illegal THEN size ELSE size + width(Into, Decoded.cp)
        /\ UNCHANGED <<inputs, stage, text, buf, at>>
    BY DEF UTF_convert_measure, Stops
  <1>2. /\ Source' = Source /\ From' = From /\ Into' = Into /\ stage' = stage
        /\ text' = text /\ at' = at /\ \A k : Said(k)' = Said(k)
    BY <1>1, Frame DEF Said
  <1>3. PICK k \in 0 .. Len(Source) : Measured(k)
    BY <1>1 DEF IInv, Measuring
  <1>4. stage \in Copies \cup {"measure", "fill"} /\ At(Source, From, k, pos)
        /\ size = Len(Said(k)) /\ at = 1
    BY <1>1, <1>3 DEF Measured
  <1>5. \E m \in 0 .. Len(Source) : At(Source, From, m, Decoded.next) /\ size' = Len(Said(m))
    <2>1. CASE Decoded.cp = illegal
      <3>1. size' = size
        BY <1>1, <2>1
      <3>2. PICK m \in 0 .. Len(Source) : At(Source, From, m, Decoded.next) /\ Said(m) = Said(k)
        BY <1>4, <2>1, DroppedUnits
      <3> QED
        BY <1>4, <3>1, <3>2
    <2>2. CASE Decoded.cp \in Nat /\ Decoded.cp >= 0
      <3>1. size' = size + width(Into, Decoded.cp)
        BY <1>1, <2>2, Numbers
      <3>2. /\ At(Source, From, k + 1, Decoded.next)
            /\ Len(Said(k + 1)) = Len(Said(k)) + width(Into, Decoded.cp)
            /\ k + 1 \in 0 .. Len(Source)
        BY <1>4, <2>2, HeededUnits
      <3> QED
        BY <1>4, <3>1, <3>2
    <2> QED
      BY <1>1, <1>4, <2>1, <2>2, DecodedIs
  <1>6. PICK m \in 0 .. Len(Source) : At(Source, From, m, Decoded.next) /\ size' = Len(Said(m))
    BY <1>5
  <1>7. Measured(m)'
    BY <1>1, <1>2, <1>4, <1>6 DEF Measured
  <1>8. Measuring'
    BY <1>2, <1>7 DEF Measuring
  <1>9. ReadsSource' /\ InputsOK'
    BY <1>1, <1>2, Frame DEF IInv, ReadsSource, InputsOK
  <1>10. Copying' /\ Filling' /\ Waiting' /\ Decoding' /\ Results'
    BY <1>1, <1>2 DEF Copies, Copying, Filling, Waiting, Decoding, Results, AddressTrue, HostNameTrue, Answered
  <1> QED
    BY <1>8, <1>9, <1>10 DEF IInv

\* The second pass begins where the first did, in an array of the size that
\* the first one measured.
LEMMA ResizeStep ==
  ASSUME IInv, UTF_convert_resize
  PROVE  IInv'
  <1>1. /\ stage = "measure" /\ Decoded.cp = incomplete /\ stage' = "fill" /\ pos' = 1
        /\ buf' = ArrayOf(size, 0)
        /\ UNCHANGED <<inputs, text, at, size>>
    BY DEF UTF_convert_resize, Stops
  <1>2. PICK k \in 0 .. Len(Source) : Measured(k)
    BY <1>1 DEF IInv, Measuring
  <1>3. stage \in Copies \cup {"measure", "fill"} /\ At(Source, From, k, pos)
        /\ size = Len(Said(k)) /\ at = 1
    BY <1>1, <1>2 DEF Measured
  <1>4. HeardIn(Source)[k] = Heard(Source) /\ size \in Nat
    BY <1>1, <1>3, EndedUnits, ReadNow
  <1>5. /\ Source = pieces /\ Source' = pieces /\ From = "utf16" /\ From' = "utf16"
        /\ Into = "utf8" /\ Into' = "utf8" /\ pieces' = pieces
    BY <1>1 DEF Source, From, Into, inputs
  <1>6. size = Len(Spelled(Heard(pieces), "utf8"))
    BY <1>3, <1>4, <1>5 DEF Said
  <1>7. pieces \in Seq(Pieces)
    BY DEF IInv, InputsOK
  <1>8. PICK ps \in Seq(Pieces) : ps = pieces
    BY <1>7
  <1>9. /\ At(ps, "utf16", 0, 1) /\ HeardIn(ps)[0] = << >> /\ 0 \in 0 .. Len(ps)
    BY ReadFirst, Forms8and16, LenProperties
  <1>10. Said(0)' = Spelled(HeardIn(ps)[0], "utf8")
    BY <1>5, <1>8 DEF Said
  <1>11. Len(Said(0)') = 0
    BY <1>9, <1>10, Nothing, Forms8and16
  <1>12. Holds(buf', size, Said(0)')
    BY <1>1, <1>4, <1>11 DEF Holds, ArrayOf
  <1>13. Filled(0)'
    BY <1>1, <1>3, <1>5, <1>8, <1>9, <1>11, <1>12 DEF Filled
  <1>14. buf' = [i \in 1 .. size' |-> buf'[i]]
    BY <1>1 DEF ArrayOf
  <1>15. Filling'
    BY <1>1, <1>5, <1>6, <1>8, <1>9, <1>13, <1>14 DEF Filling
  <1>16. ReadsSource' /\ InputsOK'
    BY <1>1, <1>5 DEF IInv, ReadsSource, InputsOK, Shown, inputs
  <1>17. Copying' /\ Measuring' /\ Waiting' /\ Decoding' /\ Results'
    BY <1>1 DEF Copies, Copying, Measuring, Waiting, Decoding, Results, AddressTrue, HostNameTrue, Answered
  <1> QED
    BY <1>15, <1>16, <1>17 DEF IInv

LEMMA FillStep ==
  ASSUME IInv, UTF_convert_fill
  PROVE  IInv'
  <1> DEFINE u == encode(Into, Decoded.cp)
  <1>1. /\ stage = "fill" /\ Decoded.cp # incomplete /\ pos' = Decoded.next
        /\ Decoded.cp = illegal => buf' = buf /\ at' = at
        /\ Decoded.cp # illegal => buf' = Written(u) /\ at' = at + Len(u)
        /\ UNCHANGED <<inputs, stage, text, size>>
    BY DEF UTF_convert_fill, Stops
  <1>2. /\ Source' = Source /\ From' = From /\ Into' = Into /\ stage' = stage /\ pieces' = pieces
        /\ text' = text /\ size' = size /\ \A k : Said(k)' = Said(k)
    BY <1>1, Frame DEF Said
  <1>3. /\ size = Len(Spelled(Heard(pieces), "utf8")) /\ buf = [i \in 1 .. size |-> buf[i]]
        /\ \E k \in 0 .. Len(Source) : Filled(k)
    BY <1>1 DEF IInv, Filling
  <1>4. PICK k \in 0 .. Len(Source) : Filled(k)
    BY <1>3
  <1>5. stage \in Copies \cup {"measure", "fill"} /\ At(Source, From, k, pos)
        /\ Holds(buf, size, Said(k)) /\ at = Len(Said(k)) + 1
    BY <1>1, <1>4 DEF Filled
  <1>6. Source = pieces /\ Into = "utf8" /\ pieces \in Seq(Pieces)
    BY <1>1 DEF Source, Into, IInv, InputsOK
  <1>7. ASSUME NEW m \in 0 .. Len(Source)
        PROVE  Len(Said(m)) \in Nat /\ size \in Nat /\ Len(Said(m)) <= size
    BY <1>3, <1>6, Forms8and16, SaidFits DEF Said
  <1>8. \E m \in 0 .. Len(Source) :
          /\ At(Source, From, m, Decoded.next)
          /\ Holds(buf', size, Said(m)) /\ at' = Len(Said(m)) + 1
          /\ buf' = [i \in 1 .. size |-> buf'[i]]
    <2>1. CASE Decoded.cp = illegal
      <3>1. buf' = buf /\ at' = at
        BY <1>1, <2>1
      <3>2. PICK m \in 0 .. Len(Source) : At(Source, From, m, Decoded.next) /\ Said(m) = Said(k)
        BY <1>5, <2>1, DroppedUnits
      <3> QED
        BY <1>3, <1>5, <3>1, <3>2
    <2>2. CASE Decoded.cp \in Nat /\ Decoded.cp >= 0
      <3>1. buf' = Written(u) /\ at' = at + Len(u)
        BY <1>1, <2>2, Numbers
      <3>2. /\ At(Source, From, k + 1, Decoded.next) /\ u \in Seq(Nat)
            /\ Said(k + 1) = Said(k) \o u
            /\ Len(Said(k + 1)) = Len(Said(k)) + Len(u)
            /\ k + 1 \in 0 .. Len(Source)
        BY <1>5, <2>2, HeededUnits
      <3> HIDE DEF u
      <3>3. PICK m \in 0 .. Len(Source) : m = k + 1
        BY <3>2
      <3>4. Said(k) \in Seq(Nat) /\ Len(Said(k)) \in Nat /\ Len(u) \in Nat
        BY <1>5, <3>2, ReadNow, LenProperties
      <3>5. Len(Said(m)) <= size /\ size \in Nat
        BY <1>7
      <3>6. Len(Said(k)) + Len(u) <= size
        BY <3>2, <3>3, <3>5
      <3>7. Holds(Written(u), size, Said(k) \o u)
        BY <1>5, <3>2, <3>4, <3>5, <3>6, WrittenHolds
      <3>8. at' = Len(Said(m)) + 1
        BY <1>5, <3>1, <3>2, <3>3, <3>4
      <3>9. buf' = [i \in 1 .. size |-> buf'[i]]
        <4>1. DOMAIN buf = 1 .. size
          BY <1>5 DEF Holds
        <4> QED
          BY <3>1, <4>1 DEF Written
      <3> QED
        BY <3>1, <3>2, <3>3, <3>7, <3>8, <3>9
    <2> QED
      BY <1>1, <1>5, <2>1, <2>2, DecodedIs
  <1>9. PICK m \in 0 .. Len(Source) :
          /\ At(Source, From, m, Decoded.next)
          /\ Holds(buf', size, Said(m)) /\ at' = Len(Said(m)) + 1
          /\ buf' = [i \in 1 .. size |-> buf'[i]]
    BY <1>8
  <1>10. Filled(m)'
    BY <1>1, <1>2, <1>9 DEF Filled
  <1>11. size' = Len(Spelled(Heard(pieces), "utf8"))' /\ buf' = [i \in 1 .. size' |-> buf'[i]]
    BY <1>2, <1>3, <1>9
  <1>12. Filling'
    BY <1>2, <1>10, <1>11 DEF Filling
  <1>13. ReadsSource' /\ InputsOK'
    BY <1>1, <1>2, Frame DEF IInv, ReadsSource, InputsOK
  <1>14. Copying' /\ Measuring' /\ Waiting' /\ Decoding' /\ Results'
    BY <1>1, <1>2 DEF Copies, Copying, Measuring, Waiting, Decoding, Results, AddressTrue, HostNameTrue, Answered
  <1> QED
    BY <1>12, <1>13, <1>14 DEF IInv

\* The array is full when the text is read.
LEMMA NamedStep ==
  ASSUME IInv, UTF_convert_done
  PROVE  IInv'
  <1>1. /\ stage = "fill" /\ Decoded.cp = incomplete /\ stage' = "named"
        /\ UNCHANGED <<inputs, text, pos, buf, at, size>>
    BY DEF UTF_convert_done, Stops
  <1>2. /\ size = Len(Spelled(Heard(pieces), "utf8")) /\ buf = [i \in 1 .. size |-> buf[i]]
        /\ \E k \in 0 .. Len(Source) : Filled(k)
    BY <1>1 DEF IInv, Filling
  <1>3. PICK k \in 0 .. Len(Source) : Filled(k)
    BY <1>2
  <1>4. stage \in Copies \cup {"measure", "fill"} /\ At(Source, From, k, pos)
        /\ Holds(buf, size, Said(k)) /\ at = Len(Said(k)) + 1
    BY <1>1, <1>3 DEF Filled
  <1>5. HeardIn(Source)[k] = Heard(Source)
    BY <1>1, <1>4, EndedUnits
  <1>6. Source = pieces /\ Into = "utf8" /\ pieces' = pieces
    BY <1>1 DEF Source, Into, inputs
  <1>7. Said(k) \in Seq(Nat) /\ Len(Said(k)) = size
    BY <1>2, <1>4, <1>5, <1>6, ReadNow DEF Said
  <1>8. PICK out \in Seq(Nat) : out = Said(k)
    BY <1>7
  <1>9. Len(out) = size /\ out = [i \in 1 .. Len(out) |-> out[i]] /\ \A i \in 1 .. Len(out) : buf[i] = out[i]
    BY <1>4, <1>7, <1>8 DEF Holds
  <1>10. buf = out
    BY <1>2, <1>9
  <1>11. Said(k) = Spelled(Heard(pieces), "utf8")
    BY <1>5, <1>6 DEF Said
  <1>12. buf = Spelled(Heard(pieces), "utf8") /\ at = size + 1
    BY <1>4, <1>7, <1>8, <1>10, <1>11
  <1>13. HostNameTrue'
    BY <1>1, <1>6, <1>12 DEF HostNameTrue
  <1>14. InputsOK'
    BY <1>1 DEF IInv, InputsOK, Shown, inputs
  <1> QED
    BY <1>1, <1>13, <1>14 DEF IInv, Copies, ReadsSource, Copying, Measuring, Filling, Waiting, Decoding,
       Results, AddressTrue, Answered

\* No address is told when the URL is none.
LEMMA NoAddressStep ==
  ASSUME IInv, get_factory_info_none
  PROVE  IInv'
  <1>1. /\ stage = "url" /\ ~mail /\ stage' = "mailed"
        /\ UNCHANGED <<inputs, text, pos, at, size>>
    BY DEF get_factory_info_none
  <1>2. PICK left : buf' = [i \in 1 .. room |-> IF i = 1 THEN 0 ELSE left]
    BY DEF get_factory_info_none
  <1>3. room \in Nat \ {0} /\ room' = room /\ mail' = mail
    BY <1>1 DEF inputs, IInv, InputsOK
  <1>4. PICK b : b = buf'
    OBVIOUS
  <1>5. DOMAIN b = 1 .. room /\ Len(b) = room /\ b[1] = 0
    BY <1>2, <1>3, <1>4
  <1>6. << >> \in Seq(Nat \ {0}) /\ Len(<< >>) = 0
    OBVIOUS
  <1>7. Holds(b, room, << >>) /\ Len(<< >>) <= room /\ b[Len(<< >>) + 1] = 0
    BY <1>3, <1>5, <1>6 DEF Holds
  <1>8. UpToNul(b) = << >>
    BY <1>3, <1>6, <1>7, UpToNulHolds
  <1>9. AddressTrue'
    BY <1>1, <1>3, <1>4, <1>8 DEF AddressTrue, UpToNul
  <1>10. InputsOK'
    BY <1>1 DEF IInv, InputsOK, Shown, inputs
  <1> QED
    BY <1>1, <1>9, <1>10 DEF IInv, Copies, ReadsSource, Copying, Measuring, Filling, Waiting, Decoding,
       Results, HostNameTrue, Answered

LEMMA PlainIs ==
  ASSUME pieces \in Seq(Pieces)
  PROVE  /\ Plain \in Seq(Bytes) /\ Plain \in Seq(Nat \ {0}) /\ Plain \in Seq(Nat) /\ Len(Plain) \in Nat
         /\ Letters \in {65, 97}
  <1>1. ASSUME NEW i \in 1 .. Len(pieces) PROVE pieces[i]["utf8"] \in Seq(Bytes)
    <2>1. pieces[i] \in Pieces
      BY ElementOfSeq
    <2> QED
      BY <2>1, PieceBytes
  <1>2. Plain \in Seq(Bytes)
    BY <1>1, Forms8and16, UnitsOfPieces DEF Plain
  <1>3. Plain \in Seq(Nat \ {0}) /\ Plain \in Seq(Nat)
    BY <1>2, SeqMonotonic DEF Bytes
  <1> QED
    BY <1>2, <1>3, LenProperties DEF Letters

\* The address before it is decoded is not the query: a question mark is a
\* piece of a literal address, and no unit of an escaped one.
LEMMA AddressStep ==
  ASSUME IInv, get_factory_info
  PROVE  IInv'
  <1>1. /\ stage = "url" /\ mail /\ stage' = "decode" /\ text' = BeforeQuery(text)
        /\ UNCHANGED <<inputs, pos, buf, at, size>>
    BY DEF get_factory_info
  <1>2. /\ text = Address /\ buf = << >> /\ pos = 1
        /\ spelling = "literal" => \A p \in DOMAIN text : ~IsEscape(text, p)
    BY <1>1 DEF IInv, Waiting
  <1>3. /\ pieces \in Seq(Pieces) /\ "utf8" \in Forms /\ spelling \in {"literal", "upper", "lower"}
    BY Forms8and16 DEF IInv, InputsOK
  <1>4. /\ pieces' = pieces /\ spelling' = spelling /\ mail' = mail /\ Plain' = Plain
        /\ Letters' = Letters /\ Addressed' = Addressed
    BY <1>1 DEF inputs, Plain, Letters, Addressed
  <1>5. ASSUME spelling = "literal"
        PROVE  /\ text' = Spelled(Addressed, "utf8") /\ \A p \in DOMAIN text' : ~IsEscape(text', p)
               /\ pos \in 1 .. Len(text') + 1 /\ buf = SubSeq(text', 1, pos - 1)
    <2> DEFINE n == Min({i \in DOMAIN pieces : pieces[i].utf8 = << 63 >>} \cup {Len(pieces) + 1}) - 1
    <2>1. n \in 0 .. Len(pieces) /\ BeforeQuery(Spelled(pieces, "utf8")) = Spelled(SubSeq(pieces, 1, n), "utf8")
      BY <1>3, QueryOfPieces
    <2>2. Addressed = SubSeq(pieces, 1, n)
      BY <1>5 DEF Addressed
    <2> HIDE DEF n
    <2>3. text = Plain
      BY <1>2, <1>5 DEF Address, Plain
    <2>4. text' = Before(pieces, n, "utf8") /\ text' = Spelled(Addressed, "utf8")
      BY <1>1, <2>1, <2>2, <2>3 DEF Plain, Before
    <2>5. text = Before(pieces, Len(pieces), "utf8") /\ text' \in Seq(Nat) /\ text \in Seq(Nat)
      BY <1>3, <2>1, <2>3, <2>4, BeforeSteps DEF Plain
    <2>6. Len(pieces) \in n .. Len(pieces)
      BY <1>3, <2>1, LenProperties
    <2>7. /\ Len(text') \in Nat /\ Len(text') <= Len(text)
          /\ \A i \in 1 .. Len(text') : text[i] = text'[i]
      BY <1>3, <2>1, <2>4, <2>5, <2>6, BeforePrefix
    <2>8. PICK t \in Seq(Nat) : t = text'
      BY <2>5
    <2>9. ASSUME NEW p \in DOMAIN t, IsEscape(t, p) PROVE FALSE
      <3>1. p \in 1 .. Len(t) /\ Len(t) \in Nat /\ Len(text) \in Nat
        BY <2>5, LenProperties
      <3>2. t[p] = 37 /\ p + 2 <= Len(t) /\ hexdigit(t[p + 1]) # -1 /\ hexdigit(t[p + 2]) # -1
        BY <2>9 DEF IsEscape
      <3>3. p + 1 \in 1 .. Len(t) /\ p + 2 \in 1 .. Len(t) /\ p + 2 <= Len(text) /\ p \in 1 .. Len(text)
        BY <2>7, <2>8, <3>1, <3>2
      <3>4. text[p] = t[p] /\ text[p + 1] = t[p + 1] /\ text[p + 2] = t[p + 2]
        BY <2>7, <2>8, <3>1, <3>3
      <3>5. IsEscape(text, p)
        BY <3>2, <3>3, <3>4 DEF IsEscape
      <3>6. p \in DOMAIN text
        BY <2>5, <3>3, LenProperties
      <3> QED
        BY <1>2, <1>5, <3>5, <3>6
    <2>10. SubSeq(t, 1, 0) = << >>
      BY <2>8
    <2> QED
      BY <1>2, <2>4, <2>7, <2>8, <2>9, <2>10
  <1>6. ASSUME spelling # "literal"
        PROVE  /\ text' = Escaped(Plain, Letters) /\ 0 \in 0 .. Len(Plain)
               /\ pos = 3 * 0 + 1 /\ buf = SubSeq(Plain, 1, 0)
    <2>1. text = Escaped(Plain, Letters)
      BY <1>2, <1>3, <1>6 DEF Address, Plain, Letters
    <2>2. PICK e : e = Escaped(Plain, Letters)
      OBVIOUS
    <2>3. /\ Plain \in Seq(Bytes) /\ Letters \in {65, 97} /\ Plain \in Seq(Nat) /\ Len(Plain) \in Nat
      BY <1>3, PlainIs
    <2>4. e \in Seq(NoQuery)
      BY <2>2, <2>3, Escapes
    <2>5. Len(e) \in Nat /\ Holds(e, Len(e), e)
      BY <2>4, LenProperties DEF Holds
    <2>6. Len(e) <= Len(e) /\ ~(Len(e) < Len(e))
      BY <2>5
    <2>7. BeforeQuery(e) = e
      BY <2>4, <2>5, <2>6, BeforeQueryHolds
    <2>8. SubSeq(Plain, 1, 0) = << >>
      BY <2>3
    <2> QED
      BY <1>1, <1>2, <2>1, <2>2, <2>3, <2>7, <2>8
  <1>7. Decoding'
    <2>1. ASSUME spelling # "literal" PROVE \E j \in 0 .. Len(Plain) : Unescaped(j)'
      <3>1. Unescaped(0)'
        BY <1>1, <1>4, <1>6, <2>1 DEF Unescaped
      <3> QED
        BY <1>6, <2>1, <3>1
    <2> QED
      BY <1>1, <1>4, <1>5, <1>6, <2>1 DEF Decoding
  <1>8. InputsOK'
    BY <1>1 DEF IInv, InputsOK, Shown, inputs
  <1> QED
    BY <1>1, <1>7, <1>8 DEF IInv, Copies, ReadsSource, Copying, Measuring, Filling, Waiting, Results,
       AddressTrue, HostNameTrue, Answered

LEMMA FirstAppend ==
  ASSUME NEW s \in Seq(Nat), NEW j \in Nat, j < Len(s)
  PROVE  Append(SubSeq(s, 1, j), s[j + 1]) = SubSeq(s, 1, j + 1)
  <1>1. PICK n \in Nat : n = Len(s)
    BY LenProperties
  <1>2. j \in 0 .. Len(s) /\ j + 1 \in 0 .. Len(s)
    BY <1>1
  <1>3. /\ SubSeq(s, 1, j) \in Seq(Nat) /\ Len(SubSeq(s, 1, j)) = j
        /\ \A i \in 1 .. j : SubSeq(s, 1, j)[i] = s[i]
    BY <1>2, FirstPieces
  <1>4. /\ SubSeq(s, 1, j + 1) \in Seq(Nat) /\ Len(SubSeq(s, 1, j + 1)) = j + 1
        /\ \A i \in 1 .. j + 1 : SubSeq(s, 1, j + 1)[i] = s[i]
    BY <1>2, FirstPieces
  <1> QED
    BY <1>3, <1>4

LEMMA DecodeStep ==
  ASSUME IInv, URL_decode
  PROVE  IInv'
  <1>1. /\ stage = "decode" /\ pos <= Len(text)
        /\ UNCHANGED <<inputs, stage, text, at, size>>
    BY DEF URL_decode
  <1>2. /\ IsEscape(text, pos) =>
             buf' = Append(buf, hexdigit(text[pos + 1]) * 16 + hexdigit(text[pos + 2])) /\ pos' = pos + 3
        /\ ~IsEscape(text, pos) => buf' = Append(buf, text[pos]) /\ pos' = pos + 1
    BY DEF URL_decode
  <1>3. pieces \in Seq(Pieces) /\ "utf8" \in Forms
    BY Forms8and16 DEF IInv, InputsOK
  <1>4. /\ stage' = stage /\ text' = text /\ spelling' = spelling /\ Plain' = Plain
        /\ Letters' = Letters /\ Addressed' = Addressed
    BY <1>1, Frame
  <1>5. ASSUME spelling = "literal"
        PROVE  pos' \in 1 .. Len(text) + 1 /\ buf' = SubSeq(text, 1, pos' - 1)
    <2>1. /\ text = Spelled(Addressed, "utf8") /\ \A p \in DOMAIN text : ~IsEscape(text, p)
          /\ pos \in 1 .. Len(text) + 1 /\ buf = SubSeq(text, 1, pos - 1)
      BY <1>1, <1>5 DEF IInv, Decoding
    <2>2. text \in Seq(Nat)
      <3> DEFINE n == Min({i \in DOMAIN pieces : pieces[i].utf8 = << 63 >>} \cup {Len(pieces) + 1}) - 1
      <3>1. n \in 0 .. Len(pieces)
        BY <1>3, QueryOfPieces
      <3>2. Addressed = SubSeq(pieces, 1, n)
        BY <1>5 DEF Addressed
      <3> HIDE DEF n
      <3>3. Addressed \in Seq(Pieces)
        BY <1>3, <3>1, <3>2, FirstPieces
      <3> QED
        BY <1>3, <2>1, <3>3, BeforeSteps
    <2>3. PICK t \in Seq(Nat) : t = text
      BY <2>2
    <2>4. Len(t) \in Nat /\ DOMAIN t = 1 .. Len(t)
      BY LenProperties
    <2>5. PICK j \in Nat : pos = j + 1 /\ j < Len(t)
      <3>1. pos - 1 \in Nat /\ pos = (pos - 1) + 1 /\ pos - 1 < Len(t)
        BY <1>1, <2>1, <2>3, <2>4
      <3> QED
        BY <3>1
    <2>6. ~IsEscape(text, pos)
      BY <2>1, <2>3, <2>4, <2>5
    <2>7. buf' = Append(SubSeq(t, 1, j), t[j + 1]) /\ pos' = j + 2
      BY <1>2, <2>1, <2>3, <2>5, <2>6
    <2>8. buf' = SubSeq(t, 1, j + 1)
      BY <2>5, <2>7, FirstAppend
    <2> QED
      BY <2>3, <2>4, <2>5, <2>7, <2>8
  <1>6. ASSUME spelling # "literal"
        PROVE  \E j \in 0 .. Len(Plain) : pos' = 3 * j + 1 /\ buf' = SubSeq(Plain, 1, j)
    <2>1. text = Escaped(Plain, Letters) /\ \E j \in 0 .. Len(Plain) : Unescaped(j)
      BY <1>1, <1>6 DEF IInv, Decoding
    <2>2. PICK j \in 0 .. Len(Plain) : pos = 3 * j + 1 /\ buf = SubSeq(Plain, 1, j)
      BY <2>1 DEF Unescaped
    <2>3. /\ Plain \in Seq(Bytes) /\ Letters \in {65, 97} /\ Plain \in Seq(Nat) /\ Len(Plain) \in Nat
      BY <1>3, PlainIs
    <2>4. PICK s \in Seq(Bytes) : s = Plain /\ s \in Seq(Nat) /\ Len(s) \in Nat
      BY <2>3
    <2>5. PICK l \in {65, 97} : l = Letters
      BY <2>3
    <2>6. PICK e : e = Escaped(s, l) /\ e = text
      BY <2>1, <2>4, <2>5
    <2>7. /\ Len(e) = 3 * Len(s)
          /\ \A q \in 1 .. Len(s) : \A i \in 1 .. 3 : e[3 * (q - 1) + i] = Escape(s[q], l)[i]
      <3>1. Len(Escaped(s, l)) = 3 * Len(s) /\ EscapesStand(Escaped(s, l), s, l)
        BY Escapes
      <3> QED
        BY <2>6, <3>1 DEF EscapesStand
    <2>8. j \in Nat /\ j < Len(s) /\ pos + 2 <= Len(e)
      BY <1>1, <2>2, <2>4, <2>6, <2>7
    <2>9. PICK q \in 1 .. Len(s) : q = j + 1
      BY <2>4, <2>8
    <2>10. /\ 3 * (q - 1) + 1 = pos /\ 3 * (q - 1) + 2 = pos + 1 /\ 3 * (q - 1) + 3 = pos + 2
           /\ 1 \in 1 .. 3 /\ 2 \in 1 .. 3 /\ 3 \in 1 .. 3
      BY <2>2, <2>8, <2>9
    <2>11. /\ e[pos] = Escape(s[q], l)[1] /\ e[pos + 1] = Escape(s[q], l)[2]
           /\ e[pos + 2] = Escape(s[q], l)[3]
      <3>1. \A i \in 1 .. 3 : e[3 * (q - 1) + i] = Escape(s[q], l)[i]
        BY <2>7
      <3>2. /\ e[3 * (q - 1) + 1] = Escape(s[q], l)[1] /\ e[3 * (q - 1) + 2] = Escape(s[q], l)[2]
            /\ e[3 * (q - 1) + 3] = Escape(s[q], l)[3]
        BY <2>10, <3>1
      <3> QED
        BY <2>10, <3>2
    <2>12. s[q] \in Bytes
      BY ElementOfSeq
    <2>13. /\ e[pos] = 37 /\ hexdigit(e[pos + 1]) # -1 /\ hexdigit(e[pos + 2]) # -1
           /\ hexdigit(e[pos + 1]) * 16 + hexdigit(e[pos + 2]) = s[q]
      <3>1. PICK u \in Bytes : u = s[q]
        BY <2>12
      <3>2. PICK f : f = Escape(u, l)
        OBVIOUS
      <3>3. /\ Escape(u, l)[1] = 37 /\ hexdigit(Escape(u, l)[2]) # -1
            /\ hexdigit(Escape(u, l)[3]) # -1
            /\ hexdigit(Escape(u, l)[2]) * 16 + hexdigit(Escape(u, l)[3]) = u
        BY OneEscape
      <3>4. e[pos] = f[1] /\ e[pos + 1] = f[2] /\ e[pos + 2] = f[3]
        BY <2>11, <3>1, <3>2
      <3> QED
        BY <3>1, <3>2, <3>3, <3>4
    <2>14. IsEscape(text, pos)
      BY <2>6, <2>8, <2>13 DEF IsEscape
    <2>15. buf' = Append(buf, s[q]) /\ pos' = pos + 3
      BY <1>2, <2>6, <2>13, <2>14
    <2>16. buf' = SubSeq(s, 1, j + 1)
      BY <2>2, <2>4, <2>8, <2>9, <2>15, FirstAppend
    <2>17. pos' = 3 * q + 1 /\ buf' = SubSeq(s, 1, q) /\ q \in 0 .. Len(Plain)
      BY <2>2, <2>4, <2>8, <2>9, <2>15, <2>16
    <2> QED
      BY <2>4, <2>17
  <1>7. Decoding'
    <2>1. ASSUME spelling # "literal" PROVE \E j \in 0 .. Len(Plain) : Unescaped(j)'
      <3>1. PICK j \in 0 .. Len(Plain) : pos' = 3 * j + 1 /\ buf' = SubSeq(Plain, 1, j)
        BY <1>6, <2>1
      <3>2. Unescaped(j)'
        BY <1>4, <3>1 DEF Unescaped
      <3> QED
        BY <3>2
    <2>2. /\ spelling = "literal" => /\ text = Spelled(Addressed, "utf8")
                                     /\ \A p \in DOMAIN text : ~IsEscape(text, p)
          /\ spelling # "literal" => text = Escaped(Plain, Letters)
      BY <1>1 DEF IInv, Decoding
    <2> QED
      BY <1>1, <1>4, <1>5, <2>1, <2>2 DEF Decoding
  <1>8. InputsOK'
    BY <1>1 DEF IInv, InputsOK, Shown, inputs
  <1> QED
    BY <1>1, <1>4, <1>7, <1>8 DEF IInv, Copies, ReadsSource, Copying, Measuring, Filling, Waiting, Results,
       AddressTrue, HostNameTrue, Answered

\* What is decoded is the address, and is copied from its beginning.
LEMMA DecodedStep ==
  ASSUME IInv, URL_decode_done
  PROVE  IInv'
  <1>1. stage = "decode" /\ pos > Len(text) /\ mail
    BY DEF URL_decode_done, IInv, InputsOK
  <1>2. PICK left : Enter("factory_info", UpToNul(buf), ArrayOf(room, left))
    BY DEF URL_decode_done
  <1>3. stage' = "factory_info" /\ UNCHANGED inputs
    BY <1>2 DEF Enter
  <1>4. /\ pieces \in Seq(Pieces) /\ "utf8" \in Forms /\ Good(pieces, "utf8")
        /\ spelling \in {"literal", "upper", "lower"}
    BY <1>1, Forms8and16 DEF IInv, InputsOK
  <1>5. Good(Addressed, "utf8") /\ Addressed \in Seq(Pieces)
    BY <1>4, AddressedGood DEF Good
  <1>6. PICK ps \in Seq(Pieces) : ps = Addressed
    BY <1>5
  <1>7. \A i \in 1 .. Len(ps) : ps[i]["utf8"] \in Seq(Bytes)
    <2> SUFFICES ASSUME NEW i \in 1 .. Len(ps) PROVE ps[i]["utf8"] \in Seq(Bytes)
      OBVIOUS
    <2>1. ps[i] \in Pieces
      BY ElementOfSeq
    <2> QED
      BY <2>1, PieceBytes
  <1>8. PICK out : out = Spelled(ps, "utf8")
    OBVIOUS
  <1>9. out \in Seq(Bytes)
    BY <1>4, <1>7, <1>8, UnitsOfPieces
  <1>10. out \in Seq(Nat \ {0}) /\ out \in Seq(Nat) /\ Len(out) \in Nat
    BY <1>9, SeqMonotonic, LenProperties DEF Bytes
  <1>11. buf = out
    <2>1. CASE spelling = "literal"
      <3>1. /\ text = out /\ pos \in 1 .. Len(text) + 1 /\ buf = SubSeq(text, 1, pos - 1)
        BY <1>1, <1>6, <1>8, <2>1 DEF IInv, Decoding
      <3>2. pos - 1 = Len(out)
        BY <1>1, <1>10, <3>1
      <3>3. SubSeq(out, 1, Len(out)) = out
        BY <1>10
      <3> QED
        BY <3>1, <3>2, <3>3
    <2>2. CASE spelling # "literal"
      <3>1. text = Escaped(Plain, Letters) /\ \E j \in 0 .. Len(Plain) : Unescaped(j)
        BY <1>1, <2>2 DEF IInv, Decoding
      <3>2. PICK j \in 0 .. Len(Plain) : pos = 3 * j + 1 /\ buf = SubSeq(Plain, 1, j)
        BY <3>1 DEF Unescaped
      <3>3. Plain = out
        BY <1>6, <1>8, <2>2 DEF Addressed, Plain
      <3>4. Letters \in {65, 97}
        BY DEF Letters
      <3>5. Len(Escaped(out, Letters)) = 3 * Len(out)
        BY <1>9, <3>4, Escapes
      <3>6. j = Len(out)
        BY <1>1, <1>10, <3>1, <3>2, <3>3, <3>5
      <3>7. SubSeq(out, 1, Len(out)) = out
        BY <1>10
      <3> QED
        BY <3>2, <3>3, <3>6, <3>7
    <2> QED
      BY <2>1, <2>2
  <1>12. UpToNul(buf) = out
    <2>1. Len(out) <= Len(out) /\ ~(Len(out) < Len(out))
      BY <1>10
    <2>2. Holds(out, Len(out), out)
      BY <1>10, LenProperties DEF Holds
    <2>3. UpToNul(out) = out
      BY <1>10, <2>1, <2>2, UpToNulHolds
    <2> QED
      BY <1>11, <2>3
  <1>13. Source' = Addressed /\ From' = "utf8"
    BY <1>3 DEF Source, From, Addressed, inputs
  <1> QED
    BY <1>1, <1>2, <1>5, <1>6, <1>8, <1>12, <1>13, EnteredStep

\* Texts are good: what is cut off is not followed by a unit that only follows.
LEMMA TextsGood ==
  ASSUME NEW form \in Forms, NEW ps \in Texts(form)
  PROVE  Good(ps, form) /\ ps \in Seq(Pieces)
  <1>1. PICK n \in 0 .. MaxPieces : ps \in [1 .. n -> Pieces]
    BY DEF Texts, Pieces
  <1>2. n \in Nat
    BY <1>1, RoomsAssumption
  <1>3. ps \in Seq(Pieces)
    BY <1>1, <1>2
  <1>4. \A i \in 1 .. Len(ps) - 1 : IsCut(ps[i]) => ~Follows(ps[i + 1], form)
    BY DEF Texts
  <1> QED
    BY <1>3, <1>4 DEF Good

LEMMA InitHolds == Init => IInv
  <1> SUFFICES ASSUME Init PROVE IInv
    OBVIOUS
  <1>1. /\ stage \in {"class_info_utf16", "string_for_value", "value_for_string", "measure", "url"}
        /\ typed = (stage = "value_for_string") /\ pieces \in Texts(From)
        /\ room \in Rooms /\ pos = 1 /\ at = 1 /\ size = 0
        /\ mail \in (IF stage = "url" THEN BOOLEAN ELSE {FALSE})
        /\ spelling \in (IF stage = "url" THEN {"literal", "upper", "lower"} ELSE {"literal"})
        /\ text = IF stage = "url" THEN Address ELSE Spelled(pieces, From)
        /\ stage = "url" /\ spelling = "literal" => \A p \in DOMAIN text : ~IsEscape(text, p)
    BY DEF Init
  <1>2. PICK left :
           /\ stage \in {"class_info_utf16", "string_for_value"} => buf = ArrayOf(room, left)
           /\ stage = "value_for_string" => buf = ArrayOf(Display, 0)
           /\ stage \in {"measure", "url"} => buf = << >>
    <2>1. PICK left \in Leftovers :
            buf = CASE stage \in {"class_info_utf16", "string_for_value"} -> ArrayOf(room, left)
                    [] stage = "value_for_string" -> ArrayOf(Display, 0)
                    [] stage \in {"measure", "url"} -> << >>
      BY DEF Init
    <2> QED
      BY <2>1
  <1>3. room \in Nat \ {0} /\ Room \in Nat \ {0} /\ From \in Forms /\ Into \in Forms
    BY <1>1, RoomsAssumption, RoomIs, Forms8and16
  <1>4. PICK form \in Forms : form = From
    BY <1>3
  <1>5. PICK into \in Forms : into = Into
    BY <1>3
  <1>6. Good(pieces, form) /\ pieces \in Seq(Pieces)
    BY <1>1, <1>4, TextsGood
  <1>7. PICK ps \in Seq(Pieces) : ps = pieces
    BY <1>6
  <1>8. Source = ps
    BY <1>1, <1>7 DEF Source
  <1>9. InputsOK
    <2>1. stage = "url" => From = "utf8"
      BY DEF From
    <2>2. stage = "url" => Good(pieces, "utf8")
      BY <1>4, <1>6, <2>1
    <2>3. mail \in BOOLEAN /\ spelling \in {"literal", "upper", "lower"}
      BY <1>1
    <2>4. stage \notin {"decode", "factory_info"}
      BY <1>1
    <2>5. stage \in Copies \cup
                     {"measure", "fill", "url", "decode", "told", "mailed", "valued", "named"}
      BY <1>1 DEF Copies
    <2>6. Shown
      <3>1. stage = "string_for_value" => Len(text) < Display /\ text = Plain
        BY <1>1 DEF Init, Plain, From
      <3> QED
        BY <1>1, <3>1 DEF Shown
    <2> QED
      BY <1>3, <1>6, <2>2, <2>3, <2>4, <2>5, <2>6 DEF InputsOK
  <1>10. ReadsSource
    BY <1>1, <1>4, <1>6, <1>7, <1>8 DEF ReadsSource, Copies
  <1>11. At(ps, form, 0, 1) /\ HeardIn(ps)[0] = << >> /\ 0 \in 0 .. Len(ps)
    BY ReadFirst, LenProperties
  <1>12. Said(0) = Spelled(HeardIn(ps)[0], into) /\ Len(Said(0)) = 0
    BY <1>5, <1>8, <1>11, Nothing DEF Said
  <1>13. Copying
    <2> SUFFICES ASSUME stage \in Copies PROVE \E k \in 0 .. Len(Source) : Copied(k)
      BY DEF Copying
    <2>1. \E unit : buf = ArrayOf(Room, unit)
      BY <1>1, <1>2 DEF Copies, Room
    <2>2. Holds(buf, Room, Spelled(HeardIn(ps)[0], into)) /\ 1 <= Room
      BY <1>3, <2>1, EnterCopying
    <2>3. Copied(0)
      BY <1>1, <1>4, <1>8, <1>11, <1>12, <2>2 DEF Copied
    <2> QED
      BY <1>8, <1>11, <2>3
  <1>14. Measuring
    <2>1. Measured(0)
      BY <1>1, <1>4, <1>8, <1>11, <1>12 DEF Measured
    <2> QED
      BY <1>8, <1>11, <2>1 DEF Measuring
  <1>15. Waiting
    BY <1>1, <1>2 DEF Waiting
  <1> QED
    BY <1>1, <1>9, <1>10, <1>13, <1>14, <1>15 DEF IInv, Filling, Decoding, Results, AddressTrue, HostNameTrue, Answered

\* Nothing changes.
LEMMA StutterStep ==
  ASSUME IInv, UNCHANGED vars
  PROVE  IInv'
  <1>1. UNCHANGED <<inputs, stage, text, pos, buf, at, size>>
    BY DEF vars
  <1>2. /\ Source' = Source /\ From' = From /\ Into' = Into /\ stage' = stage
        /\ Wide' = Wide /\ Narrow' = Narrow /\ Addressed' = Addressed /\ Plain' = Plain
        /\ Letters' = Letters /\ pieces' = pieces /\ spelling' = spelling /\ mail' = mail
        /\ room' = room /\ Room' = Room /\ Arrived' = Arrived /\ Shown' = Shown
        /\ text' = text /\ pos' = pos /\ buf' = buf /\ at' = at /\ size' = size
        /\ \A k : Said(k)' = Said(k)
    BY <1>1, Frame DEF Said
  <1>3. Address' = Address /\ UpToNul(buf)' = UpToNul(buf)
        /\ Fitting(Heard(Addressed), "utf8", room)' = Fitting(Heard(Addressed), "utf8", room)
    BY <1>2 DEF Address, UpToNul, Fitting
  <1>4. InputsOK' /\ ReadsSource'
    BY <1>2 DEF IInv, InputsOK, ReadsSource
  <1>5. Copying' /\ Measuring' /\ Filling'
    BY <1>2 DEF IInv, Copying, Copied, Measuring, Measured, Filling, Filled
  <1>6. Waiting' /\ Decoding'
    BY <1>2, <1>3 DEF IInv, Waiting, Decoding, Unescaped
  <1>7. Results'
    BY <1>2, <1>3 DEF IInv, Results, AddressTrue, HostNameTrue, Answered
  <1> QED
    BY <1>4, <1>5, <1>6, <1>7 DEF IInv

\* The invariant holds always, for all characters and strays that have the
\* units the two encodings give them, all texts, sizes and contents of arrays.
THEOREM InvariantHolds == Spec => []IInv
  <1>1. IInv /\ [Next]_vars => IInv'
    <2> SUFFICES ASSUME IInv, [Next]_vars PROVE IInv'
      OBVIOUS
    <2> QED
      BY IllegalStep, CopyStep, CopyDoneStep, ShownStep, ValuedStep, MeasureStep, ResizeStep, FillStep, NamedStep,
         NoAddressStep, AddressStep, DecodeStep, DecodedStep, StutterStep DEF Next
  <1> QED
    BY <1>1, InitHolds, PTL DEF Spec

\* Each structure that the host is given has the whole characters of the
\* plugin's name that it has room for, whatever structures were in between,
\* and UTF_copy writes nothing past the end of an array.
THEOREM NamesAlwaysTrue == Spec => []NamesTrue
  <1>1. IInv => NamesTrue
    <2> SUFFICES ASSUME IInv PROVE NamesTrue
      OBVIOUS
    <2>1. stage \in Copies => at <= Room
      BY DEF IInv, Copying, Copied
    <2>2. ASSUME stage = "class_info_2" PROVE text = Spelled(Wide, "utf16")
      BY <2>2 DEF IInv, ReadsSource, Source, From, Copies
    <2>3. ASSUME stage = "class_info" PROVE text = Narrow
      BY <2>3 DEF IInv, ReadsSource, Source, From, Copies, Narrow
    <2>4. stage = "told" => UpToNul(buf) = Narrow
      BY DEF IInv, Results
    <2> QED
      BY <2>1, <2>2, <2>3, <2>4 DEF NamesTrue
  <1> QED
    BY <1>1, InvariantHolds, PTL

\* The host is told the address behind mailto:, with its escapes decoded and
\* without its query, as far as the array has room for whole characters.
THEOREM AddressAlwaysTrue == Spec => []AddressTrue
  <1>1. IInv => AddressTrue
    BY DEF IInv, Results
  <1> QED
    BY <1>1, InvariantHolds, PTL

\* A value's text is shown in the whole characters the host has room for and
\* arrives whole when it is given back, whatever the sizes; of a typed text the
\* whole characters arrive that display has room for; and the pass of
\* UTF_convert that fills writes what the one that measures counted, all
\* characters of the host's name.
THEOREM TextAlwaysTrue == Spec => []TextTrue
  <1>1. IInv => TextTrue
    <2> SUFFICES ASSUME IInv PROVE TextTrue
      OBVIOUS
    <2>1. ASSUME stage = "value_for_string", ~typed PROVE text = Spelled(Wide, "utf16")
      BY <2>1 DEF IInv, ReadsSource, Source, From, Copies
    <2>2. Answered /\ HostNameTrue
      BY DEF IInv, Results
    <2> QED
      BY <2>1, <2>2 DEF TextTrue, ValueTextTrue, Answered, Arrived
  <1> QED
    BY <1>1, InvariantHolds, PTL
=============================================================================

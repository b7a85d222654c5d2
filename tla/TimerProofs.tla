---------------------------- MODULE TimerProofs ----------------------------
(***************************************************************************)
(* Proofs about nsleep and usleep, for words of any width, any period of   *)
(* the counter and ticks that fall between the polls in any way: while     *)
(* what they read does not go through zero they return exactly when the    *)
(* time asked for is over.                                                 *)
(***************************************************************************)
EXTENDS Timer, TLAPS

(* A product grows with its factor.                                        *)
LEMMA TimesGrows ==
    ASSUME NEW w \in Nat, NEW x \in Int, NEW y \in Int, x <= y
    PROVE  w * x <= w * y
<1>1. PICK d \in Nat : y = x + d
  <2>1. y - x \in Nat /\ y = x + (y - x)
    OBVIOUS
  <2> QED
    BY <2>1
<1>2. w * y = w * x + w * d
  BY <1>1, SMTT(30)
<1>3. w * d \in Nat
  BY SMTT(30)
<1>4. w * x \in Int
  BY SMTT(30)
<1> QED
  BY <1>2, <1>3, <1>4

(* A number is so many words and a rest.                                   *)
LEMMA WordsAndRest ==
    ASSUME NEW w \in Nat \ {0}, NEW c \in Nat
    PROVE  \E q \in Nat, r \in Nat :
               q = c \div w /\ r = c % w /\ r < w /\ c = w * q + r
<1>1. c \div w \in Int /\ c % w \in Nat /\ c % w < w /\ c = w * (c \div w) + (c % w)
  BY SMTT(30)
<1>2. c \div w >= 0
  BY SMTT(30)
<1> QED
  BY <1>1, <1>2

(* In one way only.                                                        *)
LEMMA OneWay ==
    ASSUME NEW w \in Nat \ {0}, NEW q \in Int, NEW r \in Nat, r < w,
           NEW p \in Int, NEW s \in Nat, s < w, w * q + r = w * p + s
    PROVE  q = p /\ r = s
<1>1. /\ w * q \in Int /\ w * p \in Int
      /\ w * (q + 1) = w * q + w /\ w * (p + 1) = w * p + w
  BY SMTT(30)
<1>2. ~(q + 1 <= p)
  <2>1. q + 1 <= p => w * (q + 1) <= w * p
    BY TimesGrows
  <2> QED
    BY <1>1, <2>1
<1>3. ~(p + 1 <= q)
  <2>1. p + 1 <= q => w * (p + 1) <= w * q
    BY TimesGrows
  <2> QED
    BY <1>1, <2>1
<1>4. q = p
  BY <1>2, <1>3
<1> QED
  BY <1>1, <1>4

(* So the rest is known by it.                                             *)
LEMMA RestIs ==
    ASSUME NEW w \in Nat \ {0}, NEW c \in Nat, NEW q \in Int, NEW r \in Nat, r < w,
           c = w * q + r
    PROVE  c \div w = q /\ c % w = r
<1>1. PICK p \in Nat, s \in Nat : p = c \div w /\ s = c % w /\ s < w /\ c = w * p + s
  BY WordsAndRest
<1>2. q = p /\ r = s
  <2>1. s < w /\ w * q + r = w * p + s
    BY <1>1
  <2> QED
    BY <2>1, OneWay
<1> QED
  BY <1>1, <1>2

(* Of a number below the word nothing is cut.                              *)
LEMMA RestOfLess ==
    ASSUME NEW w \in Nat \ {0}, NEW c \in Nat, c < w
    PROVE  c % w = c
<1>1. c = w * 0 + c
  BY SMTT(30)
<1> QED
  BY <1>1, RestIs

(* A quotient is below a number if what was divided is below their product.*)
LEMMA QuotientBelow ==
    ASSUME NEW x \in Nat, NEW a \in Nat \ {0}, NEW n \in Nat
    PROVE  /\ x \div a \in Nat
           /\ x \div a < n <=> x < a * n
<1>1. PICK q \in Nat, r \in Nat : q = x \div a /\ r = x % a /\ r < a /\ x = a * q + r
  BY WordsAndRest
<1>2. /\ a * q \in Int /\ a * n \in Int /\ a * (q + 1) = a * q + a
      /\ q + 1 <= n => a * (q + 1) <= a * n
      /\ n <= q => a * n <= a * q
  BY TimesGrows, SMTT(30)
<1>3. x = a * q + r /\ r < a
  BY <1>1
<1>4. q < n <=> x < a * n
  BY <1>2, <1>3
<1> QED
  BY <1>1, <1>4

(* Between two numbers of the same word all are of that word.              *)
LEMMA SameWord ==
    ASSUME NEW w \in Nat \ {0}, NEW a \in Nat, NEW b \in Nat, NEW c \in Nat,
           a <= b, b <= c, a \div w = c \div w
    PROVE  a \div w = b \div w /\ (b % w) - (a % w) = b - a
<1>1. PICK q \in Nat, r \in Nat : q = a \div w /\ r = a % w /\ r < w /\ a = w * q + r
  BY WordsAndRest
<1>2. PICK p \in Nat, s \in Nat : p = c \div w /\ s = c % w /\ s < w /\ c = w * p + s
  BY WordsAndRest
<1>3. p = q
  BY <1>1, <1>2
<1>4. PICK v \in Int : v = w * q
  BY SMTT(30)
<1>5. a = v + r /\ c = v + s /\ s < w
  BY <1>1, <1>2, <1>3, <1>4
<1>6. PICK e \in Nat : b = v + e /\ e < w
  <2>1. b - v \in Nat /\ b - v < w /\ b = v + (b - v)
    BY <1>5
  <2> QED
    BY <2>1
<1>7. b = w * q + e
  BY <1>4, <1>6
<1>8. b \div w = q /\ b % w = e
  BY <1>6, <1>7, RestIs
<1>9. e - r = b - a
  BY <1>4, <1>5, <1>6
<1> QED
  BY <1>1, <1>8, <1>9
-----------------------------------------------------------------------------
(* How far what the function reads counts.                                 *)
Width == IF func = "usleep" \/ hpet_width = 32 THEN U32 ELSE U64

TimerTypes ==
    /\ {count, time0, elapsed, begin} \subseteq Nat
    /\ hpet_width \in {32, 64} /\ func \in {"nsleep", "usleep"}
    /\ pc \in {"idle", "sleep"} /\ request \in Nat
    /\ pc = "sleep" => request \in Requests /\ begin <= count

(* What was added up is what passed up to the last poll, not longer than   *)
(* MaxStep ago, and the time was not over then.                            *)
AddsUp ==
    pc = "sleep" /\ ~Wrapped =>
        /\ begin + elapsed <= count /\ count <= begin + elapsed + MaxStep
        /\ time0 = (begin + elapsed) % Width
        /\ elapsed * period <= Asked

TimerIInv == TimerTypes /\ AddsUp

(* What is left of a number is the same by a part of the word.             *)
LEMMA RestOfRest ==
    ASSUME NEW u \in Nat \ {0}, NEW w \in Nat \ {0}, u % w = 0, NEW c \in Nat
    PROVE  (c % u) % w = c % w
<1>1. PICK q \in Nat, r \in Nat : q = c \div u /\ r = c % u /\ r < u /\ c = u * q + r
  BY WordsAndRest
<1>2. PICK k \in Nat, z \in Nat : k = u \div w /\ z = u % w /\ z < w /\ u = w * k + z
  BY WordsAndRest
<1>3. PICK m \in Nat, s \in Nat : m = r \div w /\ s = r % w /\ s < w /\ r = w * m + s
  BY WordsAndRest
<1>4. c = u * q + r /\ u = w * k /\ r = w * m + s
  BY <1>1, <1>2, <1>3, SMTT(30)
<1>5. c = w * (k * q + m) + s /\ k * q + m \in Int
  BY <1>4, SMTT(30)
<1>6. PICK p \in Int : p = k * q + m
  BY <1>5
<1>7. s < w /\ c = w * p + s
  BY <1>3, <1>5, <1>6
<1>8. c % w = s
  BY <1>7, RestIs
<1> QED
  BY <1>1, <1>3, <1>8

(* What a function reads of the counter is the rest by its width.          *)
LEMMA NowReads ==
    ASSUME count \in Nat, hpet_width \in {32, 64}, NEW f \in {"nsleep", "usleep"}
    PROVE  now(f) = count % (IF f = "usleep" \/ hpet_width = 32 THEN U32 ELSE U64)
<1>1. U32 \in Nat \ {0} /\ U64 \in Nat \ {0} /\ U32 <= U64 /\ U64 % U32 = 0
  BY TimerAssumption
<1>2. /\ count % U32 \in Nat /\ count % U32 < U32
      /\ count % U64 \in Nat /\ count % U64 < U64
  BY <1>1, WordsAndRest
<1>3. CASE hpet_width = 32
  <2>1. now(f) = (count % U32) % Word(f) /\ Word(f) \in {U32, U64}
    BY <1>3 DEF now, hpet_get_count, Word
  <2>2. (count % U32) % U32 = count % U32
    BY <1>1, <1>2, RestOfLess
  <2>3. (count % U32) % U64 = count % U32
    <3>1. count % U32 < U64
      BY <1>1, <1>2
    <3> QED
      BY <1>1, <1>2, <3>1, RestOfLess
  <2> QED
    BY <1>3, <2>1, <2>2, <2>3
<1>4. CASE hpet_width = 64
  <2>1. now(f) = (count % U64) % Word(f)
    BY <1>4 DEF now, hpet_get_count
  <2>2. CASE f = "nsleep"
    BY <1>1, <1>2, <1>4, <2>1, <2>2, RestOfLess DEF Word
  <2>3. CASE f = "usleep"
    <3>1. (count % U64) % U32 = count % U32
      BY <1>1, RestOfRest
    <3> QED
      BY <2>1, <2>3, <3>1 DEF Word
  <2> QED
    BY <2>2, <2>3
<1> QED
  BY <1>3, <1>4

(* The test of the loops is that of the exact time, where the conversion's *)
(* product fits its word.                                                  *)
LEMMA TestIsExact ==
    ASSUME NEW e \in Nat, e * period < U64, request \in Nat,
           func \in {"nsleep", "usleep"}
    PROVE  ConvertedElapsed(func, e) < request <=> e * period < Asked
<1>1. PICK x \in Nat : x = e * period
  BY TimerAssumption, SMTT(30)
<1>2. PICK a \in Nat \ {0} : a = FsecPerNsec
  BY TimerAssumption
<1>3. PICK b \in Nat \ {0} : b = NsecPerUsec
  BY TimerAssumption
<1>4. hpet_convert_to_nsec(e) = x \div a
  <2>1. x % U64 = x
    BY <1>1, TimerAssumption, RestOfLess
  <2> QED
    BY <1>1, <1>2, <2>1 DEF hpet_convert_to_nsec
<1>5. x \div a \in Nat
  BY QuotientBelow
<1>6. CASE func = "nsleep"
  <2>1. x \div a < request <=> x < a * request
    BY QuotientBelow
  <2>2. Asked = a * request
    BY <1>2, <1>6, SMTT(30) DEF Asked
  <2> QED
    BY <1>1, <1>4, <1>6, <2>1, <2>2 DEF ConvertedElapsed
<1>7. CASE func = "usleep"
  <2>1. PICK y \in Nat : y = x \div a
    BY <1>5
  <2>2. y \div b < request <=> y < b * request
    BY QuotientBelow
  <2>3. PICK z \in Nat : z = b * request
    BY SMTT(30)
  <2>4. y < z <=> x < a * z
    BY <2>1, QuotientBelow
  <2>5. Asked = a * z
    BY <1>2, <1>3, <1>7, <2>3, SMTT(30) DEF Asked
  <2> QED
    BY <1>1, <1>3, <1>4, <1>7, <2>1, <2>2, <2>3, <2>4, <2>5 DEF ConvertedElapsed
<1> QED
  BY <1>6, <1>7

(* A poll makes the sum the time that passed, and ends the loop if that is *)
(* long enough.                                                            *)
LEMMA PollIsExact ==
    ASSUME TimerIInv, poll, ~Wrapped
    PROVE  /\ elapsed' = count - begin
           /\ pc' = "idle" <=> LongEnough
           /\ pc' = "sleep" <=> ~LongEnough
           /\ time0' = count % Width
<1>1. /\ {count, time0, elapsed, begin} \subseteq Nat /\ begin <= count
      /\ hpet_width \in {32, 64} /\ func \in {"nsleep", "usleep"}
      /\ request \in Requests /\ request \in Nat
      /\ begin + elapsed <= count /\ count <= begin + elapsed + MaxStep
      /\ time0 = (begin + elapsed) % Width
      /\ elapsed * period <= Asked
  BY DEF TimerIInv, TimerTypes, AddsUp, poll
<1>2. PICK w \in Nat \ {0} : w = Width
  BY TimerAssumption DEF Width
<1>3. now(func) = count % w
  BY <1>1, <1>2, NowReads DEF Width
<1>4. PICK l \in Nat : l = begin + elapsed
  BY <1>1
<1>5. begin \div w = count \div w
  BY <1>2 DEF Wrapped, Width
<1>6. begin <= l /\ l <= count
  BY <1>1, <1>4
<1>7. begin \div w = l \div w
  BY <1>1, <1>5, <1>6, SameWord
<1>8. (count % w) - (l % w) = count - l
  <2>1. l \div w = count \div w /\ count <= count
    BY <1>1, <1>5, <1>7
  <2> QED
    BY <1>1, <1>6, <2>1, SameWord
<1>9. Increment(func, now(func)) = count - l
  <2>1. count % w \in Nat /\ l % w \in Nat
    BY <1>1, WordsAndRest
  <2>2. time0 = l % w
    BY <1>1, <1>2, <1>4
  <2>3. ~(count % w < l % w)
    BY <1>1, <1>6, <1>8, <2>1
  <2> QED
    BY <1>3, <1>8, <2>2, <2>3 DEF Increment
<1>10. PICK d \in Nat : d = count - begin
  BY <1>1
<1>11. d * period < U64
  <2>1. PICK m \in Nat : m = MaxStep * period
    BY TimerAssumption, SMTT(30)
  <2>2. period \in Nat \ {0} /\ MaxStep \in Nat /\ U64 \in Nat
    BY TimerAssumption
  <2>3. d <= elapsed + MaxStep
    BY <1>1, <1>10, <2>2
  <2>4. period * d <= period * (elapsed + MaxStep)
    BY <1>1, <2>2, <2>3, TimesGrows
  <2>5. d * period <= elapsed * period + m
    BY <1>1, <2>1, <2>2, <2>4, SMTT(30)
  <2>6. Asked <= request * FsecPerNsec * NsecPerUsec
    <3>1. PICK a \in Nat : a = request * FsecPerNsec
      BY <1>1, TimerAssumption, SMTT(30)
    <3>2. NsecPerUsec \in Nat /\ 1 <= NsecPerUsec
      BY TimerAssumption
    <3>3. a * 1 <= a * NsecPerUsec
      BY <3>2, TimesGrows
    <3>4. a * NsecPerUsec \in Nat
      BY <3>2, SMTT(30)
    <3> QED
      BY <3>1, <3>3, <3>4 DEF Asked
  <2>7. request * FsecPerNsec * NsecPerUsec + m < U64
    BY <1>1, <2>1, TimerAssumption
  <2>8. PICK x \in Nat : x = request * FsecPerNsec * NsecPerUsec
    BY <1>1, TimerAssumption, SMTT(30)
  <2>9. PICK y \in Nat : y = elapsed * period
    BY <1>1, <2>2, SMTT(30)
  <2>10. PICK z \in Nat : z = d * period
    BY <2>2, SMTT(30)
  <2>11. PICK a \in Nat : a = Asked
    <3>1. request * FsecPerNsec \in Nat /\ NsecPerUsec \in Nat
      BY <1>1, TimerAssumption, SMTT(30)
    <3> QED
      BY <3>1, SMTT(30) DEF Asked
  <2>12. z <= y + m /\ y <= a /\ a <= x /\ x + m < U64
    BY <1>1, <2>5, <2>6, <2>7, <2>8, <2>9, <2>10, <2>11
  <2> QED
    BY <2>2, <2>10, <2>12
<1>12. d < U64
  <2>1. period \in Nat /\ 1 <= period /\ U64 \in Nat
    BY TimerAssumption
  <2>2. d * 1 <= d * period
    BY <2>1, TimesGrows
  <2>3. PICK z \in Nat : z = d * period
    BY <2>1, SMTT(30)
  <2> QED
    BY <1>11, <2>1, <2>2, <2>3
<1>13. elapsed' = d
  <2>1. elapsed' = (elapsed + (count - l)) % U64
    BY <1>9 DEF poll
  <2>2. elapsed + (count - l) = d
    BY <1>1, <1>4, <1>10
  <2> QED
    BY <1>12, <2>1, <2>2, RestOfLess, TimerAssumption
<1>14. ConvertedElapsed(func, d) < request <=> d * period < Asked
  BY <1>1, <1>11, TestIsExact
<1>15. LongEnough <=> ~(d * period < Asked)
  <2>1. PICK z \in Nat : z = d * period
    BY TimerAssumption, SMTT(30)
  <2>2. PICK a \in Nat : a = Asked
    <3>1. request * FsecPerNsec \in Nat /\ NsecPerUsec \in Nat
      BY <1>1, TimerAssumption, SMTT(30)
    <3> QED
      BY <3>1, SMTT(30) DEF Asked
  <2> QED
    BY <1>10, <2>1, <2>2 DEF LongEnough
<1>16. pc' = IF ConvertedElapsed(func, elapsed') < request THEN "sleep" ELSE "idle"
  BY DEF poll
<1>17. time0' = count % Width
  BY <1>2, <1>3 DEF poll
<1> QED
  BY <1>10, <1>13, <1>14, <1>15, <1>16, <1>17

(* What is asked for and what a function reads are numbers.                *)
LEMMA NumbersRead ==
    ASSUME count \in Nat, request \in Nat, hpet_width \in {32, 64},
           func \in {"nsleep", "usleep"}
    PROVE  Asked \in Nat /\ now(func) \in Nat /\ Width \in Nat \ {0}
<1>1. Asked \in Nat
  <2>1. request * FsecPerNsec \in Nat /\ NsecPerUsec \in Nat
    BY TimerAssumption, SMTT(30)
  <2> QED
    BY <2>1, SMTT(30) DEF Asked
<1>2. Width \in Nat \ {0}
  BY TimerAssumption DEF Width
<1>3. count % Width \in Nat
  BY <1>2, WordsAndRest
<1>4. now(func) = count % Width
  BY NowReads DEF Width
<1> QED
  BY <1>1, <1>2, <1>3, <1>4

LEMMA TimerIInvInit == TimerInit => TimerIInv
BY DEF TimerInit, TimerIInv, TimerTypes, AddsUp

(* A sleep begins with nothing added up.                                   *)
LEMMA SleepKeeps ==
    ASSUME TimerIInv, NEW f \in {"nsleep", "usleep"}, NEW n \in Requests, sleep(f, n)
    PROVE  TimerIInv'
<1>1. /\ count \in Nat /\ hpet_width \in {32, 64} /\ n \in Nat
      /\ count' = count /\ hpet_width' = hpet_width
      /\ pc' = "sleep" /\ func' = f /\ request' = n
      /\ elapsed' = 0 /\ time0' = now(f) /\ begin' = count
  BY TimerAssumption DEF TimerIInv, TimerTypes, sleep
<1>2. Width' \in Nat \ {0} /\ now(f) = count % Width'
  BY <1>1, NowReads, TimerAssumption DEF Width
<1>3. time0' \in Nat
  <2>1. PICK w \in Nat \ {0} : w = Width'
    BY <1>2
  <2>2. count % w \in Nat
    BY <1>1, WordsAndRest
  <2> QED
    BY <1>1, <1>2, <2>1, <2>2
<1>4. TimerTypes'
  BY <1>1, <1>3 DEF TimerTypes
<1>5. Asked' \in Nat
  <2>1. n * FsecPerNsec \in Nat /\ NsecPerUsec \in Nat
    BY <1>1, TimerAssumption, SMTT(30)
  <2>2. n * FsecPerNsec * NsecPerUsec \in Nat
    BY <2>1, SMTT(30)
  <2> QED
    BY <1>1, <2>1, <2>2 DEF Asked
<1>6. AddsUp'
  <2>1. begin' + elapsed' = count /\ MaxStep \in Nat
    BY <1>1, TimerAssumption
  <2>2. elapsed' * period = 0
    BY <1>1, TimerAssumption, SMTT(30)
  <2>3. time0' = (begin' + elapsed') % Width'
    BY <1>1, <1>2, <2>1
  <2> QED
    BY <1>1, <1>5, <2>1, <2>2, <2>3 DEF AddsUp
<1> QED
  BY <1>4, <1>6 DEF TimerIInv

(* A poll adds up what passed since the one before.                        *)
LEMMA PollKeeps ==
    ASSUME TimerIInv, poll
    PROVE  TimerIInv'
<1>1. /\ {count, time0, elapsed, begin} \subseteq Nat /\ begin <= count
      /\ hpet_width \in {32, 64} /\ func \in {"nsleep", "usleep"}
      /\ request \in Requests /\ request \in Nat
  BY DEF TimerIInv, TimerTypes, poll
<1>2. /\ count' = count /\ hpet_width' = hpet_width /\ func' = func
      /\ request' = request /\ begin' = begin /\ time0' = now(func)
      /\ pc' \in {"sleep", "idle"}
  BY DEF poll
<1>3. now(func) \in Nat /\ Asked \in Nat
  BY <1>1, NumbersRead
<1>4. elapsed' \in Nat
  <2>1. Word(func) \in Nat \ {0} /\ U64 \in Nat \ {0}
    BY TimerAssumption DEF Word
  <2>2. Increment(func, now(func)) \in Int
    <3>1. Shifted - now(func) \in Int
      BY <1>3 DEF Shifted
    <3>2. (Shifted - now(func)) % Word(func) \in Int
      BY <2>1, <3>1
    <3> QED
      BY <1>1, <1>3, <3>2 DEF Increment
  <2>3. elapsed + Increment(func, now(func)) \in Int
    BY <1>1, <2>2
  <2>4. elapsed' = (elapsed + Increment(func, now(func))) % U64
    BY DEF poll
  <2> QED
    BY <2>1, <2>3, <2>4
<1>5. TimerTypes'
  BY <1>1, <1>2, <1>3, <1>4 DEF TimerTypes
<1>6. AddsUp'
  <2>1. SUFFICES ASSUME pc' = "sleep", ~Wrapped' PROVE AddsUp'
    BY DEF AddsUp
  <2>2. ~Wrapped /\ Width' = Width /\ Asked' = Asked
    BY <1>2, <2>1 DEF Wrapped, Width, Asked
  <2>3. elapsed' = count - begin /\ ~LongEnough /\ time0' = count % Width
    BY <2>1, <2>2, PollIsExact
  <2>4. begin' + elapsed' = count /\ MaxStep \in Nat
    BY <1>1, <1>2, <2>3, TimerAssumption
  <2>5. elapsed' * period <= Asked
    <3>1. PICK z \in Nat : z = elapsed' * period
      BY <1>4, TimerAssumption, SMTT(30)
    <3>2. ~(elapsed' * period >= Asked)
      BY <2>3 DEF LongEnough
    <3> QED
      BY <1>3, <3>1, <3>2
  <2> QED
    BY <1>1, <1>2, <2>2, <2>3, <2>4, <2>5 DEF AddsUp
<1> QED
  BY <1>5, <1>6 DEF TimerIInv

(* The counter goes on by at most MaxStep from what was read.              *)
LEMMA TickKeeps ==
    ASSUME TimerIInv, NEW n \in 1 .. MaxStep, tick(n)
    PROVE  TimerIInv'
<1>1. /\ {count, time0, elapsed, begin} \subseteq Nat
      /\ hpet_width \in {32, 64} /\ func \in {"nsleep", "usleep"} /\ request \in Nat
  BY DEF TimerIInv, TimerTypes
<1>2. /\ count' = count + n /\ hpet_width' = hpet_width /\ func' = func /\ pc' = pc
      /\ request' = request /\ begin' = begin /\ time0' = time0 /\ elapsed' = elapsed
      /\ pc = "sleep" => time0 = now(func)
  BY DEF tick, locals
<1>3. n \in Nat /\ MaxStep \in Nat /\ n <= MaxStep
  BY TimerAssumption
<1>4. TimerTypes'
  BY <1>1, <1>2, <1>3 DEF TimerIInv, TimerTypes
<1>5. AddsUp'
  <2>1. SUFFICES ASSUME pc = "sleep", ~Wrapped' PROVE AddsUp'
    BY <1>2 DEF AddsUp
  <2>2. Width' = Width /\ Asked' = Asked
    BY <1>2 DEF Width, Asked
  <2>3. PICK w \in Nat \ {0} : w = Width
    BY <1>1, NumbersRead
  <2>4. begin \div w = (count + n) \div w
    BY <1>2, <2>1, <2>3 DEF Wrapped, Width
  <2>5. begin <= count /\ count <= count + n /\ count + n \in Nat
    BY <1>1, <1>3, <2>1 DEF TimerIInv, TimerTypes
  <2>6. begin \div w = count \div w
    BY <1>1, <2>4, <2>5, SameWord
  <2>7. ~Wrapped
    BY <2>3, <2>6 DEF Wrapped, Width
  <2>8. /\ begin + elapsed <= count
        /\ time0 = (begin + elapsed) % w
        /\ elapsed * period <= Asked
    BY <2>1, <2>3, <2>7 DEF TimerIInv, AddsUp
  <2>9. PICK l \in Nat : l = begin + elapsed
    BY <1>1
  <2>10. begin <= l /\ l <= count
    BY <1>1, <2>8, <2>9
  <2>11. begin \div w = l \div w
    BY <1>1, <2>6, <2>10, SameWord
  <2>12. (count % w) - (l % w) = count - l
    <3>1. l \div w = count \div w /\ count <= count
      BY <1>1, <2>6, <2>11
    <3> QED
      BY <1>1, <2>10, <3>1, SameWord
  <2>13. l = count
    <3>1. now(func) = count % w
      BY <1>1, <2>3, NowReads DEF Width
    <3>2. time0 = count % w /\ time0 = l % w
      BY <1>2, <2>1, <2>8, <2>9, <3>1
    <3> QED
      BY <1>1, <2>12, <3>2
  <2>14. begin + elapsed <= count + n /\ count + n <= begin + elapsed + MaxStep
    BY <1>1, <1>3, <2>9, <2>13
  <2> QED
    BY <1>2, <2>2, <2>3, <2>8, <2>14 DEF AddsUp
<1> QED
  BY <1>4, <1>5 DEF TimerIInv

LEMMA TimerIInvStep == TimerIInv /\ [TimerNext]_vars => TimerIInv'
<1> SUFFICES ASSUME TimerIInv, [TimerNext]_vars PROVE TimerIInv'
  OBVIOUS
<1>1. ASSUME NEW n \in Requests, nsleep(n) \/ usleep(n) PROVE TimerIInv'
  BY <1>1, SleepKeeps DEF nsleep, usleep
<1>2. CASE poll
  BY <1>2, PollKeeps
<1>3. ASSUME NEW n \in 1 .. MaxStep, tick(n) PROVE TimerIInv'
  BY <1>3, TickKeeps
<1>4. CASE UNCHANGED vars
  BY <1>4 DEF vars, locals, TimerIInv, TimerTypes, AddsUp, Wrapped, Width, Asked
<1> QED
  BY <1>1, <1>2, <1>3, <1>4 DEF TimerNext, followed
-----------------------------------------------------------------------------
(* While a function runs and what it reads did not go through zero, what   *)
(* it added up is what passed up to its last poll, at most MaxStep ago,    *)
(* and the time it was asked for was not over then.                        *)
THEOREM TimerInvariant == TimerSpec => []TimerIInv
BY TimerIInvInit, TimerIInvStep, PTL DEF TimerSpec

(* nsleep and usleep return at the first poll at which the time asked for  *)
(* is over, and not before, while what they read of the counter does not   *)
(* go through zero: however the ticks fall between the polls.              *)
THEOREM SleepsExactly == TimerSpec => SleepExact
<1>1. TimerIInv /\ [TimerNext]_vars
      => [pc = "sleep" /\ poll /\ ~Wrapped => (pc' = "idle" <=> LongEnough)]_vars
  BY PollIsExact
<1> QED
  BY <1>1, TimerInvariant, PTL DEF TimerSpec, SleepExact
=============================================================================

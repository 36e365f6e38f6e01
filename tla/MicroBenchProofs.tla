-------------------------- MODULE MicroBenchProofs --------------------------
(***************************************************************************)
(* The micro benchmarks, for any runs, lines and rounds of the lock        *)
(* hand-over and any jobs, threads and units of the pointer chases.        *)
(*                                                                         *)
(* Hand-over: the lock word tells who holds the round and how far the two  *)
(* threads are (HandoverInv); each line of the buffer holds the last round *)
(* that wrote it (LinesOK).                                                *)
(***************************************************************************)
EXTENDS MicroBench, PowersProofs, FiniteSetTheorems

-----------------------------------------------------------------------------
(* The lock hand-over                                                       *)

T1Inside == p1 \in {"stamp", "write", "release"}
T2Inside == p2 \in {"read", "sample", "release"}

\* Words 1 and 3 are held, 0 and 2 are free.
Holders ==
  /\ T1Inside <=> thread_lock = 1
  /\ T2Inside <=> thread_lock = 3

\* T1 is one round ahead from its CAS to the CAS of T2.
Pace ==
  /\ count = IF thread_lock \in {1, 2} THEN rounds + 1 ELSE rounds
  /\ thread_lock = 3 => rounds > 0

\* The stamp is that of the current round once T1 has taken it.
Stamped == (p1 \in {"write", "release"} \/ thread_lock \in {2, 3}) => start_tick = count

Counted == p1 = "done" => total_hold_lock_num = count

\* A thread that runs belongs to a run.
Running == p1 # "done" \/ p2 # "done" => run > 0

HandoverInv == HandoverTypeOK /\ Holders /\ Pace /\ Stamped /\ Counted /\ Running

\* The state before the first run.
LEMMA HandoverInitInv == HandoverInit => HandoverInv
<1> HAVE HandoverInit
<1>1. Len(Runs) \in Nat
  BY HandoverAssumption
<1> QED
  BY <1>1 DEF HandoverInit, HandoverInv, HandoverTypeOK, Holders, Pace, Stamped, Counted,
              Running, T1Inside, T2Inside

\* Every step of the main thread, T1 and T2 preserves the invariant.
LEMMA HandoverStepInv ==
  ASSUME HandoverInv, HandoverNext \/ UNCHANGED handoverVars
  PROVE  HandoverInv'
<1>0. Len(Runs) \in Nat
  BY HandoverAssumption
<1> USE DEF HandoverInv, HandoverTypeOK, Holders, Pace, Stamped, Counted, Running, T1Inside,
            T2Inside, shared, t1vars, t2vars
<1>1. CASE StartRun
  BY <1>0, <1>1 DEF StartRun
<1>2. CASE EndSleep
  BY <1>2 DEF EndSleep
<1>3. CASE Report
  BY <1>3 DEF Report
<1>4. CASE PassBarrier
  BY <1>4 DEF PassBarrier
<1>5. CASE T1Check
  BY <1>5 DEF T1Check
<1>6. CASE T1Acquire
  BY <1>6 DEF T1Acquire
<1>7. CASE T1Miss
  BY <1>7 DEF T1Miss
<1>8. CASE T1Stamp
  BY <1>8 DEF T1Stamp
<1>9. CASE T1Write
  BY <1>9 DEF T1Write
<1>10. CASE T1Release
  BY <1>10 DEF T1Release
<1>11. CASE T1Exit
  BY <1>11 DEF T1Exit
<1>12. CASE T2Check
  BY <1>12 DEF T2Check
<1>13. CASE T2Acquire
  BY <1>13 DEF T2Acquire
<1>14. CASE T2Miss
  BY <1>14 DEF T2Miss
<1>15. CASE T2Read
  BY <1>15 DEF T2Read
<1>16. CASE T2Sample
  BY <1>16 DEF T2Sample
<1>17. CASE T2Release
  BY <1>17 DEF T2Release
<1>18. CASE T2Exit
  BY <1>18 DEF T2Exit
<1>19. CASE UNCHANGED handoverVars
  BY <1>19 DEF handoverVars
<1> QED
  BY <1>1, <1>2, <1>3, <1>4, <1>5, <1>6, <1>7, <1>8, <1>9, <1>10, <1>11, <1>12, <1>13,
     <1>14, <1>15, <1>16, <1>17, <1>18, <1>19 DEF HandoverNext, Boss, T1, T2

-----------------------------------------------------------------------------
(* The lines of the buffer                                                  *)

\* How many lines T1 has written and T2 has passed in this run.
Writes == IF p1 \in {"stamp", "write"} THEN count - 1 ELSE count
Reads == IF p2 \in {"read", "sample"} THEN rounds - 1 ELSE rounds

\* The last of the rounds 1 .. n that wrote line l of m; round r writes line
\* (r - 1) % m + 1.
LastWriter(m, n, l) ==
  LET a == n % m
  IN  IF l <= a THEN n - a + l ELSE IF n - a > 0 THEN n - a - m + l ELSE 0

BufferAt(m, n, b) == b \in [1 .. m -> Nat] /\ \A l \in 1 .. m : b[l] = LastWriter(m, n, l)

LinesOK ==
  run > 0 =>
    /\ j1 = LINE * (Writes % LineNum(Wss))
    /\ j2 = LINE * (Reads % LineNum(Wss))
    /\ BufferAt(LineNum(Wss), Writes, lines)
    /\ ReadLag

\* Counting modulo the number of lines.
LEMMA ModNext ==
  ASSUME NEW n \in Nat, NEW m \in Nat \ {0}
  PROVE  /\ n % m \in 0 .. m - 1
         /\ n - (n % m) \in Nat /\ (n - (n % m) = 0 \/ n - (n % m) >= m)
         /\ (n + 1) % m = IF n % m = m - 1 THEN 0 ELSE (n % m) + 1
<1>1. PICK q \in Nat, r \in 0 .. m - 1 : n \div m = q /\ n % m = r /\ n = m * q + r
  BY DivMod
<1>2. n - r = m * q /\ m * q \in Nat
  BY <1>1
<1>3. q = 0 => m * q = 0
  OBVIOUS
<1>4. q >= 1 => m * q >= m
  OBVIOUS
<1>5. n - r = 0 \/ n - r >= m
  BY <1>2, <1>3, <1>4
<1>6. CASE r = m - 1
  <2>1. n + 1 = m * (q + 1) + 0
    BY <1>1, <1>6
  <2> QED
    BY <1>1, <1>2, <1>5, <1>6, <2>1, DivModUnique
<1>7. CASE r # m - 1
  <2>1. n + 1 = m * q + (r + 1) /\ r + 1 \in 0 .. m - 1
    BY <1>1, <1>7
  <2> QED
    <3>1. PICK e \in 0 .. m - 1 : e = r + 1
      BY <2>1
    <3>2. PICK k \in Nat : k = n + 1
      OBVIOUS
    <3>3. k = m * q + e
      BY <2>1, <3>1, <3>2
    <3>4. k % m = e
      BY <3>3, DivModUnique
    <3> QED
      BY <1>1, <1>2, <1>5, <1>7, <3>1, <3>2, <3>4
<1> QED
  BY <1>6, <1>7

\* A write goes to the line of its round.
LEMMA BufferWrite ==
  ASSUME NEW m \in Nat \ {0}, NEW n \in Nat, NEW b, BufferAt(m, n, b)
  PROVE  BufferAt(m, n + 1, [b EXCEPT ![(n % m) + 1] = n + 1])
<1>1. PICK a \in 0 .. m - 1 : a = n % m
  BY ModNext
<1>2. n - a \in Nat /\ (n - a = 0 \/ n - a >= m)
  BY <1>1, ModNext
<1>3. (n + 1) % m = IF a = m - 1 THEN 0 ELSE a + 1
  BY <1>1, ModNext
<1>4. \A l \in 1 .. m : b[l] = IF l <= a THEN n - a + l ELSE IF n - a > 0 THEN n - a - m + l ELSE 0
  BY <1>1 DEF BufferAt, LastWriter
<1>5. b \in [1 .. m -> Nat]
  BY DEF BufferAt
<1>6. PICK c : c = [b EXCEPT ![a + 1] = n + 1]
  OBVIOUS
<1>7. c \in [1 .. m -> Nat]
  BY <1>5, <1>6
<1>8. \A l \in 1 .. m : c[l] = IF l = a + 1 THEN n + 1 ELSE b[l]
  BY <1>5, <1>6
<1>9. ASSUME NEW l \in 1 .. m PROVE c[l] = LastWriter(m, n + 1, l)
  <2>1. CASE a = m - 1
    <3>1. LastWriter(m, n + 1, l) = n + 1 - m + l
      BY <1>2, <1>3, <2>1 DEF LastWriter
    <3> QED
      BY <1>4, <1>8, <2>1, <3>1
  <2>2. CASE a # m - 1
    <3>1. LastWriter(m, n + 1, l) =
            IF l <= a + 1 THEN n - a + l ELSE IF n - a > 0 THEN n - a - m + l ELSE 0
      BY <1>2, <1>3, <2>2 DEF LastWriter
    <3> QED
      BY <1>4, <1>8, <2>2, <3>1
  <2> QED
    BY <2>1, <2>2
<1> QED
  BY <1>1, <1>6, <1>7, <1>9 DEF BufferAt

\* Multiplication is monotonic.
LEMMA MulMono ==
  ASSUME NEW a \in Nat, NEW b \in Nat, NEW c \in Nat, a <= b
  PROVE  c * a <= c * b
<1>1. PICK d \in Nat : b = a + d
  <2>1. b - a \in Nat /\ b = a + (b - a)
    OBVIOUS
  <2> QED
    BY <2>1
<1>2. c * b = c * a + c * d /\ c * a \in Nat /\ c * d \in Nat
  BY <1>1
<1> QED
  BY <1>2

\* A call of run(wss, distance, ...).
IsCall(w, d) ==
  w \in Nat \ {0} /\ d \in Nat /\ w % LINE # 0 /\ (d + 1) * LINE <= w

\* The buffer has m - 1 whole lines and r bytes, and is longer than the lag.
Layout(w, d, m, r) == w = LINE * (m - 1) + r /\ r < LINE /\ d <= m - 2

\* Every call has such a buffer.
LEMMA BufferLayout ==
  ASSUME NEW w, NEW d, IsCall(w, d)
  PROVE  LineNum(w) \in Nat \ {0} /\ \E r \in Nat \ {0} : Layout(w, d, LineNum(w), r)
<1>0. LINE \in Nat \ {0} /\ w \in Nat \ {0} /\ d \in Nat
  BY HandoverAssumption DEF IsCall
<1>1. PICK q \in Nat, r \in 0 .. LINE - 1 : w \div LINE = q /\ w % LINE = r /\ w = LINE * q + r
  BY <1>0, DivMod
<1>2. LineNum(w) = q + 1 /\ r \in Nat \ {0} /\ r < LINE
  BY <1>0, <1>1 DEF LineNum, IsCall
<1>3. d + 1 <= q
  <2> SUFFICES ASSUME q < d + 1 PROVE FALSE
    BY <1>0
  <2>1. LINE * (q + 1) <= LINE * (d + 1)
    BY <1>0, MulMono
  <2>2. LINE * (q + 1) = LINE * q + LINE /\ LINE * (d + 1) = (d + 1) * LINE
    BY <1>0
  <2> QED
    BY <1>0, <1>1, <1>2, <2>1, <2>2 DEF IsCall
<1>4. Layout(w, d, LineNum(w), r)
  BY <1>0, <1>1, <1>2, <1>3 DEF Layout
<1> QED
  BY <1>2, <1>4

\* The offset goes through the lines in turn.
LEMMA AdvanceLine ==
  ASSUME NEW w, NEW d, IsCall(w, d), NEW a \in 0 .. LineNum(w) - 1
  PROVE  /\ (LINE * a) \div LINE = a
         /\ (IF LINE * a + LINE > w THEN 0 ELSE LINE * a + LINE)
              = LINE * (IF a = LineNum(w) - 1 THEN 0 ELSE a + 1)
<1>0. LINE \in Nat \ {0} /\ w \in Nat \ {0}
  BY HandoverAssumption DEF IsCall
<1>1. PICK m \in Nat \ {0}, r \in Nat \ {0} : m = LineNum(w) /\ Layout(w, d, m, r)
  BY BufferLayout
<1>2. (LINE * a) \div LINE = a
  BY <1>0, DivModUnique
<1>3. LINE * (a + 1) = LINE * a + LINE /\ LINE * a \in Nat /\ LINE * (m - 1) \in Nat
  BY <1>0, <1>1
<1>4. CASE a = m - 1
  <2>1. LINE * a + LINE > w
    BY <1>0, <1>1, <1>3, <1>4 DEF Layout
  <2>2. LINE * 0 = 0
    BY <1>0
  <2> QED
    BY <1>1, <1>2, <1>4, <2>1, <2>2
<1>5. CASE a # m - 1
  <2>1. a + 1 \in Nat /\ a + 1 <= m - 1 /\ m - 1 \in Nat
    BY <1>1, <1>5
  <2>2. LINE * (a + 1) <= LINE * (m - 1)
    BY <1>0, <2>1, MulMono
  <2> QED
    BY <1>0, <1>1, <1>2, <1>3, <1>5, <2>2 DEF Layout
<1> QED
  BY <1>4, <1>5

\* The line `distance' before line a, where the subtraction modulo wss skips
\* the incomplete line at the end of the buffer.
LEMMA ReadLine ==
  ASSUME NEW w, NEW d, IsCall(w, d), NEW a \in 0 .. LineNum(w) - 1
  PROVE  ((LINE * a + w - d * LINE) % w) \div LINE
           = IF a >= d THEN a - d ELSE a - d + LineNum(w) - 1
<1>0. LINE \in Nat \ {0} /\ w \in Nat \ {0} /\ d \in Nat
  BY HandoverAssumption DEF IsCall
<1>1. PICK m \in Nat \ {0}, r \in Nat \ {0} : m = LineNum(w) /\ Layout(w, d, m, r)
  BY BufferLayout
<1>2. d * LINE = LINE * d /\ LINE * d \in Nat /\ LINE * a \in Nat /\ LINE * (m - 1) \in Nat
  BY <1>0, <1>1
<1>3. CASE a >= d
  <2>1. PICK k \in Nat : k = a - d /\ k <= m - 1
    <3>1. a - d \in Nat /\ a - d <= m - 1
      BY <1>0, <1>1, <1>3
    <3> QED
      BY <3>1
  <2>2. LINE * a = LINE * k + LINE * d /\ LINE * k \in Nat
    BY <1>0, <2>1
  <2>3. LINE * k <= LINE * (m - 1)
    BY <1>0, <1>1, <2>1, MulMono
  <2>4. LINE * k < w
    BY <1>1, <1>2, <2>2, <2>3 DEF Layout
  <2>5. LINE * a + w - d * LINE = w * 1 + LINE * k
    BY <1>0, <1>2, <2>2
  <2>6. (w * 1 + LINE * k) % w = LINE * k
    <3>1. PICK e \in 0 .. w - 1 : e = LINE * k
      BY <1>0, <2>2, <2>4
    <3>2. PICK b \in Nat : b = w * 1 + e
      BY <1>0
    <3>3. b % w = e
      BY <1>0, <3>2, DivModUnique
    <3> QED
      BY <3>1, <3>2, <3>3
  <2>7. (LINE * k) \div LINE = k
    BY <1>0, <2>1, DivModUnique
  <2> QED
    BY <1>3, <2>1, <2>5, <2>6, <2>7
<1>4. CASE a < d
  <2>1. PICK k \in Nat : k = a - d + m - 1 /\ k <= m - 1
    <3>1. a - d + m - 1 \in Nat /\ a - d + m - 1 <= m - 1
      BY <1>0, <1>1, <1>4 DEF Layout
    <3> QED
      BY <3>1
  <2>2. LINE * (m - 1) + LINE * a = LINE * k + LINE * d /\ LINE * k \in Nat
    <3>1. (m - 1) + a = k + d
      BY <1>0, <1>1, <2>1
    <3>2. LINE * ((m - 1) + a) = LINE * (m - 1) + LINE * a /\ LINE * (k + d) = LINE * k + LINE * d
      BY <1>0, <1>1, <2>1
    <3> QED
      BY <1>0, <2>1, <3>1, <3>2
  <2>3. LINE * a + w - d * LINE = LINE * k + r
    BY <1>0, <1>1, <1>2, <2>2 DEF Layout
  <2>4. k + 1 <= m - 1
    BY <1>0, <1>1, <1>4, <2>1
  <2>5. LINE * (k + 1) <= LINE * (m - 1) /\ LINE * (k + 1) = LINE * k + LINE
    BY <1>0, <1>1, <2>1, <2>4, MulMono
  <2>6. LINE * k + r < w /\ LINE * k + r \in Nat
    BY <1>0, <1>1, <1>2, <2>2, <2>5 DEF Layout
  <2>7. (LINE * k + r) % w = LINE * k + r
    BY <1>0, <2>6
  <2>8. (LINE * k + r) \div LINE = k
    <3>1. PICK e \in 0 .. LINE - 1 : e = r
      BY <1>0, <1>1 DEF Layout
    <3>2. PICK b \in Nat : b = LINE * k + e
      BY <2>6, <3>1
    <3>3. b \div LINE = k
      BY <1>0, <3>2, DivModUnique
    <3> QED
      BY <3>1, <3>2, <3>3
  <2>9. ((LINE * a + w - d * LINE) % w) \div LINE = k
    BY <2>3, <2>7, <2>8
  <2>10. ~ a >= d
    BY <1>0, <1>4
  <2> QED
    BY <1>1, <2>1, <2>9, <2>10
<1> QED
  BY <1>0, <1>3, <1>4

\* What round n finds in the line that it reads.
LEMMA LagOfRound ==
  ASSUME NEW m \in Nat \ {0}, NEW d \in Nat, d <= m - 2, NEW n \in Nat \ {0}, NEW b,
         BufferAt(m, n, b), NEW a, a = (n - 1) % m
  PROVE  b[(IF a >= d THEN a - d ELSE a - d + m - 1) + 1]
           = LET lag == IF a >= d THEN d ELSE d + 1 IN IF n > lag THEN n - lag ELSE 0
<1>1. n - 1 \in Nat /\ (n - 1) + 1 = n
  OBVIOUS
<1>2. /\ a \in 0 .. m - 1
      /\ (n - 1) - a \in Nat /\ ((n - 1) - a = 0 \/ (n - 1) - a >= m)
      /\ n % m = IF a = m - 1 THEN 0 ELSE a + 1
  BY <1>1, ModNext
<1>3. PICK e \in 0 .. m - 1 : e = n % m /\ e = IF a = m - 1 THEN 0 ELSE a + 1
  BY <1>2
<1>4. \A l \in 1 .. m : b[l] = IF l <= e THEN n - e + l ELSE IF n - e > 0 THEN n - e - m + l ELSE 0
  BY <1>3 DEF BufferAt, LastWriter
<1>5. CASE a >= d
  <2>1. a - d + 1 \in 1 .. m
    BY <1>2, <1>5
  <2> QED
    BY <1>2, <1>3, <1>4, <1>5, <2>1
<1>6. CASE a < d
  <2>1. a - d + m - 1 + 1 \in 1 .. m
    BY <1>2, <1>6
  <2> QED
    BY <1>2, <1>3, <1>4, <1>6, <2>1
<1> QED
  BY <1>2, <1>5, <1>6

\* The calls of main().
LEMMA CallTypes ==
  \A r \in 1 .. Len(Runs) : Runs[r].wss \in Nat \ {0} /\ Runs[r].distance \in Nat
<1>1. PICK S : S = [wss : Nat \ {0}, distance : Nat, read : {"yes", "no"}]
  OBVIOUS
<1>2. Runs \in Seq(S)
  BY <1>1, HandoverAssumption
<1>3. \A r \in 1 .. Len(Runs) : Runs[r] \in S
  BY <1>2
<1> QED
  BY <1>1, <1>3

\* The run in progress is such a call.
LEMMA CallOfRun ==
  ASSUME HandoverInv, run > 0
  PROVE  IsCall(Wss, Distance)
<1>1. run \in 1 .. Len(Runs)
  BY HandoverAssumption DEF HandoverInv, HandoverTypeOK
<1> QED
  BY <1>1, CallTypes, RunsAssumption DEF IsCall, Wss, Distance

\* How far the threads are, in numbers.
LEMMA Progress ==
  ASSUME HandoverInv
  PROVE  /\ Writes \in Nat /\ Reads \in Nat
         /\ p1 = "write" => count = Writes + 1
         /\ p2 \in {"read", "sample"} => rounds = Reads + 1 /\ Writes = rounds
<1> QED
  BY DEF HandoverInv, HandoverTypeOK, Holders, Pace, T1Inside, T2Inside, Writes, Reads

\* A step that writes no line, reads none and moves no offset.
LEMMA LinesFrame ==
  ASSUME LinesOK, run' = run, lines' = lines, j1' = j1, j2' = j2,
         Writes' = Writes, Reads' = Reads,
         p2' = "sample" => p2 = "sample" /\ rounds' = rounds /\ seen' = seen
  PROVE  LinesOK'
<1>1. Wss' = Wss /\ LineNum(Wss)' = LineNum(Wss) /\ Distance' = Distance
  BY DEF Wss, Distance, LineNum
<1>2. run > 0 => ReadLag'
  <2> HAVE run > 0
  <2>1. ReadLag
    BY DEF LinesOK
  <2> QED
    BY <1>1, <2>1 DEF ReadLag
<1> QED
  BY <1>1, <1>2 DEF LinesOK

\* The buffer at the start of a run.
LEMMA LinesStart ==
  ASSUME HandoverInv, StartRun
  PROVE  LinesOK'
<1>0. HandoverInv'
  BY HandoverStepInv DEF HandoverNext, Boss
<1>1. run' > 0
  BY DEF StartRun, HandoverInv, HandoverTypeOK
<1>2. IsCall(Wss, Distance)'
  <2>1. run' \in 1 .. Len(Runs)
    BY <1>0, <1>1, HandoverAssumption DEF HandoverInv, HandoverTypeOK
  <2> QED
    BY <2>1, CallTypes, RunsAssumption DEF IsCall, Wss, Distance
<1>3. PICK m \in Nat \ {0} : m = LineNum(Wss')
  BY <1>2, BufferLayout
<1>4. LINE \in Nat /\ LINE * 0 = 0 /\ 0 % m = 0
  BY <1>3, HandoverAssumption
<1>5. Writes' = 0 /\ Reads' = 0
  BY DEF StartRun, Writes, Reads
<1>6. lines' = [l \in 1 .. m |-> 0]
  BY <1>3 DEF StartRun, Wss
<1>7. BufferAt(m, 0, lines')
  <2>1. \A l \in 1 .. m : LastWriter(m, 0, l) = 0
    BY <1>4 DEF LastWriter
  <2> QED
    BY <1>6, <2>1 DEF BufferAt
<1>8. ReadLag'
  BY DEF StartRun, ReadLag
<1>9. j1' = 0 /\ j2' = 0
  BY DEF StartRun
<1>10. LineNum(Wss)' = m
  BY <1>3 DEF LineNum
<1>11. j1' = LINE * (Writes' % m) /\ j2' = LINE * (Reads' % m)
  BY <1>4, <1>5, <1>9
<1>12. BufferAt(LineNum(Wss), Writes, lines)'
  BY <1>5, <1>7, <1>10 DEF BufferAt, LastWriter
<1> QED
  BY <1>8, <1>10, <1>11, <1>12 DEF LinesOK

\* T1 writes the line of its round.
LEMMA LinesWrite ==
  ASSUME HandoverInv, LinesOK, T1Write
  PROVE  LinesOK'
<1>0. run > 0 /\ run' = run
  BY DEF HandoverInv, Running, T1Write, shared
<1>1. PICK w : w = Wss
  OBVIOUS
<1>2. IsCall(w, Distance)
  BY <1>0, <1>1, CallOfRun
<1>3. PICK m \in Nat \ {0} : m = LineNum(w)
  BY <1>2, BufferLayout
<1>4. PICK n \in Nat : n = Writes
  BY Progress
<1>5. count = n + 1 /\ count \in Nat
  BY <1>4, Progress DEF T1Write, HandoverInv, HandoverTypeOK
<1>6. PICK a \in 0 .. m - 1 : a = n % m
  BY ModNext
<1>7. j1 = LINE * a /\ BufferAt(m, n, lines)
  BY <1>0, <1>1, <1>3, <1>4, <1>6 DEF LinesOK
<1>8. j1 \div LINE = a /\ Advance(j1) = LINE * (IF a = m - 1 THEN 0 ELSE a + 1)
  BY <1>1, <1>2, <1>3, <1>7, AdvanceLine DEF Advance
<1>9. (n + 1) % m = IF a = m - 1 THEN 0 ELSE a + 1
  BY <1>6, ModNext
<1>10. lines' = [lines EXCEPT ![(n % m) + 1] = n + 1]
  BY <1>5, <1>6, <1>8 DEF T1Write
<1>11. BufferAt(m, n + 1, lines')
  BY <1>7, <1>10, BufferWrite
<1>12. Writes' = n + 1 /\ Reads' = Reads /\ j2' = j2
  BY <1>5 DEF T1Write, Writes, Reads, shared, t2vars
<1>13. Wss' = w /\ LineNum(Wss)' = m /\ Distance' = Distance
  BY <1>0, <1>1, <1>3 DEF Wss, Distance, LineNum
<1>14. j1' = LINE * ((n + 1) % m)
  BY <1>8, <1>9 DEF T1Write
<1>15. ReadLag'
  <2>1. p2 # "sample" /\ p2' = p2
    BY DEF HandoverInv, HandoverTypeOK, Holders, T1Inside, T2Inside, T1Write, t2vars
  <2> QED
    BY <2>1 DEF ReadLag
<1>16. BufferAt(LineNum(Wss), Writes, lines)'
  BY <1>11, <1>12, <1>13 DEF BufferAt, LastWriter
<1>17. j1' = LINE * (Writes' % LineNum(Wss)') /\ j2' = LINE * (Reads' % LineNum(Wss)')
  BY <1>0, <1>1, <1>3, <1>12, <1>13, <1>14 DEF LinesOK
<1> QED
  BY <1>15, <1>16, <1>17 DEF LinesOK

\* T2 moves on to the next line.
LEMMA LinesSample ==
  ASSUME HandoverInv, LinesOK, T2Sample
  PROVE  LinesOK'
<1>0. run > 0 /\ run' = run
  BY DEF HandoverInv, Running, T2Sample, shared
<1>1. PICK w : w = Wss
  OBVIOUS
<1>2. IsCall(w, Distance)
  BY <1>0, <1>1, CallOfRun
<1>3. PICK m \in Nat \ {0} : m = LineNum(w)
  BY <1>2, BufferLayout
<1>4. PICK n \in Nat : n = Reads
  BY Progress
<1>5. rounds = n + 1
  BY <1>4, Progress DEF T2Sample
<1>6. PICK a \in 0 .. m - 1 : a = n % m
  BY ModNext
<1>7. j2 = LINE * a
  BY <1>0, <1>1, <1>3, <1>4, <1>6 DEF LinesOK
<1>8. Advance(j2) = LINE * (IF a = m - 1 THEN 0 ELSE a + 1)
  BY <1>1, <1>2, <1>3, <1>7, AdvanceLine DEF Advance
<1>9. (n + 1) % m = IF a = m - 1 THEN 0 ELSE a + 1
  BY <1>6, ModNext
<1>10. Reads' = n + 1 /\ Writes' = Writes /\ j1' = j1 /\ lines' = lines /\ p2' # "sample"
  BY <1>5 DEF T2Sample, Writes, Reads, shared, t1vars
<1>11. LineNum(Wss)' = m
  BY <1>0, <1>1, <1>3 DEF Wss, LineNum
<1>12. j2' = LINE * ((n + 1) % m)
  BY <1>8, <1>9 DEF T2Sample
<1>13. ReadLag'
  BY <1>10 DEF ReadLag
<1>14. BufferAt(LineNum(Wss), Writes, lines)'
  BY <1>0, <1>1, <1>3, <1>10, <1>11 DEF LinesOK, BufferAt, LastWriter
<1>15. j1' = LINE * (Writes' % LineNum(Wss)') /\ j2' = LINE * (Reads' % LineNum(Wss)')
  BY <1>0, <1>1, <1>3, <1>10, <1>11, <1>12 DEF LinesOK
<1> QED
  BY <1>13, <1>14, <1>15 DEF LinesOK

\* T2 reads the line `distance' behind.
LEMMA LinesRead ==
  ASSUME HandoverInv, LinesOK, T2Read
  PROVE  LinesOK'
<1>0. run > 0 /\ run' = run
  BY DEF HandoverInv, Running, T2Read, shared
<1>1. PICK w, d : w = Wss /\ d = Distance
  OBVIOUS
<1>2. IsCall(w, d) /\ d \in Nat
  BY <1>0, <1>1, CallOfRun DEF IsCall
<1>3. PICK m \in Nat \ {0} : m = LineNum(w) /\ d <= m - 2
  BY <1>2, BufferLayout DEF Layout
<1>4. PICK n \in Nat \ {0} : n = rounds /\ n = Writes /\ n - 1 = Reads
  BY Progress DEF T2Read, HandoverInv, HandoverTypeOK
<1>5. PICK a \in 0 .. m - 1 : a = (n - 1) % m
  BY ModNext
<1>6. j2 = LINE * a /\ BufferAt(m, n, lines)
  BY <1>0, <1>1, <1>3, <1>4, <1>5 DEF LinesOK
<1>7. ReadOffset \div LINE = IF a >= d THEN a - d ELSE a - d + m - 1
  BY <1>1, <1>2, <1>3, <1>6, ReadLine DEF ReadOffset
<1>8. lines[(ReadOffset \div LINE) + 1]
        = LET lag == IF a >= d THEN d ELSE d + 1 IN IF n > lag THEN n - lag ELSE 0
  BY <1>2, <1>3, <1>5, <1>6, <1>7, LagOfRound
<1>9. p2' = "sample" /\ rounds' = n /\ Wss' = w /\ Distance' = d /\ Runs[run'] = Runs[run]
  BY <1>0, <1>1, <1>4 DEF T2Read, Wss, Distance
<1>10. LineNum(Wss)' = m
  BY <1>3, <1>9 DEF LineNum
<1>11. ReadLag'
  <2> SUFFICES ASSUME Runs[run].read = "yes"
               PROVE  seen' = LET lag == IF a >= d THEN d ELSE d + 1
                              IN  IF n > lag THEN n - lag ELSE 0
    BY <1>5, <1>9, <1>10 DEF ReadLag
  <2> QED
    BY <1>8 DEF T2Read
<1>12. Writes' = Writes /\ Reads' = Reads /\ j1' = j1 /\ j2' = j2 /\ lines' = lines
  BY DEF T2Read, Writes, Reads, shared, t1vars
<1>13. LineNum(Wss)' = LineNum(Wss)
  BY <1>1, <1>3, <1>10
<1> QED
  BY <1>0, <1>11, <1>12, <1>13 DEF LinesOK

\* Every step keeps the offsets and the buffer.
LEMMA LinesStep ==
  ASSUME HandoverInv, LinesOK, HandoverNext \/ UNCHANGED handoverVars
  PROVE  LinesOK'
<1> USE DEF shared, t1vars, t2vars, Writes, Reads
<1>1. CASE StartRun
  BY <1>1, LinesStart
<1>2. CASE T1Write
  BY <1>2, LinesWrite
<1>3. CASE T2Read
  BY <1>3, LinesRead
<1>4. CASE T2Sample
  BY <1>4, LinesSample
<1>5. CASE EndSleep \/ Report
  BY <1>5, LinesFrame DEF EndSleep, Report
<1>6. CASE PassBarrier
  BY <1>6, LinesFrame DEF PassBarrier
<1>7. CASE T1Check \/ T1Miss \/ T1Exit
  BY <1>7, LinesFrame DEF T1Check, T1Miss, T1Exit
<1>8. CASE T1Acquire
  BY <1>8, LinesFrame DEF T1Acquire, HandoverInv, HandoverTypeOK
<1>9. CASE T1Stamp \/ T1Release
  BY <1>9, LinesFrame DEF T1Stamp, T1Release
<1>10. CASE T2Check \/ T2Miss \/ T2Exit
  BY <1>10, LinesFrame DEF T2Check, T2Miss, T2Exit
<1>11. CASE T2Acquire
  BY <1>11, LinesFrame DEF T2Acquire, HandoverInv, HandoverTypeOK
<1>12. CASE T2Release
  BY <1>12, LinesFrame DEF T2Release
<1>13. CASE UNCHANGED handoverVars
  BY <1>13, LinesFrame DEF handoverVars
<1> QED
  BY <1>1, <1>2, <1>3, <1>4, <1>5, <1>6, <1>7, <1>8, <1>9, <1>10, <1>11, <1>12, <1>13
     DEF HandoverNext, Boss, T1, T2

-----------------------------------------------------------------------------
(* The pointer chases: the main thread, the collector and the barrier       *)

Early == {"build", "claim", "create", "barrier"}
Passed == {"loop", "walk", "done"}
Units == 0 .. MaxSize - 1

ChaseTypes ==
  /\ func \in {"lat", "extreme", "tput"} /\ jobs \in Jobs[func] /\ job \in 0 .. Len(jobs)
  /\ main \in {"idle", "join", "exit", "fault", "wild"}
  /\ DOMAIN next = Units
  /\ job = 0 => main = "idle"
  /\ Workers = IF job = 0 THEN {} ELSE 0 .. Job.threads - 1
  /\ DOMAIN order = Workers /\ DOMAIN start = Workers /\ DOMAIN at = Workers
  /\ DOMAIN iter = Workers /\ DOMAIN hits = Workers /\ DOMAIN feedback = Workers
  /\ \A w \in Workers : wp[w] \in Early \cup Passed /\ iter[w] \in Nat

\* While a job runs: the collector exists, or one worker is about to create
\* it, or nobody has claimed that yet; behind the barrier it exists.
Spans ==
  /\ \A w \in Workers : wp[w] = "barrier" => measure = job \/ \E v \in Workers : wp[v] = "create"
  /\ \A w \in Workers : wp[w] \in Passed => measure = job /\ \A v \in Workers : wp[v] \in Passed
  /\ \A w \in Workers : wp[w] = "create" => measure = 0
  /\ (func = "lat" /\ lock = 0) => measure = 0 /\ \A w \in Workers : wp[w] \in {"build", "claim"}
  /\ (func = "lat" /\ lock # 0) => measure = job \/ \E v \in Workers : wp[v] = "create"
  /\ func = "tput" => measure = job /\ \A w \in Workers : wp[w] # "create"
  /\ func = "extreme" =>
       Workers = {0} /\ wp[0] # "claim" /\ (wp[0] = "build" => measure = 0)
  /\ func # "lat" => \A w \in Workers : wp[w] # "claim"

Collector ==
  /\ \A w \in Workers : wp[w] = "done" => feedback[w] = job
  /\ \A v, w \in Workers : wp[v] = "create" /\ wp[w] = "create" => v = w
  /\ main = "idle" => measure = 0 /\ \A w \in Workers : wp[w] = "done"
  /\ main # "idle" => Spans

\* What the jobs are.
LEMMA JobType ==
  ASSUME ChaseTypes, NEW k \in 1 .. Len(jobs)
  PROVE  /\ jobs[k].threads \in Nat \ {0} /\ jobs[k].wss \in Nat
         /\ func = "extreme" => jobs[k].threads = 1
<1>1. jobs \in Seq(JobSet)
  <2>1. Jobs[func] \subseteq Seq(JobSet)
    BY ChaseAssumption DEF ChaseTypes
  <2> QED
    BY <2>1 DEF ChaseTypes
<1>2. jobs[k] \in JobSet
  BY <1>1
<1>3. func = "extreme" => jobs[k].threads = 1
  BY ChaseAssumption DEF ChaseTypes
<1> QED
  BY <1>2, <1>3 DEF JobSet

\* Before the first job.
LEMMA ChaseInitTypes == ChaseInit => ChaseTypes /\ Collector
<1> HAVE ChaseInit
<1>1. DOMAIN <<>> = {}
  OBVIOUS
<1>2. func \in {"lat", "extreme", "tput"} /\ jobs \in Jobs[func]
  BY ChaseAssumption DEF ChaseInit
<1>3. Len(jobs) \in Nat
  <2>1. Jobs[func] \subseteq Seq(JobSet)
    BY <1>2, ChaseAssumption
  <2> QED
    BY <1>2, <2>1
<1>4. Workers = {}
  BY <1>1 DEF ChaseInit, Workers
<1>5. ChaseTypes
  BY <1>1, <1>2, <1>3, <1>4 DEF ChaseInit, ChaseTypes, Units
<1>6. Collector
  BY <1>4 DEF ChaseInit, Collector
<1> QED
  BY <1>5, <1>6

\* A job starts: every worker builds.
LEMMA SpawnTypes ==
  ASSUME ChaseTypes, job < Len(jobs), Spawn(jobs[job + 1]), main' \in {"join", "exit"}
  PROVE  /\ ChaseTypes' /\ job' = job + 1 /\ job' \in Nat
         /\ \A w \in Workers' : wp'[w] = "build"
         /\ func' = func /\ (func = "extreme" => Workers' = {0})
<1>0. Len(jobs) \in Nat /\ job \in Nat
  <2>1. Jobs[func] \subseteq Seq(JobSet)
    BY ChaseAssumption DEF ChaseTypes
  <2> QED
    BY <2>1 DEF ChaseTypes
<1>1. job + 1 \in 1 .. Len(jobs)
  BY <1>0
<1>2. jobs[job + 1].threads \in Nat \ {0} /\ (func = "extreme" => jobs[job + 1].threads = 1)
  BY <1>1, JobType
<1>3. job' = job + 1 /\ jobs' = jobs /\ func' = func /\ next' = next
  BY DEF Spawn
<1>4. Workers' = 0 .. jobs[job + 1].threads - 1 /\ Job' = jobs[job + 1]
  BY <1>3 DEF Workers, Job, Spawn, ForAllWorkers
<1>5. \A w \in Workers' : wp'[w] = "build" /\ iter'[w] = 0
  BY <1>4 DEF Spawn, ForAllWorkers
<1>6. /\ DOMAIN order' = Workers' /\ DOMAIN start' = Workers' /\ DOMAIN at' = Workers'
      /\ DOMAIN iter' = Workers' /\ DOMAIN hits' = Workers' /\ DOMAIN feedback' = Workers'
  BY <1>4 DEF Spawn, ForAllWorkers
<1>7. ChaseTypes'
  BY <1>0, <1>1, <1>3, <1>4, <1>5, <1>6 DEF ChaseTypes, Early
<1> QED
  BY <1>0, <1>2, <1>3, <1>4, <1>5, <1>7

\* Every step keeps the types.
LEMMA TypesStep ==
  ASSUME ChaseTypes, ChaseNext \/ UNCHANGED chaseVars
  PROVE  ChaseTypes'
<1>1. CASE StartLat \/ StartExtreme \/ StartTput
  BY <1>1, SpawnTypes DEF StartLat, StartExtreme, StartTput
<1> USE DEF ChaseTypes, Workers, Job, Early, Passed, walk
<1>2. CASE Join
  BY <1>2 DEF Join
<1>3. CASE Barrier
  BY <1>3 DEF Barrier
<1>4. ASSUME NEW w \in Workers, Worker(w) PROVE ChaseTypes'
  <2>1. CASE TooLarge(w) \/ OutOfBounds(w)
    BY <2>1 DEF TooLarge, OutOfBounds
  <2>2. CASE Build(w)
    BY <2>2 DEF Build
  <2>3. CASE Claim(w)
    BY <2>3 DEF Claim
  <2>4. CASE Create(w)
    BY <2>4 DEF Create
  <2>5. CASE BeginIteration(w)
    BY <2>5 DEF BeginIteration
  <2>6. CASE CalcStep(w)
    BY <2>6 DEF CalcStep
  <2>7. CASE LatStep(w)
    BY <2>7 DEF LatStep
  <2>8. CASE WalkStep(w)
    BY <2>8 DEF WalkStep
  <2>9. CASE Finish(w)
    BY <2>9 DEF Finish
  <2> QED
    BY <1>4, <2>1, <2>2, <2>3, <2>4, <2>5, <2>6, <2>7, <2>8, <2>9 DEF Worker
<1>5. CASE UNCHANGED chaseVars
  BY <1>5 DEF chaseVars
<1> QED
  BY <1>1, <1>2, <1>3, <1>4, <1>5 DEF ChaseNext, Main

\* Every step keeps the collector's span.
LEMMA CollectorStep ==
  ASSUME ChaseTypes, Collector, ChaseNext \/ UNCHANGED chaseVars
  PROVE  Collector'
<1>1. CASE StartLat \/ StartExtreme \/ StartTput
  <2>1. /\ main = "idle" /\ main' \in {"join", "exit"}
        /\ job < Len(jobs) /\ Spawn(jobs[job + 1])
    BY <1>1 DEF StartLat, StartExtreme, StartTput
  <2>2. measure = 0
    BY <2>1 DEF Collector
  <2>3. /\ job' = job + 1 /\ job' \in Nat
        /\ \A w \in Workers' : wp'[w] = "build"
        /\ func' = func /\ (func = "extreme" => Workers' = {0})
    BY <2>1, SpawnTypes
  <2>4. CASE StartLat
    BY <2>1, <2>2, <2>3, <2>4 DEF StartLat, Collector, Spans, Passed
  <2>5. CASE StartExtreme
    BY <2>1, <2>2, <2>3, <2>5 DEF StartExtreme, Collector, Spans, Passed
  <2>6. CASE StartTput
    BY <2>1, <2>2, <2>3, <2>6 DEF StartTput, Collector, Spans, Passed
  <2> QED
    BY <1>1, <2>4, <2>5, <2>6
<1>2. CASE Join
  BY <1>2 DEF Join, Collector, Workers
<1> USE DEF Workers, Early, Passed
<1>3. CASE Barrier
  <2>1. main = "join" /\ Spans
    BY <1>3 DEF Barrier, Collector
  <2>2. \E w \in Workers : TRUE
    <3>1. job # 0
      BY <2>1 DEF ChaseTypes
    <3>2. job \in 1 .. Len(jobs)
      BY <3>1 DEF ChaseTypes
    <3>3. 0 \in 0 .. Job.threads - 1
      BY <3>2, JobType DEF Job
    <3> QED
      BY <3>1, <3>3 DEF ChaseTypes
  <2>3. measure = job
    BY <1>3, <2>1, <2>2 DEF Barrier, Spans
  <2>4. Workers' = Workers /\ \A w \in Workers : wp'[w] = "loop"
    BY <1>3 DEF Barrier
  <2>5. (func = "lat" => lock # 0)
    BY <1>3, <2>1, <2>2 DEF Barrier, Spans
  <2>6. measure' = measure /\ job' = job /\ func' = func /\ lock' = lock /\ main' = main
    BY <1>3 DEF Barrier
  <2>7. Spans'
    BY <2>1, <2>3, <2>4, <2>5, <2>6 DEF Spans
  <2> QED
    BY <2>1, <2>4, <2>6, <2>7 DEF Collector
<1>4. ASSUME NEW w \in Workers, Worker(w) PROVE Collector'
  <2>0. main = "join" /\ Spans
    BY <1>4 DEF Worker, TooLarge, OutOfBounds, Build, Claim, Create, BeginIteration, CalcStep,
                LatStep, WalkStep, Finish, Collector
  <2>1. CASE TooLarge(w) \/ OutOfBounds(w)
    BY <2>0, <2>1 DEF TooLarge, OutOfBounds, Collector, Spans
  <2>2. CASE Build(w)
    BY <2>0, <2>2 DEF Build, Collector, Spans, ChaseTypes
  <2>3. CASE Claim(w)
    BY <2>0, <2>3 DEF Claim, Collector, Spans
  <2>4. CASE Create(w)
    BY <2>0, <2>4 DEF Create, Collector, Spans
  <2>5. CASE BeginIteration(w)
    BY <2>0, <2>5 DEF BeginIteration, Collector, Spans
  <2>6. CASE CalcStep(w)
    BY <2>0, <2>6 DEF CalcStep, Collector, Spans
  <2>7. CASE LatStep(w)
    BY <2>0, <2>7 DEF LatStep, Collector, Spans
  <2>8. CASE WalkStep(w)
    BY <2>0, <2>8 DEF WalkStep, Collector, Spans
  <2>9. CASE Finish(w)
    BY <2>0, <2>9 DEF Finish, Collector, Spans, ChaseTypes
  <2> QED
    BY <1>4, <2>1, <2>2, <2>3, <2>4, <2>5, <2>6, <2>7, <2>8, <2>9 DEF Worker
<1>5. CASE UNCHANGED chaseVars
  BY <1>5 DEF chaseVars, walk, Collector, Spans
<1> QED
  BY <1>1, <1>2, <1>3, <1>4, <1>5 DEF ChaseNext, Main

\* The span of the collector, and its uniqueness.
LEMMA CollectorSpans ==
  ASSUME ChaseTypes, Collector
  PROVE  MeasureSpans
<1>1. \A w \in Workers : wp[w] \in {"loop", "walk", "done"} => measure = job \/ main # "join"
  BY DEF Collector, Spans, Passed
<1>2. \A w \in Workers : wp[w] = "create" => measure = 0
  BY DEF Collector, Spans
<1>3. Cardinality({w \in Workers : wp[w] = "create"}) <= 1
  <2>1. CASE \E w \in Workers : wp[w] = "create"
    <3>1. PICK w \in Workers : wp[w] = "create"
      BY <2>1
    <3>2. {v \in Workers : wp[v] = "create"} = {w}
      BY <3>1 DEF Collector
    <3>3. Cardinality({w}) = 1
      BY FS_Singleton
    <3> QED
      BY <3>2, <3>3
  <2>2. CASE ~ \E w \in Workers : wp[w] = "create"
    <3>1. {v \in Workers : wp[v] = "create"} = {}
      BY <2>2
    <3>2. Cardinality({}) = 0
      BY FS_EmptySet
    <3> QED
      BY <3>1, <3>2
  <2> QED
    BY <2>1, <2>2
<1>4. main = "idle" => measure = 0 /\ \A w \in Workers : feedback[w] = job
  BY DEF Collector
<1> QED
  BY <1>1, <1>2, <1>3, <1>4 DEF MeasureSpans

-----------------------------------------------------------------------------
(* The pointer chases: orders, cycles and what a walk has accessed          *)

IsOrder(o, n) ==
  o \in [0 .. n - 1 -> 0 .. n - 1] /\ \A i, j \in 0 .. n - 1 : o[i] = o[j] => i = j

\* The position that follows p on the cycle.
After(p, n) == IF p = n - 1 THEN 0 ELSE p + 1

\* The positions from s up to p, without p; access_lat leaves out s as well
\* and ends where it starts.
HalfArc(s, p, n) == IF s <= p THEN s .. p - 1 ELSE (s .. n - 1) \cup (0 .. p - 1)
OpenArc(s, p, n) == IF s < p THEN s + 1 .. p - 1 ELSE (s + 1 .. n - 1) \cup (0 .. p - 1)

\* The accesses h are one to each unit at a position in Q, and no other.
Marked(h, b, o, Q) ==
  h \in [Units -> Nat] /\ \A u \in Units : h[u] = IF \E q \in Q : u = b + o[q] THEN 1 ELSE 0

\* Every unit has a position.
LEMMA OrderOnto ==
  ASSUME NEW n \in Nat \ {0}, NEW o, IsOrder(o, n), NEW u \in 0 .. n - 1
  PROVE  \E i \in 0 .. n - 1 : o[i] = u
<1> SUFFICES ASSUME \A i \in 0 .. n - 1 : o[i] # u PROVE FALSE
  OBVIOUS
<1>1. PICK S : S = 0 .. n - 1
  OBVIOUS
<1>2. IsFiniteSet(S) /\ Cardinality(S) = n
  BY <1>1, FS_Interval
<1>3. PICK T : T = S \ {u}
  OBVIOUS
<1>4. IsFiniteSet(T) /\ Cardinality(T) = n - 1
  <2>1. /\ IsFiniteSet(S \ {u})
        /\ Cardinality(S \ {u}) = IF u \in S THEN Cardinality(S) - 1 ELSE Cardinality(S)
    BY <1>2, FS_RemoveElement
  <2> QED
    BY <1>1, <1>2, <1>3, <2>1
<1>5. o \in [S -> T]
  BY <1>1, <1>3 DEF IsOrder
<1>6. \E x, y \in S : x # y /\ o[x] = o[y]
  BY <1>2, <1>4, <1>5, FS_PigeonHole
<1> QED
  BY <1>1, <1>6 DEF IsOrder

\* A unit has one position.
LEMMA OnePosition ==
  ASSUME NEW n \in Nat, NEW b \in Nat, NEW o, IsOrder(o, n),
         NEW p \in 0 .. n - 1, NEW q \in 0 .. n - 1, b + o[p] = b + o[q]
  PROVE  p = q
<1>1. o[p] \in Nat /\ o[q] \in Nat
  BY DEF IsOrder
<1>2. o[p] = o[q]
  BY <1>1
<1> QED
  BY <1>2 DEF IsOrder

\* Linking the units makes the cycle of the order.
LEMMA LinkCycle ==
  ASSUME NEW n \in Nat \ {0}, NEW o, IsOrder(o, n), NEW p \in 0 .. n - 1
  PROVE  o[p] \in 0 .. n - 1 /\ Link(o, n)[o[p]] = o[After(p, n)]
<1>1. o[p] \in 0 .. n - 1
  BY DEF IsOrder
<1>2. PICK x \in 0 .. n - 1 : x = o[p]
  BY <1>1
<1> DEFINE i == CHOOSE k \in 0 .. n - 1 : o[k] = x
<1>3. i = p
  BY <1>2 DEF IsOrder
<1>4. Link(o, n)[x] = IF i = n - 1 THEN o[0] ELSE o[i + 1]
  BY DEF Link
<1> HIDE DEF i
<1> QED
  BY <1>1, <1>2, <1>3, <1>4 DEF After

\* What one step adds to the positions.
LEMMA ArcStep ==
  ASSUME NEW n \in Nat \ {0}, NEW s \in 0 .. n - 1, NEW p \in 0 .. n - 1
  PROVE  /\ After(p, n) \in 0 .. n - 1
         /\ p \notin HalfArc(s, p, n) /\ HalfArc(s, p, n) \subseteq 0 .. n - 1
         /\ HalfArc(s, s, n) = {}
         /\ HalfArc(s, p, n) \cup {p}
              = IF After(p, n) = s THEN 0 .. n - 1 ELSE HalfArc(s, After(p, n), n)
         /\ p \notin OpenArc(s, p, n) /\ OpenArc(s, p, n) \subseteq 0 .. n - 1
         /\ OpenArc(s, After(s, n), n) = {}
         /\ OpenArc(s, s, n) = (0 .. n - 1) \ {s}
         /\ p # s => OpenArc(s, p, n) \cup {p} = OpenArc(s, After(p, n), n)
<1> USE DEF After
<1>1. After(p, n) \in 0 .. n - 1
  OBVIOUS
<1>2. p \notin HalfArc(s, p, n) /\ HalfArc(s, p, n) \subseteq 0 .. n - 1 /\ HalfArc(s, s, n) = {}
  BY DEF HalfArc
<1>3. HalfArc(s, p, n) \cup {p}
        = IF After(p, n) = s THEN 0 .. n - 1 ELSE HalfArc(s, After(p, n), n)
  BY DEF HalfArc
<1>4. p \notin OpenArc(s, p, n) /\ OpenArc(s, p, n) \subseteq 0 .. n - 1
  BY DEF OpenArc
<1>5. OpenArc(s, s, n) = (0 .. n - 1) \ {s}
  BY DEF OpenArc
<1>6. OpenArc(s, After(s, n), n) = {}
  BY DEF OpenArc
<1>7. p # s => OpenArc(s, p, n) \cup {p} = OpenArc(s, After(p, n), n)
  BY DEF OpenArc
<1> QED
  BY <1>1, <1>2, <1>3, <1>4, <1>5, <1>6, <1>7

\* An access to the unit at a new position.
LEMMA MarkOne ==
  ASSUME NEW n \in Nat \ {0}, NEW b \in Nat, NEW o, IsOrder(o, n), NEW h,
         NEW Q \in SUBSET (0 .. n - 1), Marked(h, b, o, Q),
         NEW p \in 0 .. n - 1, p \notin Q, b + o[p] \in Units
  PROVE  Marked([h EXCEPT ![b + o[p]] = @ + 1], b, o, Q \cup {p})
<1>1. PICK u \in Units : u = b + o[p]
  OBVIOUS
<1>2. PICK g : g = [h EXCEPT ![u] = @ + 1]
  OBVIOUS
<1>3. h \in [Units -> Nat]
  BY DEF Marked
<1>4. g \in [Units -> Nat] /\ \A v \in Units : g[v] = IF v = u THEN h[v] + 1 ELSE h[v]
  BY <1>2, <1>3
<1>5. \A q \in 0 .. n - 1 : o[q] \in Nat /\ (b + o[q] = u => q = p)
  BY <1>1 DEF IsOrder
<1>6. h[u] = 0
  BY <1>1, <1>5 DEF Marked
<1>7. \A v \in Units : g[v] = IF \E q \in Q \cup {p} : v = b + o[q] THEN 1 ELSE 0
  BY <1>1, <1>4, <1>5, <1>6 DEF Marked
<1> QED
  BY <1>1, <1>2, <1>4, <1>7 DEF Marked

\* The regions of two workers have no unit in common.
LEMMA RegionsApart ==
  ASSUME NEW n \in Nat, NEW v \in Nat, NEW w \in Nat, v # w
  PROVE  \A x, y \in 0 .. n - 1 : v * n + x # w * n + y
<1>1. ASSUME NEW a \in Nat, NEW b \in Nat, a < b PROVE a * n + n <= b * n
  <2>1. n * (a + 1) <= n * b
    BY <1>1, MulMono
  <2>2. n * (a + 1) = a * n + n /\ n * b = b * n
    OBVIOUS
  <2> QED
    BY <2>1, <2>2
<1>2. v * n \in Nat /\ w * n \in Nat
  OBVIOUS
<1>3. CASE v < w
  <2>1. v * n + n <= w * n
    BY <1>1, <1>3
  <2> QED
    BY <1>2, <2>1
<1>4. CASE w < v
  <2>1. w * n + n <= v * n
    BY <1>1, <1>4
  <2> QED
    BY <1>2, <2>1
<1> QED
  BY <1>3, <1>4

-----------------------------------------------------------------------------
(* The pointer chases: the walks of the workers                             *)

\* The worker's units are in memory, in some order.
Shuffled(w) ==
  UnitNum \in Nat \ {0} /\ Region(w) \subseteq Units /\ IsOrder(order[w], UnitNum)

\* Its pointers make the cycle of that order.
Linked(w) ==
  \A i \in 0 .. UnitNum - 1 :
    next[Base(w) + order[w][i]] = Base(w) + order[w][After(i, UnitNum)]

MarkedBy(w, Q) == Marked(hits[w], Base(w), order[w], Q)

ArcOf(s, p) == IF Lat THEN OpenArc(s, p, UnitNum) ELSE HalfArc(s, p, UnitNum)

\* During an iteration
Walking(w) ==
  IF Calc THEN at[w] \in 0 .. UnitNum - 1 /\ MarkedBy(w, 0 .. at[w] - 1)
  ELSE \E s, p \in 0 .. UnitNum - 1 :
         /\ start[w] = Base(w) + order[w][s] /\ at[w] = Base(w) + order[w][p]
         /\ MarkedBy(w, ArcOf(s, p))

\* After an iteration
Walked(w) ==
  IF Lat /\ ~Calc
  THEN \E s \in 0 .. UnitNum - 1 :
         start[w] = Base(w) + order[w][s] /\ MarkedBy(w, (0 .. UnitNum - 1) \ {s})
  ELSE MarkedBy(w, 0 .. UnitNum - 1)

WalkOK(w) ==
  /\ wp[w] # "build" => Shuffled(w) /\ (~Calc => Linked(w))
  /\ wp[w] \in Early => iter[w] = 0
  /\ wp[w] = "walk" => iter[w] > 0 /\ Walking(w)
  /\ wp[w] # "walk" /\ iter[w] = 0 => MarkedBy(w, {})
  /\ wp[w] # "walk" /\ iter[w] > 0 => Walked(w)

Walks == \A w \in Workers : WalkOK(w)

\* The invariant gives the property.
LEMMA WalksOnce ==
  ASSUME ChaseTypes, Walks, main # "wild"
  PROVE  EachOnce
<1> SUFFICES ASSUME NEW w \in Workers
             PROVE  /\ \A u \in DOMAIN hits[w] : hits[w][u] <= IF u \in Region(w) THEN 1 ELSE 0
                    /\ (wp[w] \in {"loop", "done"} /\ iter[w] > 0) =>
                         \A u \in Region(w) :
                           hits[w][u] = IF Lat /\ ~Calc /\ u = start[w] THEN 0 ELSE 1
  BY DEF EachOnce
<1>0. WalkOK(w) /\ iter[w] \in Nat
  BY DEF Walks, ChaseTypes
<1>1. CASE iter[w] = 0
  <2>1. MarkedBy(w, {})
    BY <1>0, <1>1 DEF WalkOK
  <2>2. \A u \in DOMAIN hits[w] : hits[w][u] = 0
    BY <2>1 DEF MarkedBy, Marked
  <2> QED
    BY <1>1, <2>2
<1>2. CASE iter[w] > 0
  <2>1. Shuffled(w) /\ wp[w] \notin Early
    BY <1>0, <1>2 DEF WalkOK, Early
  <2>2. PICK n \in Nat \ {0}, o \in {order[w]} : n = UnitNum /\ o = order[w] /\ IsOrder(o, n)
    BY <2>1 DEF Shuffled
  <2>3. PICK b \in Nat : b = Base(w)
    <3>1. w \in Nat
      BY DEF ChaseTypes
    <3> QED
      BY <2>2, <3>1 DEF Base
  <2>4. Region(w) = b .. b + n - 1 /\ Region(w) \subseteq Units
    BY <2>1, <2>2, <2>3 DEF Region, Shuffled
  <2>5. \A q \in 0 .. n - 1 : o[q] \in 0 .. n - 1
    BY <2>2 DEF IsOrder
  <2>6. ASSUME NEW Q \in SUBSET (0 .. n - 1), MarkedBy(w, Q)
        PROVE  \A u \in DOMAIN hits[w] : hits[w][u] <= IF u \in Region(w) THEN 1 ELSE 0
    <3>1. DOMAIN hits[w] = Units
      BY <2>6 DEF MarkedBy, Marked
    <3>2. \A u \in Units : hits[w][u] = IF \E q \in Q : u = b + o[q] THEN 1 ELSE 0
      BY <2>2, <2>3, <2>6 DEF MarkedBy, Marked
    <3>3. \A q \in Q : b + o[q] \in Region(w)
      BY <2>3, <2>4, <2>5
    <3> QED
      BY <3>1, <3>2, <3>3
  <2>7. CASE wp[w] = "walk"
    <3>1. \E Q \in SUBSET (0 .. n - 1) : MarkedBy(w, Q)
      <4>1. Walking(w)
        BY <1>0, <2>7 DEF WalkOK
      <4>2. CASE Calc
        <5>1. at[w] \in 0 .. n - 1 /\ MarkedBy(w, 0 .. at[w] - 1)
          BY <2>2, <4>1, <4>2 DEF Walking
        <5>2. 0 .. at[w] - 1 \in SUBSET (0 .. n - 1)
          BY <5>1
        <5> QED
          BY <5>1, <5>2
      <4>3. CASE ~Calc
        <5>1. PICK s \in 0 .. n - 1, p \in 0 .. n - 1 : MarkedBy(w, ArcOf(s, p))
          BY <2>2, <4>1, <4>3 DEF Walking
        <5>2. ArcOf(s, p) \in SUBSET (0 .. n - 1)
          BY <2>2, ArcStep DEF ArcOf
        <5> QED
          BY <5>1, <5>2
      <4> QED
        BY <4>2, <4>3
    <3> QED
      BY <2>6, <2>7, <3>1
  <2>8. CASE wp[w] # "walk"
    <3>1. Walked(w)
      BY <1>0, <1>2, <2>8 DEF WalkOK
    <3>2. \A u \in Region(w) : u \in Units /\ \E q \in 0 .. n - 1 : u = b + o[q]
      <4> TAKE u \in Region(w)
      <4>1. u - b \in 0 .. n - 1 /\ u = b + (u - b)
        BY <2>3, <2>4
      <4>2. \E q \in 0 .. n - 1 : o[q] = u - b
        BY <2>2, <4>1, OrderOnto
      <4> QED
        BY <2>4, <4>1, <4>2
    <3>3. CASE Lat /\ ~Calc
      <4>1. PICK s \in 0 .. n - 1 : start[w] = b + o[s] /\ MarkedBy(w, (0 .. n - 1) \ {s})
        BY <2>2, <2>3, <3>1, <3>3 DEF Walked
      <4>2. \A u \in Units : hits[w][u] = IF \E q \in (0 .. n - 1) \ {s} : u = b + o[q] THEN 1 ELSE 0
        BY <2>2, <2>3, <4>1 DEF MarkedBy, Marked
      <4>3. \A q \in 0 .. n - 1 : b + o[q] = b + o[s] => q = s
        BY <2>2, OnePosition
      <4>4. \A u \in Region(w) : hits[w][u] = IF u = start[w] THEN 0 ELSE 1
        BY <3>2, <4>1, <4>2, <4>3
      <4>5. (0 .. n - 1) \ {s} \in SUBSET (0 .. n - 1)
        OBVIOUS
      <4> QED
        BY <2>6, <3>3, <4>1, <4>4, <4>5
    <3>4. CASE ~(Lat /\ ~Calc)
      <4>1. MarkedBy(w, 0 .. n - 1)
        BY <2>2, <3>1, <3>4 DEF Walked
      <4>2. \A u \in Units : hits[w][u] = IF \E q \in 0 .. n - 1 : u = b + o[q] THEN 1 ELSE 0
        BY <2>2, <2>3, <4>1 DEF MarkedBy, Marked
      <4>3. \A u \in Region(w) : hits[w][u] = 1
        BY <3>2, <4>2
      <4> QED
        BY <2>6, <3>4, <4>1, <4>3
    <3> QED
      BY <3>3, <3>4
  <2> QED
    BY <2>7, <2>8
<1> QED
  BY <1>0, <1>1, <1>2

\* The units of a worker.
LEMMA UnitTypes ==
  ASSUME ChaseTypes, NEW w \in Workers
  PROVE  /\ w \in Nat /\ UnitNum \in Nat /\ Base(w) \in Nat
         /\ Region(w) = Base(w) .. Base(w) + UnitNum - 1
<1>1. job # 0 /\ w \in Nat /\ Len(jobs) \in Nat
  <2>1. Jobs[func] \subseteq Seq(JobSet)
    BY ChaseAssumption DEF ChaseTypes
  <2> QED
    BY <2>1 DEF ChaseTypes
<1>2. job \in 1 .. Len(jobs)
  BY <1>1 DEF ChaseTypes
<1>3. Job.threads \in Nat \ {0} /\ Job.wss \in Nat
  BY <1>2, JobType DEF Job
<1>4. UnitNum \in Nat
  BY <1>3 DEF UnitNum
<1> QED
  BY <1>1, <1>4 DEF Base, Region

SameJob == job' = job /\ jobs' = jobs /\ func' = func

\* What depends on the job alone.
LEMMA JobFrame ==
  ASSUME SameJob
  PROVE  /\ UnitNum' = UnitNum /\ Calc' = Calc /\ Lat' = Lat
         /\ \A w : Base(w)' = Base(w) /\ Region(w)' = Region(w)
<1> QED
  BY DEF SameJob, UnitNum, Calc, Lat, Job, Base, Region

\* A worker that does not move is not disturbed.
LEMMA WalkFrame ==
  ASSUME ChaseTypes, NEW w \in Workers, WalkOK(w), SameJob,
         wp'[w] = wp[w], order'[w] = order[w], start'[w] = start[w], at'[w] = at[w],
         iter'[w] = iter[w], hits'[w] = hits[w],
         Calc \/ wp[w] = "build" \/ \A u \in Region(w) : next'[u] = next[u]
  PROVE  WalkOK(w)'
<1>1. /\ UnitNum' = UnitNum /\ Calc' = Calc /\ Lat' = Lat
      /\ Base(w)' = Base(w) /\ Region(w)' = Region(w)
  BY JobFrame
<1>2. \A Q : MarkedBy(w, Q)' <=> MarkedBy(w, Q)
  BY <1>1 DEF MarkedBy
<1>3. \A s, p : ArcOf(s, p)' = ArcOf(s, p)
  BY <1>1 DEF ArcOf
<1>4. Walking(w) => Walking(w)'
  <2> USE <1>1, <1>2, <1>3 DEF Walking
  <2>1. CASE Calc
    BY <2>1
  <2>2. CASE ~Calc
    BY <2>2
  <2> QED
    BY <2>1, <2>2
<1>5. Walked(w) => Walked(w)'
  BY <1>1, <1>2 DEF Walked
<1>6. Shuffled(w) => Shuffled(w)'
  BY <1>1 DEF Shuffled
<1>7. (wp[w] # "build" /\ ~Calc) => Linked(w)'
  <2> HAVE wp[w] # "build" /\ ~Calc
  <2>1. Shuffled(w) /\ Linked(w) /\ \A u \in Region(w) : next'[u] = next[u]
    BY DEF WalkOK
  <2>2. \A i \in 0 .. UnitNum - 1 : Base(w) + order[w][i] \in Region(w)
    <3>1. \A i \in 0 .. UnitNum - 1 : order[w][i] \in 0 .. UnitNum - 1
      BY <2>1 DEF Shuffled, IsOrder
    <3> QED
      BY <3>1, UnitTypes
  <2> QED
    BY <1>1, <2>1, <2>2 DEF Linked
<1> QED
  BY <1>1, <1>2, <1>4, <1>5, <1>6, <1>7 DEF WalkOK

\* A worker that moves on without walking.
LEMMA WalkPhase ==
  ASSUME NEW w \in Workers, WalkOK(w), SameJob, next' = next,
         order'[w] = order[w], start'[w] = start[w], at'[w] = at[w],
         iter'[w] = iter[w], hits'[w] = hits[w],
         wp[w] \notin {"build", "walk"}, wp'[w] \notin {"build", "walk"},
         wp'[w] \in Early => wp[w] \in Early
  PROVE  WalkOK(w)'
<1>1. /\ UnitNum' = UnitNum /\ Calc' = Calc /\ Lat' = Lat
      /\ Base(w)' = Base(w) /\ Region(w)' = Region(w)
  BY JobFrame
<1>2. \A Q : MarkedBy(w, Q)' <=> MarkedBy(w, Q)
  BY <1>1 DEF MarkedBy
<1>3. Walked(w) => Walked(w)'
  BY <1>1, <1>2 DEF Walked
<1>4. (Shuffled(w) => Shuffled(w)') /\ (Linked(w) => Linked(w)')
  BY <1>1 DEF Shuffled, Linked
<1> QED
  BY <1>1, <1>2, <1>3, <1>4 DEF WalkOK

\* The worker links its units.
LEMMA BuildWalk ==
  ASSUME ChaseTypes, NEW w \in Workers, WalkOK(w), Build(w)
  PROVE  WalkOK(w)'
<1>1. SameJob /\ wp[w] = "build" /\ iter'[w] = iter[w] /\ hits'[w] = hits[w]
  BY DEF Build, walk, SameJob
<1>2. /\ UnitNum' = UnitNum /\ Calc' = Calc /\ Lat' = Lat
      /\ Base(w)' = Base(w) /\ Region(w)' = Region(w)
  BY <1>1, JobFrame
<1>3. wp'[w] \in Early /\ wp'[w] # "build"
  BY DEF Build, ChaseTypes, Early, Workers
<1>4. iter[w] = 0 /\ MarkedBy(w, {})
  BY <1>1 DEF WalkOK, Early
<1>5. MarkedBy(w, {})'
  BY <1>1, <1>4 DEF MarkedBy, Marked
<1>6. PICK n \in Nat \ {0} : n = UnitNum
  BY UnitTypes DEF Build
<1>7. PICK b \in Nat : b = Base(w)
  BY UnitTypes
<1>8. PICK o \in Orders(n) :
        /\ order' = [order EXCEPT ![w] = o]
        /\ next' = [u \in DOMAIN next |->
                      IF u \in Region(w) THEN b + Link(o, n)[u - b] ELSE next[u]]
  BY <1>6, <1>7 DEF Build
<1>9. IsOrder(o, n)
  BY <1>6 DEF Orders, IsOrder
<1>10. order'[w] = o
  BY <1>8 DEF ChaseTypes
<1>11. Region(w) = b .. b + n - 1 /\ Region(w) \subseteq Units
  BY <1>6, <1>7, UnitTypes DEF Build, Units
<1>12. Shuffled(w)'
  BY <1>2, <1>6, <1>9, <1>10, <1>11 DEF Shuffled
<1>13. \A i \in 0 .. n - 1 : next'[b + o[i]] = b + o[After(i, n)]
  <2> TAKE i \in 0 .. n - 1
  <2>1. o[i] \in 0 .. n - 1 /\ Link(o, n)[o[i]] = o[After(i, n)]
    BY <1>9, LinkCycle
  <2>2. b + o[i] \in Region(w) /\ (b + o[i]) - b = o[i]
    BY <1>11, <2>1
  <2>3. b + o[i] \in DOMAIN next
    BY <1>11, <2>2 DEF ChaseTypes
  <2> QED
    BY <1>8, <2>1, <2>2, <2>3
<1>14. Linked(w)'
  BY <1>2, <1>6, <1>7, <1>10, <1>13 DEF Linked
<1> QED
  BY <1>1, <1>3, <1>4, <1>5, <1>12, <1>14 DEF WalkOK, Early

\* The names of a worker behind the barrier: n units from b on, in order o.
LEMMA WorkerNames ==
  ASSUME ChaseTypes, NEW w \in Workers, WalkOK(w), wp[w] # "build"
  PROVE  \E n \in Nat \ {0}, b \in Nat, o \in {order[w]} :
           /\ n = UnitNum /\ b = Base(w) /\ o = order[w] /\ IsOrder(o, n)
           /\ Region(w) = b .. b + n - 1
           /\ \A i \in 0 .. n - 1 : b + o[i] \in Region(w) /\ b + o[i] \in Units
           /\ ~Calc => \A i \in 0 .. n - 1 : next[b + o[i]] = b + o[After(i, n)]
<1>1. Shuffled(w) /\ (~Calc => Linked(w))
  BY DEF WalkOK
<1>2. PICK n \in Nat \ {0}, b \in Nat, o \in {order[w]} : n = UnitNum /\ b = Base(w) /\ o = order[w]
  BY <1>1, UnitTypes DEF Shuffled
<1>3. IsOrder(o, n) /\ Region(w) = b .. b + n - 1 /\ Region(w) \subseteq Units
  BY <1>1, <1>2, UnitTypes DEF Shuffled
<1>4. \A i \in 0 .. n - 1 : o[i] \in 0 .. n - 1
  BY <1>3 DEF IsOrder
<1>5. \A i \in 0 .. n - 1 : b + o[i] \in Region(w)
  BY <1>3, <1>4
<1> QED
  BY <1>1, <1>2, <1>3, <1>5 DEF Linked

\* An iteration begins with no unit accessed.
LEMMA BeginWalk ==
  ASSUME ChaseTypes, NEW w \in Workers, WalkOK(w), BeginIteration(w)
  PROVE  WalkOK(w)'
<1>1. SameJob /\ wp[w] = "loop" /\ next' = next /\ order' = order
  BY DEF BeginIteration, SameJob
<1>2. /\ UnitNum' = UnitNum /\ Calc' = Calc /\ Lat' = Lat
      /\ Base(w)' = Base(w) /\ Region(w)' = Region(w)
  BY <1>1, JobFrame
<1>3. wp'[w] = "walk" /\ iter'[w] = iter[w] + 1 /\ iter[w] \in Nat /\ hits'[w] = [u \in Units |-> 0]
  BY DEF BeginIteration, ChaseTypes, Workers, Units
<1>4. MarkedBy(w, {})'
  BY <1>3 DEF MarkedBy, Marked
<1>5. Shuffled(w)' /\ (~Calc' => Linked(w)')
  BY <1>1, <1>2 DEF WalkOK, Shuffled, Linked
<1>6. PICK n \in Nat \ {0}, b \in Nat, o \in {order[w]} :
        /\ n = UnitNum /\ b = Base(w) /\ o = order[w] /\ IsOrder(o, n)
        /\ Region(w) = b .. b + n - 1
        /\ ~Calc => \A i \in 0 .. n - 1 : next[b + o[i]] = b + o[After(i, n)]
  BY <1>1, WorkerNames
<1>7. PICK x \in IF Calc THEN {0} ELSE Region(w) :
        start'[w] = x /\ at'[w] = IF Lat /\ ~Calc THEN next[x] ELSE x
  BY DEF BeginIteration, ChaseTypes
<1>8. CASE Calc
  <2>1. at'[w] = 0 /\ 0 .. 0 - 1 = {} /\ 0 \in 0 .. n - 1
    BY <1>7, <1>8
  <2>2. Walking(w)'
    BY <1>2, <1>4, <1>6, <1>8, <2>1 DEF Walking
  <2> QED
    BY <1>3, <1>5, <2>2 DEF WalkOK, Early
<1>9. CASE ~Calc
  <2>1. PICK u \in 0 .. n - 1 : x = b + u
    <3>1. x - b \in 0 .. n - 1 /\ x = b + (x - b)
      BY <1>6, <1>7, <1>9
    <3> QED
      BY <3>1
  <2>2. PICK s \in 0 .. n - 1 : o[s] = u
    <3>1. IsOrder(o, n)
      BY <1>6
    <3> QED
      BY <3>1, OrderOnto
  <2>3. x = b + o[s] /\ next[x] = b + o[After(s, n)]
    BY <1>6, <1>9, <2>1, <2>2
  <2>4. /\ After(s, n) \in 0 .. n - 1 /\ HalfArc(s, s, n) = {} /\ OpenArc(s, After(s, n), n) = {}
    BY ArcStep
  <2>5. PICK p \in 0 .. n - 1 : p = IF Lat THEN After(s, n) ELSE s
    BY <2>4
  <2>6. start'[w] = b + o[s] /\ at'[w] = b + o[p]
    BY <1>7, <1>9, <2>3, <2>5
  <2>7. ArcOf(s, p)' = {}
    BY <1>2, <1>6, <2>4, <2>5 DEF ArcOf
  <2>8. MarkedBy(w, ArcOf(s, p))'
    BY <1>4, <2>7 DEF MarkedBy
  <2>9. Walking(w)'
    BY <1>1, <1>2, <1>6, <1>9, <2>6, <2>8 DEF Walking
  <2> QED
    BY <1>3, <1>5, <2>9 DEF WalkOK, Early
<1> QED
  BY <1>8, <1>9

\* calc_lat accesses the unit at the next position.
LEMMA CalcWalk ==
  ASSUME ChaseTypes, NEW w \in Workers, WalkOK(w), CalcStep(w)
  PROVE  WalkOK(w)'
<1>1. SameJob /\ wp[w] = "walk" /\ Calc /\ order' = order /\ iter' = iter
  BY DEF CalcStep, SameJob
<1>2. /\ UnitNum' = UnitNum /\ Calc' = Calc /\ Lat' = Lat
      /\ Base(w)' = Base(w) /\ Region(w)' = Region(w)
  BY <1>1, JobFrame
<1>3. PICK n \in Nat \ {0}, b \in Nat, o \in {order[w]} :
        /\ n = UnitNum /\ b = Base(w) /\ o = order[w] /\ IsOrder(o, n)
        /\ \A i \in 0 .. n - 1 : b + o[i] \in Units
  BY <1>1, WorkerNames
<1>4. PICK a \in 0 .. n - 1 : a = at[w] /\ Marked(hits[w], b, o, 0 .. a - 1)
  BY <1>1, <1>3 DEF WalkOK, Walking, MarkedBy
<1>5. hits'[w] = [hits[w] EXCEPT ![b + o[a]] = @ + 1] /\ at'[w] = a + 1
  BY <1>3, <1>4 DEF CalcStep, ChaseTypes
<1>6. Marked(hits'[w], b, o, (0 .. a - 1) \cup {a})
  <2>1. 0 .. a - 1 \in SUBSET (0 .. n - 1) /\ a \notin 0 .. a - 1 /\ b + o[a] \in Units
    BY <1>3
  <2>2. Marked([hits[w] EXCEPT ![b + o[a]] = @ + 1], b, o, (0 .. a - 1) \cup {a})
    BY <1>3, <1>4, <2>1, MarkOne
  <2> QED
    BY <1>5, <2>2
<1>7. (0 .. a - 1) \cup {a} = 0 .. (a + 1) - 1
  OBVIOUS
<1>8. MarkedBy(w, 0 .. (a + 1) - 1)'
  BY <1>1, <1>2, <1>3, <1>6, <1>7 DEF MarkedBy
<1>9. iter[w] > 0 /\ Shuffled(w)' /\ iter'[w] = iter[w]
  BY <1>1, <1>2 DEF WalkOK, Shuffled
<1>10. CASE a + 1 < n
  <2>1. wp'[w] = "walk"
    BY <1>3, <1>4, <1>10 DEF CalcStep, ChaseTypes, Workers
  <2>2. Walking(w)'
    BY <1>1, <1>2, <1>3, <1>5, <1>8, <1>10 DEF Walking
  <2> QED
    BY <1>1, <1>2, <1>9, <2>1, <2>2 DEF WalkOK, Early
<1>11. CASE ~ a + 1 < n
  <2>1. wp'[w] = "loop"
    BY <1>3, <1>4, <1>11 DEF CalcStep, ChaseTypes, Workers
  <2>2. 0 .. (a + 1) - 1 = 0 .. n - 1
    BY <1>11
  <2>3. Walked(w)'
    BY <1>1, <1>2, <1>3, <1>8, <2>2 DEF Walked
  <2>4. iter'[w] # 0
    BY <1>9 DEF ChaseTypes
  <2> QED
    BY <1>1, <1>2, <1>9, <2>1, <2>3, <2>4 DEF WalkOK, Early
<1> QED
  BY <1>10, <1>11

\* chase_ptr_lat accesses the next unit on the cycle, or is back at its start.
LEMMA LatWalk ==
  ASSUME ChaseTypes, NEW w \in Workers, WalkOK(w), LatStep(w)
  PROVE  WalkOK(w)' /\ main' = main
<1>1. /\ SameJob /\ wp[w] = "walk" /\ Lat /\ ~Calc
      /\ order' = order /\ iter' = iter /\ next' = next /\ start' = start
  BY DEF LatStep, SameJob
<1>2. /\ UnitNum' = UnitNum /\ Calc' = Calc /\ Lat' = Lat
      /\ Base(w)' = Base(w) /\ Region(w)' = Region(w)
  BY <1>1, JobFrame
<1>3. PICK n \in Nat \ {0}, b \in Nat, o \in {order[w]} :
        /\ n = UnitNum /\ b = Base(w) /\ o = order[w] /\ IsOrder(o, n)
        /\ \A i \in 0 .. n - 1 : b + o[i] \in Units
        /\ \A i \in 0 .. n - 1 : next[b + o[i]] = b + o[After(i, n)]
  <2>1. wp[w] # "build"
    BY <1>1
  <2>2. \E n \in Nat \ {0}, b \in Nat, o \in {order[w]} :
          /\ n = UnitNum /\ b = Base(w) /\ o = order[w] /\ IsOrder(o, n)
          /\ Region(w) = b .. b + n - 1
          /\ \A i \in 0 .. n - 1 : b + o[i] \in Region(w) /\ b + o[i] \in Units
          /\ ~Calc => \A i \in 0 .. n - 1 : next[b + o[i]] = b + o[After(i, n)]
    BY <2>1, WorkerNames
  <2> QED
    BY <1>1, <2>2
<1>4. PICK s \in 0 .. n - 1, p \in 0 .. n - 1 :
        /\ start[w] = b + o[s] /\ at[w] = b + o[p]
        /\ Marked(hits[w], b, o, OpenArc(s, p, n))
  BY <1>1, <1>3 DEF WalkOK, Walking, MarkedBy, ArcOf
<1>5. iter[w] > 0 /\ iter[w] # 0 /\ Shuffled(w)' /\ Linked(w)' /\ iter'[w] = iter[w]
  BY <1>1, <1>2 DEF WalkOK, Shuffled, Linked, ChaseTypes
<1>6. CASE at[w] = start[w]
  <2>1. p = s
    BY <1>3, <1>4, <1>6, OnePosition
  <2>2. OpenArc(s, s, n) = (0 .. n - 1) \ {s}
    BY ArcStep
  <2>3. wp'[w] = "loop" /\ hits'[w] = hits[w] /\ main' = main
    BY <1>6 DEF LatStep, ChaseTypes, Workers
  <2>4. MarkedBy(w, (0 .. n - 1) \ {s})'
    BY <1>1, <1>2, <1>3, <1>4, <2>1, <2>2, <2>3 DEF MarkedBy
  <2>5. Walked(w)'
    BY <1>1, <1>2, <1>3, <1>4, <2>4 DEF Walked
  <2> QED
    BY <1>5, <2>3, <2>5 DEF WalkOK, Early
<1>7. CASE at[w] # start[w]
  <2>1. at[w] # Garbage
    <3>1. o[p] \in 0 .. n - 1
      BY <1>3, LinkCycle
    <3> QED
      BY <1>4, <3>1 DEF Garbage
  <2>2. /\ hits'[w] = [hits[w] EXCEPT ![b + o[p]] = @ + 1]
        /\ at'[w] = next[b + o[p]] /\ wp'[w] = "walk" /\ main' = main
    BY <1>1, <1>4, <1>7, <2>1 DEF LatStep, ChaseTypes
  <2>3. p # s
    BY <1>4, <1>7
  <2>4. PICK r \in 0 .. n - 1 : r = After(p, n)
    BY ArcStep
  <2>5. /\ OpenArc(s, p, n) \in SUBSET (0 .. n - 1) /\ p \notin OpenArc(s, p, n)
        /\ OpenArc(s, p, n) \cup {p} = OpenArc(s, r, n)
    <3>1. /\ OpenArc(s, p, n) \subseteq 0 .. n - 1 /\ p \notin OpenArc(s, p, n)
          /\ p # s => OpenArc(s, p, n) \cup {p} = OpenArc(s, After(p, n), n)
      BY ArcStep
    <3> QED
      BY <2>3, <2>4, <3>1
  <2>6. Marked([hits[w] EXCEPT ![b + o[p]] = @ + 1], b, o, OpenArc(s, p, n) \cup {p})
    BY <1>3, <1>4, <2>5, MarkOne
  <2>7. Marked(hits'[w], b, o, OpenArc(s, r, n))
    BY <2>2, <2>5, <2>6
  <2>8. MarkedBy(w, ArcOf(s, r))'
    BY <1>1, <1>2, <1>3, <2>7 DEF MarkedBy, ArcOf
  <2>9. start'[w] = b + o[s] /\ at'[w] = b + o[r]
    BY <1>1, <1>3, <1>4, <2>2, <2>4
  <2>10. Walking(w)'
    BY <1>1, <1>2, <1>3, <2>8, <2>9 DEF Walking
  <2> QED
    BY <1>5, <2>2, <2>10 DEF WalkOK, Early
<1> QED
  BY <1>6, <1>7

\* The prefetching tests access the unit they are at and stop at the start.
LEMMA ChaseWalk ==
  ASSUME ChaseTypes, NEW w \in Workers, WalkOK(w), WalkStep(w)
  PROVE  WalkOK(w)' /\ main' = main
<1>1. /\ SameJob /\ wp[w] = "walk" /\ ~Lat /\ ~Calc
      /\ order' = order /\ iter' = iter /\ next' = next /\ start' = start
  BY DEF WalkStep, SameJob, Calc
<1>2. /\ UnitNum' = UnitNum /\ Calc' = Calc /\ Lat' = Lat
      /\ Base(w)' = Base(w) /\ Region(w)' = Region(w)
  BY <1>1, JobFrame
<1>3. PICK n \in Nat \ {0}, b \in Nat, o \in {order[w]} :
        /\ n = UnitNum /\ b = Base(w) /\ o = order[w] /\ IsOrder(o, n)
        /\ \A i \in 0 .. n - 1 : b + o[i] \in Units
        /\ \A i \in 0 .. n - 1 : next[b + o[i]] = b + o[After(i, n)]
  <2>1. wp[w] # "build"
    BY <1>1
  <2>2. \E n \in Nat \ {0}, b \in Nat, o \in {order[w]} :
          /\ n = UnitNum /\ b = Base(w) /\ o = order[w] /\ IsOrder(o, n)
          /\ Region(w) = b .. b + n - 1
          /\ \A i \in 0 .. n - 1 : b + o[i] \in Region(w) /\ b + o[i] \in Units
          /\ ~Calc => \A i \in 0 .. n - 1 : next[b + o[i]] = b + o[After(i, n)]
    BY <2>1, WorkerNames
  <2> QED
    BY <1>1, <2>2
<1>4. PICK s \in 0 .. n - 1, p \in 0 .. n - 1 :
        /\ start[w] = b + o[s] /\ at[w] = b + o[p]
        /\ Marked(hits[w], b, o, HalfArc(s, p, n))
  BY <1>1, <1>3 DEF WalkOK, Walking, MarkedBy, ArcOf
<1>5. iter[w] > 0 /\ iter[w] # 0 /\ Shuffled(w)' /\ Linked(w)' /\ iter'[w] = iter[w]
  BY <1>1, <1>2 DEF WalkOK, Shuffled, Linked, ChaseTypes
<1>6. at[w] # Garbage
  <2>1. o[p] \in 0 .. n - 1
    BY <1>3, LinkCycle
  <2> QED
    BY <1>4, <2>1 DEF Garbage
<1>7. PICK r \in 0 .. n - 1 : r = After(p, n)
  BY ArcStep
<1>0. main' = main
  BY <1>6 DEF WalkStep
<1>8. /\ hits'[w] = [hits[w] EXCEPT ![b + o[p]] = @ + 1]
      /\ at'[w] = b + o[r]
      /\ wp'[w] = IF b + o[r] = start[w] THEN "loop" ELSE "walk"
  <2>1. next[at[w]] = b + o[r]
    BY <1>3, <1>4, <1>7
  <2>2. hits'[w] = [hits[w] EXCEPT ![at[w]] = @ + 1] /\ at'[w] = next[at[w]]
    BY <1>6 DEF WalkStep, ChaseTypes
  <2>3. wp'[w] = IF next[at[w]] = start[w] THEN "loop" ELSE "walk"
    BY <1>6 DEF WalkStep, Workers
  <2> QED
    BY <1>4, <2>1, <2>2, <2>3
<1>9. /\ HalfArc(s, p, n) \in SUBSET (0 .. n - 1) /\ p \notin HalfArc(s, p, n)
      /\ HalfArc(s, p, n) \cup {p}
           = IF After(p, n) = s THEN 0 .. n - 1 ELSE HalfArc(s, After(p, n), n)
  BY ArcStep
<1>10. Marked([hits[w] EXCEPT ![b + o[p]] = @ + 1], b, o, HalfArc(s, p, n) \cup {p})
  BY <1>3, <1>4, <1>9, MarkOne
<1>11. CASE r = s
  <2>1. HalfArc(s, p, n) \cup {p} = 0 .. n - 1
    BY <1>7, <1>9, <1>11
  <2>2. wp'[w] = "loop"
    BY <1>4, <1>8, <1>11
  <2>3. MarkedBy(w, 0 .. n - 1)'
    BY <1>1, <1>2, <1>3, <1>8, <1>10, <2>1 DEF MarkedBy
  <2>4. Walked(w)'
    BY <1>1, <1>2, <1>3, <2>3 DEF Walked
  <2> QED
    BY <1>0, <1>5, <2>2, <2>4 DEF WalkOK, Early
<1>12. CASE r # s
  <2>1. HalfArc(s, p, n) \cup {p} = HalfArc(s, r, n)
    BY <1>7, <1>9, <1>12
  <2>2. b + o[r] # start[w]
    BY <1>3, <1>4, <1>12, OnePosition
  <2>3. wp'[w] = "walk"
    BY <1>8, <2>2
  <2>4. MarkedBy(w, ArcOf(s, r))'
    BY <1>1, <1>2, <1>3, <1>8, <1>10, <2>1 DEF MarkedBy, ArcOf
  <2>5. Walking(w)'
    BY <1>1, <1>2, <1>3, <1>4, <1>8, <2>4 DEF Walking
  <2> QED
    BY <1>0, <1>5, <2>3, <2>5 DEF WalkOK, Early
<1> QED
  BY <1>11, <1>12

\* Every step of one worker keeps the walks of all.
LEMMA WalksStep ==
  ASSUME ChaseTypes, Walks, ChaseNext \/ UNCHANGED chaseVars
  PROVE  Walks'
<1>1. CASE StartLat \/ StartExtreme \/ StartTput
  <2>1. /\ job < Len(jobs) /\ Spawn(jobs[job + 1]) /\ main' \in {"join", "exit"}
    BY <1>1 DEF StartLat, StartExtreme, StartTput
  <2>2. \A w \in Workers' : wp'[w] = "build"
    BY <2>1, SpawnTypes
  <2>3. \A w \in Workers' : iter'[w] = 0 /\ hits'[w] = [u \in Units |-> 0]
    BY <2>1 DEF Spawn, ForAllWorkers, Workers, Units
  <2>4. \A w \in Workers' : MarkedBy(w, {})'
    BY <2>3 DEF MarkedBy, Marked
  <2> QED
    BY <2>2, <2>3, <2>4 DEF Walks, WalkOK
<1>2. CASE Join \/ UNCHANGED chaseVars
  <2>1. /\ SameJob /\ wp' = wp /\ next' = next /\ order' = order /\ start' = start
        /\ at' = at /\ iter' = iter /\ hits' = hits
    BY <1>2 DEF Join, chaseVars, walk, SameJob
  <2>2. \A w \in Workers : WalkOK(w)'
    BY <2>1, WalkFrame DEF Walks
  <2> QED
    BY <2>1, <2>2 DEF Walks, Workers
<1>3. CASE Barrier
  <2>1. /\ SameJob /\ next' = next /\ order' = order /\ start' = start
        /\ at' = at /\ iter' = iter /\ hits' = hits /\ Workers' = Workers
        /\ \A w \in Workers : wp[w] = "barrier" /\ wp'[w] = "loop"
    BY <1>3 DEF Barrier, walk, SameJob, Workers
  <2>2. ASSUME NEW w \in Workers PROVE WalkOK(w)'
    <3>1. WalkOK(w)
      BY DEF Walks
    <3> QED
      BY <2>1, <3>1, WalkPhase DEF Early
  <2> QED
    BY <2>1, <2>2 DEF Walks
<1>4. ASSUME NEW w \in Workers, Worker(w) PROVE Walks'
  <2>0. WalkOK(w) /\ \A v \in Workers : WalkOK(v)
    BY DEF Walks
  <2>1. SameJob /\ Workers' = Workers
    BY <1>4 DEF Worker, TooLarge, OutOfBounds, Build, Claim, Create, BeginIteration, CalcStep,
                LatStep, WalkStep, Finish, SameJob, Workers
  <2>2. WalkOK(w)'
    <3>1. CASE TooLarge(w) \/ OutOfBounds(w)
      BY <2>0, <3>1, WalkFrame DEF TooLarge, OutOfBounds, walk, SameJob
    <3>2. CASE Build(w)
      BY <2>0, <3>2, BuildWalk
    <3>3. CASE Claim(w) \/ Create(w)
      <4>1. /\ next' = next /\ order' = order /\ start' = start
            /\ at' = at /\ iter' = iter /\ hits' = hits
        BY <3>3 DEF Claim, Create, walk
      <4>2. wp[w] \in {"claim", "create"} /\ wp'[w] \in {"create", "barrier"}
        BY <3>3 DEF Claim, Create, Workers
      <4> QED
        BY <2>0, <2>1, <4>1, <4>2, WalkPhase DEF Early
    <3>4. CASE BeginIteration(w)
      BY <2>0, <3>4, BeginWalk
    <3>5. CASE CalcStep(w)
      BY <2>0, <3>5, CalcWalk
    <3>6. CASE LatStep(w)
      BY <2>0, <3>6, LatWalk
    <3>7. CASE WalkStep(w)
      BY <2>0, <3>7, ChaseWalk
    <3>8. CASE Finish(w)
      <4>1. /\ next' = next /\ order' = order /\ start' = start
            /\ at' = at /\ iter' = iter /\ hits' = hits
        BY <3>8 DEF Finish, walk
      <4>2. wp[w] = "loop" /\ wp'[w] = "done"
        BY <3>8 DEF Finish, Workers
      <4> QED
        BY <2>0, <2>1, <4>1, <4>2, WalkPhase DEF Early
    <3> QED
      BY <1>4, <3>1, <3>2, <3>3, <3>4, <3>5, <3>6, <3>7, <3>8 DEF Worker
  <2>3. ASSUME NEW v \in Workers, v # w PROVE WalkOK(v)'
    <3>1. /\ wp'[v] = wp[v] /\ order'[v] = order[v] /\ start'[v] = start[v]
          /\ at'[v] = at[v] /\ iter'[v] = iter[v] /\ hits'[v] = hits[v]
      <4> USE <1>4, <2>3 DEF ChaseTypes, Workers, walk
      <4>1. CASE TooLarge(w) \/ OutOfBounds(w)
        BY <4>1 DEF TooLarge, OutOfBounds
      <4>2. CASE Build(w)
        BY <4>2 DEF Build
      <4>3. CASE Claim(w) \/ Create(w)
        BY <4>3 DEF Claim, Create
      <4>4. CASE BeginIteration(w)
        BY <4>4 DEF BeginIteration
      <4>5. CASE CalcStep(w)
        BY <4>5 DEF CalcStep
      <4>6. CASE LatStep(w)
        BY <4>6 DEF LatStep
      <4>7. CASE WalkStep(w)
        BY <4>7 DEF WalkStep
      <4>8. CASE Finish(w)
        BY <4>8 DEF Finish
      <4> QED
        BY <4>1, <4>2, <4>3, <4>4, <4>5, <4>6, <4>7, <4>8 DEF Worker
    <3>2. Calc \/ \A u \in Region(v) : next'[u] = next[u] \/ wp[v] = "build"
      <4>1. CASE Build(w)
        <5> SUFFICES ASSUME wp[v] # "build", NEW u \in Region(v) PROVE next'[u] = next[u]
          OBVIOUS
        <5>1. PICK n \in Nat : n = UnitNum
          BY UnitTypes
        <5>2. v \in Nat /\ w \in Nat /\ v * n \in Nat /\ w * n \in Nat
          BY <5>1, UnitTypes DEF Base
        <5>3. Region(v) = v * n .. v * n + n - 1 /\ Region(w) = w * n .. w * n + n - 1
          BY <5>1 DEF Region, Base
        <5>4. \A x, y \in 0 .. n - 1 : v * n + x # w * n + y
          BY <2>3, <5>2, RegionsApart
        <5>5. u \notin Region(w)
          <6> SUFFICES ASSUME u \in Region(w) PROVE FALSE
            OBVIOUS
          <6>1. PICK x \in 0 .. n - 1 : u = v * n + x
            <7>1. u - v * n \in 0 .. n - 1 /\ u = v * n + (u - v * n)
              BY <5>2, <5>3
            <7> QED
              BY <7>1
          <6>2. PICK y \in 0 .. n - 1 : u = w * n + y
            <7>1. u - w * n \in 0 .. n - 1 /\ u = w * n + (u - w * n)
              BY <5>2, <5>3
            <7> QED
              BY <7>1
          <6> QED
            BY <5>4, <6>1, <6>2
        <5>6. u \in DOMAIN next
          <6>1. Shuffled(v)
            BY <2>0 DEF WalkOK
          <6> QED
            BY <6>1 DEF Shuffled, ChaseTypes
        <5> QED
          BY <4>1, <5>5, <5>6 DEF Build
      <4>2. CASE CalcStep(w)
        BY <4>2 DEF CalcStep
      <4>3. CASE ~Build(w) /\ ~CalcStep(w)
        <5>1. next' = next
          BY <1>4, <4>3 DEF Worker, TooLarge, OutOfBounds, Claim, Create, BeginIteration,
                            LatStep, WalkStep, Finish
        <5> QED
          BY <5>1
      <4> QED
        BY <4>1, <4>2, <4>3
    <3>3. Calc \/ wp[v] = "build" \/ \A u \in Region(v) : next'[u] = next[u]
      BY <3>2
    <3> QED
      BY <2>0, <2>1, <3>1, <3>3, WalkFrame
  <2> QED
    BY <2>1, <2>2, <2>3 DEF Walks
<1> QED
  BY <1>1, <1>2, <1>3, <1>4 DEF ChaseNext, Main

\* Nobody follows an overwritten pointer: a worker that walks is on its cycle.
LEMMA TameStep ==
  ASSUME ChaseTypes, Walks, main # "wild", ChaseNext \/ UNCHANGED chaseVars
  PROVE  main' # "wild"
<1>1. CASE Main \/ Barrier \/ UNCHANGED chaseVars
  BY <1>1 DEF Main, StartLat, StartExtreme, StartTput, Join, Barrier, chaseVars
<1>2. ASSUME NEW w \in Workers, Worker(w) PROVE main' # "wild"
  <2>1. WalkOK(w)
    BY DEF Walks
  <2>2. CASE LatStep(w) \/ WalkStep(w)
    BY <2>1, <2>2, LatWalk, ChaseWalk
  <2>3. CASE ~ (LatStep(w) \/ WalkStep(w))
    BY <1>2, <2>3 DEF Worker, TooLarge, OutOfBounds, Build, Claim, Create, BeginIteration,
                      CalcStep, Finish
  <2> QED
    BY <2>2, <2>3
<1> QED
  BY <1>1, <1>2 DEF ChaseNext

-----------------------------------------------------------------------------
(* The program                                                              *)

MicroInv ==
  HandoverInv /\ LinesOK /\ ChaseTypes /\ Collector /\ Walks /\ main # "wild"

\* main() starts in the invariant and every step of the test it runs keeps it.
LEMMA MicroInvInductive ==
  /\ MicroInit => MicroInv
  /\ MicroInv /\ [MicroNext]_microVars => MicroInv'
<1>1. MicroInit => MicroInv
  <2> HAVE MicroInit
  <2>1. HandoverInv /\ LinesOK
    BY HandoverInitInv DEF MicroInit, HandoverInit, LinesOK
  <2>2. ChaseTypes /\ Collector /\ main # "wild"
    BY ChaseInitTypes DEF MicroInit, ChaseInit
  <2>3. Walks
    <3>1. DOMAIN <<>> = {}
      OBVIOUS
    <3> QED
      BY <3>1 DEF MicroInit, ChaseInit, Walks, Workers
  <2> QED
    BY <2>1, <2>2, <2>3 DEF MicroInv
<1>2. MicroInv /\ [MicroNext]_microVars => MicroInv'
  <2> SUFFICES ASSUME MicroInv, [MicroNext]_microVars PROVE MicroInv'
    OBVIOUS
  <2>1. /\ HandoverNext \/ UNCHANGED handoverVars
        /\ ChaseNext \/ UNCHANGED chaseVars
    BY DEF MicroNext, LockContention, PointerChase, Unmap, microVars
  <2>2. HandoverInv' /\ LinesOK'
    BY <2>1, HandoverStepInv, LinesStep DEF MicroInv
  <2>3. ChaseTypes' /\ Collector' /\ Walks' /\ main' # "wild"
    BY <2>1, TypesStep, CollectorStep, WalksStep, TameStep DEF MicroInv
  <2> QED
    BY <2>2, <2>3 DEF MicroInv
<1> QED
  BY <1>1, <1>2

\* The invariant of the hand-over and of the pointer chases holds in every
\* state of every run of main(), whatever test was asked for.
THEOREM MicroInvariance == MicroSpec => []MicroInv
<1> QED
  BY MicroInvInductive, PTL DEF MicroSpec

\* Every latency T2 adds up (across_thread_lat) spans one round of T1 and the
\* round of T2 that answers it.
THEOREM SamplesPaired == MicroSpec => []SampleMatches
<1>1. MicroInv => SampleMatches
  BY DEF MicroInv, HandoverInv, HandoverTypeOK, Holders, Pace, Stamped, T1Inside, T2Inside,
         SampleMatches
<1> QED
  BY <1>1, MicroInvariance, PTL

\* The report divides by a number of rounds that is the number of samples or
\* one more, whenever the sleep ended.
THEOREM AverageExact == MicroSpec => []AverageClose
<1>1. MicroInv => AverageClose
  BY DEF MicroInv, HandoverInv, HandoverTypeOK, Pace, Counted, AverageClose
<1> QED
  BY <1>1, MicroInvariance, PTL

\* T2 reads the line that T1 wrote `distance' rounds ago, or one round more
\* right after the offset has restarted, for every buffer and every distance.
THEOREM ReadsLag == MicroSpec => []ReadLag
<1>1. MicroInv => ReadLag
  <2> HAVE MicroInv
  <2>1. p2 = "sample" => run > 0
    BY DEF MicroInv, HandoverInv, Running
  <2> QED
    BY <2>1 DEF MicroInv, LinesOK, ReadLag
<1> QED
  BY <1>1, MicroInvariance, PTL

\* One collector per job, created before the first walk and deleted after the
\* last, and a feedback of the job from every worker, for any number of jobs
\* and threads.
THEOREM CollectorSpansJob == MicroSpec => []MeasureSpans
<1>1. MicroInv => MeasureSpans
  BY CollectorSpans DEF MicroInv
<1> QED
  BY <1>1, MicroInvariance, PTL

\* No walk follows a pointer an earlier job has overwritten, and an iteration of
\* a pointer chase accesses every unit of the worker's region once and no other,
\* for every size, shuffle and starting point and any number of workers.
THEOREM IterationVisitsAll == MicroSpec => []EachOnce
<1>1. MicroInv => EachOnce
  BY WalksOnce DEF MicroInv
<1> QED
  BY <1>1, MicroInvariance, PTL

=============================================================================

---------------------------- MODULE DModemProofs ----------------------------
(* Proofs about the modem link, for every number of sequence values, of      *)
(* retries and of messages.                                                  *)
EXTENDS DModem, FiniteSetTheorems, TLAPS

-----------------------------------------------------------------------------
(* Queues of items.                                                          *)

Has(s, S) == \E i \in 1..Len(s) : s[i] \in S
Before(s, S, T) == \E i \in 1..Len(s), j \in 1..Len(s) : i < j /\ s[i] \in S /\ s[j] \in T
Places(s, S) == {i \in 1..Len(s) : s[i] \in S}
Count(s, S) == Cardinality(Places(s, S))

Replies == [b : AckBytes]
Acks == {Byte("ACKCOMP")}
\* The frames after byte p and those up to it: with p the last byte of the
\* previous message, those of the message being written and the older ones.
After(p) == {f \in Frames : f.first > p}
UpTo(p) == {f \in Frames : f.first <= p}

\* What the line makes of item h; renumbered tells whether it may have altered
\* a sequence number.
Worse(g, h, renumbered) ==
    \/ g = h
    \/ h \in Replies /\ g = Byte("junk")
    \/ /\ h \in Frames /\ g \in Frames /\ ~g.good /\ (g.seqno = h.seqno \/ renumbered)
       /\ g.first = h.first /\ g.len = h.len /\ g.no = h.no /\ g.again = h.again

\* t is s, or what follows its head, possibly with items damaged.
Remains(t, s, renumbered) ==
    \E d \in {0, 1} : /\ Len(s) = Len(t) + d
                      /\ \A i \in 1..Len(t) : Worse(t[i], s[i + d], renumbered)
\* No item becomes one of S by damage.
Closed(S, renumbered) == \A g, h \in Items : Worse(g, h, renumbered) /\ g \in S => h \in S

\* What is counted is a natural number; an empty queue holds nothing.
LEMMA CountType ==
    ASSUME NEW s, Len(s) \in Nat, NEW S
    PROVE  IsFiniteSet(Places(s, S)) /\ Count(s, S) \in Nat
<1>1. IsFiniteSet(1..Len(s))  BY FS_Interval
<1>2. IsFiniteSet(Places(s, S))  BY <1>1, FS_Subset DEF Places
<1>3. QED  BY <1>2, FS_CardinalityType DEF Count

\* Nothing is counted exactly where there is nothing.
LEMMA CountNone ==
    ASSUME NEW s, Len(s) \in Nat, NEW S
    PROVE  Count(s, S) = 0 <=> ~Has(s, S)
<1>1. IsFiniteSet(Places(s, S))  BY CountType
<1>2. Count(s, S) = 0 <=> Places(s, S) = {}  BY <1>1, FS_EmptySet DEF Count
<1>3. Places(s, S) = {} <=> ~Has(s, S)  BY DEF Places, Has
<1>4. QED  BY <1>2, <1>3

\* A queue that lost its head, or whose items were damaged, holds and counts no
\* more than before.
LEMMA RemainsHas ==
    ASSUME NEW t \in Seq(Items), NEW s \in Seq(Items), NEW b, Remains(t, s, b),
           NEW S, Closed(S, b)
    PROVE  Has(t, S) => Has(s, S)
<1>1. PICK d \in {0, 1} : /\ Len(s) = Len(t) + d
                          /\ \A i \in 1..Len(t) : Worse(t[i], s[i + d], b)
      BY DEF Remains
<1>2. \A i \in 1..Len(t) : t[i] \in S => i + d \in 1..Len(s) /\ s[i + d] \in S
      BY <1>1 DEF Closed
<1>3. QED  BY <1>2 DEF Has

LEMMA RemainsBefore ==
    ASSUME NEW t \in Seq(Items), NEW s \in Seq(Items), NEW b, Remains(t, s, b),
           NEW S, Closed(S, b), NEW T, Closed(T, b)
    PROVE  Before(t, S, T) => Before(s, S, T)
<1>1. PICK d \in {0, 1} : /\ Len(s) = Len(t) + d
                          /\ \A i \in 1..Len(t) : Worse(t[i], s[i + d], b)
      BY DEF Remains
<1>2. \A i \in 1..Len(t) : i + d \in 1..Len(s)  BY <1>1
<1>3. \A i \in 1..Len(t) : t[i] \in S => s[i + d] \in S  BY <1>1, <1>2 DEF Closed
<1>4. \A i \in 1..Len(t) : t[i] \in T => s[i + d] \in T  BY <1>1, <1>2 DEF Closed
<1>5. \A i, j \in 1..Len(t) : i < j => i + d < j + d  BY <1>1
<1>6. QED  BY <1>2, <1>3, <1>4, <1>5 DEF Before

LEMMA RemainsCount ==
    ASSUME NEW t \in Seq(Items), NEW s \in Seq(Items), NEW b, Remains(t, s, b),
           NEW S, Closed(S, b)
    PROVE  Count(t, S) <= Count(s, S)
<1>1. PICK d \in {0, 1} : /\ Len(s) = Len(t) + d
                          /\ \A i \in 1..Len(t) : Worse(t[i], s[i + d], b)
      BY DEF Remains
<1> DEFINE f == [i \in Places(t, S) |-> i + d]
<1>2. IsFiniteSet(Places(s, S)) /\ IsFiniteSet(Places(t, S))  BY CountType
<1>3. \A i \in Places(t, S) : i \in Nat /\ i + d \in Places(s, S)  BY <1>1 DEF Places, Closed
<1>4. f \in Injection(Places(t, S), Places(s, S))  BY <1>3 DEF Injection, IsInjective
<1>5. QED  BY <1>2, <1>4, FS_Injection DEF Count

\* What follows the head: one less when the head was counted.
LEMMA CountTail ==
    ASSUME NEW I, NEW s \in Seq(I), s # <<>>, NEW S
    PROVE  Count(s, S) = Count(Tail(s), S) + (IF Head(s) \in S THEN 1 ELSE 0)
<1> DEFINE t == Tail(s)
           P == Places(s, S) \ {1}
           f == [i \in Places(t, S) |-> i + 1]
<1>1. t \in Seq(I) /\ Len(t) \in Nat /\ Len(s) = Len(t) + 1 /\ \A i \in 1..Len(t) : t[i] = s[i + 1]
      OBVIOUS
<1>2. IsFiniteSet(Places(s, S)) /\ IsFiniteSet(Places(t, S))  BY <1>1, CountType
<1>3. \A i \in Places(t, S) : i \in Nat /\ i + 1 \in P  BY <1>1 DEF Places
<1>4. \A i \in P : i \in Nat /\ i - 1 \in Places(t, S) /\ (i - 1) + 1 = i  BY <1>1 DEF Places
<1>5. f \in Bijection(Places(t, S), P)
  <2>1. f \in Injection(Places(t, S), P)  BY <1>3 DEF Injection, IsInjective
  <2>2. f \in Surjection(Places(t, S), P)
    <3>1. \A i \in P : \E j \in Places(t, S) : f[j] = i  BY <1>4
    <3>2. f \in [Places(t, S) -> P]  BY <1>3
    <3>3. QED  BY <3>1, <3>2 DEF Surjection
  <2>3. QED  BY <2>1, <2>2 DEF Bijection
<1>6. IsFiniteSet(P) /\ Cardinality(P) = Count(t, S)
      BY <1>2, <1>5, FS_Bijection DEF Count, ExistsBijection
<1>7. CASE Head(s) \in S
  <2>1. Places(s, S) = P \cup {1} /\ 1 \notin P  BY <1>1, <1>7 DEF Places
  <2>2. Count(s, S) = Cardinality(P) + 1  BY <1>6, <2>1, FS_AddElement DEF Count
  <2>3. QED  BY <1>6, <1>7, <2>2
<1>8. CASE Head(s) \notin S
  <2>1. Places(s, S) = P  BY <1>1, <1>8 DEF Places
  <2>2. Count(t, S) \in Nat  BY <1>1, CountType
  <2>3. Count(s, S) = Cardinality(P)  BY <2>1 DEF Count
  <2>4. QED  BY <1>6, <1>8, <2>2, <2>3
<1>9. QED  BY <1>7, <1>8

\* One item more: one more when it is counted.
LEMMA CountAppend ==
    ASSUME NEW I, NEW s \in Seq(I), NEW a, NEW S
    PROVE  Count(s \o <<a>>, S) = Count(s, S) + (IF a \in S THEN 1 ELSE 0)
<1> DEFINE t == s \o <<a>>
           n == Len(s) + 1
<1>1. Len(s) \in Nat /\ Len(t) = n /\ t[n] = a /\ \A i \in 1..Len(s) : t[i] = s[i]
      OBVIOUS
<1>2. IsFiniteSet(Places(s, S)) /\ Count(s, S) \in Nat  BY <1>1, CountType
<1>3. CASE a \in S
  <2>1. Places(t, S) = Places(s, S) \cup {n} /\ n \notin Places(s, S)  BY <1>1, <1>3 DEF Places
  <2>2. Count(t, S) = Count(s, S) + 1  BY <1>2, <2>1, FS_AddElement DEF Count
  <2>3. QED  BY <1>3, <2>2
<1>4. CASE a \notin S
  <2>1. Places(t, S) = Places(s, S)  BY <1>1, <1>4 DEF Places
  <2>2. QED  BY <1>2, <1>4, <2>1 DEF Count
<1>5. QED  BY <1>3, <1>4

\* The queues the actions make of one: itself, what follows its head, and the
\* one with its head damaged.
LEMMA RemainsTail ==
    ASSUME NEW s \in Seq(Items), NEW b
    PROVE  /\ Remains(s, s, b)
           /\ s # <<>> => /\ Tail(s) \in Seq(Items) /\ Head(s) \in Items
                          /\ Remains(Tail(s), s, b)
<1>1. Remains(s, s, b)  BY DEF Remains, Worse
<1>2. CASE s # <<>>
  <2>1. /\ Tail(s) \in Seq(Items) /\ Head(s) \in Items /\ Len(s) = Len(Tail(s)) + 1
        /\ \A i \in 1..Len(Tail(s)) : Tail(s)[i] = s[i + 1]
        BY <1>2
  <2>2. QED  BY <2>1, <1>1 DEF Remains, Worse
<1>3. QED  BY <1>1, <1>2

LEMMA RemainsDamaged ==
    ASSUME NEW s \in Seq(Items), s # <<>>, NEW b, NEW g \in Items, Worse(g, Head(s), b)
    PROVE  <<g>> \o Tail(s) \in Seq(Items) /\ Remains(<<g>> \o Tail(s), s, b)
<1> DEFINE t == <<g>> \o Tail(s)
<1>1. t \in Seq(Items) /\ Len(t) = Len(s) /\ t[1] = g /\ \A i \in 2..Len(t) : t[i] = s[i]
      OBVIOUS
<1>2. \A i \in 1..Len(t) : i = 1 \/ i \in 2..Len(t)  BY <1>1
<1>3. \A i \in 1..Len(t) : Worse(t[i], s[i], b)  BY <1>1, <1>2 DEF Worse
<1>4. Len(s) = Len(t) + 0 /\ \A i \in 1..Len(t) : Worse(t[i], s[i + 0], b)  BY <1>1, <1>3
<1> HIDE DEF t
<1>5. Remains(t, s, b)  BY <1>4 DEF Remains
<1>6. QED  BY <1>1, <1>5 DEF t

\* What a queue holds once items are put after it.
LEMMA HasJoin ==
    ASSUME NEW s \in Seq(Items), NEW t \in Seq(Items), NEW S
    PROVE  /\ s \o t \in Seq(Items)
           /\ Has(s \o t, S) <=> Has(s, S) \/ Has(t, S)
<1> DEFINE u == s \o t
<1>1. /\ u \in Seq(Items) /\ Len(u) = Len(s) + Len(t)
      /\ \A i \in 1..Len(u) : u[i] = IF i <= Len(s) THEN s[i] ELSE t[i - Len(s)]
      OBVIOUS
<1>2. \A i \in 1..Len(s) : i \in 1..Len(u) /\ u[i] = s[i]  BY <1>1
<1>3. \A i \in 1..Len(t) : i + Len(s) \in 1..Len(u) /\ u[i + Len(s)] = t[i]  BY <1>1
<1>4. \A i \in 1..Len(u) : \/ i \in 1..Len(s) /\ u[i] = s[i]
                           \/ i - Len(s) \in 1..Len(t) /\ u[i] = t[i - Len(s)]  BY <1>1
<1>5. QED  BY <1>1, <1>2, <1>3, <1>4 DEF Has

LEMMA BeforeJoin ==
    ASSUME NEW s \in Seq(Items), NEW t \in Seq(Items), NEW S, NEW T, Before(s \o t, S, T)
    PROVE  Before(s, S, T) \/ Before(t, S, T) \/ (Has(s, S) /\ Has(t, T))
<1> DEFINE u == s \o t
           n == Len(s)
<1>1. /\ u \in Seq(Items) /\ Len(u) = n + Len(t) /\ n \in Nat /\ Len(t) \in Nat
      /\ \A i \in 1..Len(u) : u[i] = IF i <= n THEN s[i] ELSE t[i - n]
      OBVIOUS
<1>2. PICK i \in 1..Len(u), j \in 1..Len(u) : i < j /\ u[i] \in S /\ u[j] \in T  BY DEF Before
<1>3. CASE j <= n
  <2>1. i \in 1..n /\ j \in 1..n /\ s[i] \in S /\ s[j] \in T  BY <1>1, <1>2, <1>3
  <2>2. QED  BY <1>2, <2>1 DEF Before
<1>4. CASE i > n
  <2>1. i - n \in 1..Len(t) /\ j - n \in 1..Len(t) /\ i - n < j - n  BY <1>1, <1>2, <1>4
  <2>2. t[i - n] \in S /\ t[j - n] \in T  BY <1>1, <1>2, <1>4
  <2>3. QED  BY <2>1, <2>2 DEF Before
<1>5. CASE i <= n /\ j > n
  <2>1. i \in 1..n /\ s[i] \in S /\ j - n \in 1..Len(t) /\ t[j - n] \in T  BY <1>1, <1>2, <1>5
  <2>2. QED  BY <2>1 DEF Has
<1>6. QED  BY <1>1, <1>2, <1>3, <1>4, <1>5

\* Damage makes no reply of a frame, no frame of a reply, and no
\* acknowledgement; it leaves the place of a frame in the message alone.
LEMMA ClosedSets ==
    ASSUME NEW b, NEW p \in Nat
    PROVE  /\ Closed(Replies, b) /\ Closed(Acks, b) /\ Closed(Frames, b)
           /\ Closed(After(p), b) /\ Closed(UpTo(p), b)
<1>1. \A g \in Replies : g.b \in AckBytes  BY DEF Replies
<1>2. \A g \in Frames : g.b = "SOH"  BY DEF Frames
<1>3. Byte("junk") \in Replies /\ Byte("junk") # Byte("ACKCOMP")  BY DEF Byte, Replies, AckBytes
<1>4. "SOH" \notin AckBytes  BY DEF AckBytes
<1>5. Acks \subseteq Replies  BY DEF Acks, Replies, Byte, AckBytes
<1>6. Closed(Replies, b)  BY <1>1, <1>2, <1>3, <1>4 DEF Closed, Worse
<1>7. Closed(Acks, b)  BY <1>1, <1>2, <1>3, <1>4, <1>5 DEF Closed, Worse, Acks
<1>8. Closed(Frames, b)  BY <1>1, <1>2, <1>3, <1>4 DEF Closed, Worse
<1>9. Closed(After(p), b) /\ Closed(UpTo(p), b)
      BY <1>1, <1>2, <1>3, <1>4 DEF Closed, Worse, After, UpTo
<1>10. QED  BY <1>6, <1>7, <1>8, <1>9

-----------------------------------------------------------------------------
(* Numbers modulo m.                                                         *)

LEMMA Division ==
    ASSUME NEW m \in Nat, m > 0, NEW n \in Nat
    PROVE  n % m \in 0..m - 1 /\ n \div m \in Int /\ n = m * (n \div m) + (n % m)
BY SMT

LEMMA Unique ==
    ASSUME NEW m \in Nat, m > 0, NEW q \in Int, NEW k \in Int, NEW r \in 0..m - 1, NEW s \in 0..m - 1,
           m * q + r = m * k + s
    PROVE  q = k /\ r = s
<1>1. m * (q - k) = s - r  OBVIOUS
<1>2. CASE q > k
  <2>1. m * (q - k) >= m  BY <1>2
  <2>2. QED  BY <1>1, <2>1
<1>3. CASE q < k
  <2>1. m * (q - k) <= 0 - m  BY <1>3
  <2>2. QED  BY <1>1, <2>1
<1>4. QED  BY <1>1, <1>2, <1>3

LEMMA ModType ==
    ASSUME NEW m \in Nat, m > 0, NEW n \in Nat
    PROVE  n % m \in 0..m - 1
BY Division

\* Adding one before or after taking the remainder is the same.
LEMMA ModNext ==
    ASSUME NEW m \in Nat, m > 1, NEW n \in Nat
    PROVE  (n + 1) % m = ((n % m) + 1) % m
<1>1. PICK q \in Int, r \in 0..m - 1 : r = n % m /\ n = m * q + r  BY Division
<1>2. PICK k \in Int, s \in 0..m - 1 : s = (r + 1) % m /\ r + 1 = m * k + s
  <2>1. r + 1 \in Nat /\ m > 0  OBVIOUS
  <2>2. /\ (r + 1) % m \in 0..m - 1 /\ (r + 1) \div m \in Int
        /\ r + 1 = m * ((r + 1) \div m) + ((r + 1) % m)
        BY <2>1, Division
  <2>3. QED  BY <2>2
<1>3. PICK j \in Int, t \in 0..m - 1 : t = (n + 1) % m /\ n + 1 = m * j + t  BY Division
<1>4. PICK u \in Int : u = q + k  OBVIOUS
<1>5. m * j + t = m * u + s  BY <1>1, <1>2, <1>3, <1>4
<1>6. t = s  BY <1>5, Unique
<1>7. QED  BY <1>1, <1>2, <1>3, <1>6

\* Two numbers less than m apart with one remainder are the same.
LEMMA ModSame ==
    ASSUME NEW m \in Nat, m > 0, NEW a \in Nat, NEW c \in Nat, a % m = c % m, a - c < m, c - a < m
    PROVE  a = c
<1> DEFINE q == a \div m
           k == c \div m
           r == a % m
<1>1. q \in Int /\ r \in 0..m - 1 /\ a = m * q + r  BY Division
<1>2. k \in Int /\ c = m * k + r  BY Division
<1> HIDE DEF q, k, r
<1>3. a - c = m * (q - k)  BY <1>1, <1>2
<1>4. CASE q > k
  <2>1. m * (q - k) >= m  BY <1>1, <1>2, <1>4
  <2>2. QED  BY <1>3, <2>1
<1>5. CASE q < k
  <2>1. m * (k - q) >= m  BY <1>1, <1>2, <1>5
  <2>2. c - a = m * (k - q)  BY <1>1, <1>2
  <2>3. QED  BY <2>1, <2>2
<1>6. QED  BY <1>1, <1>2, <1>4, <1>5

\* The remainder before one that is not zero is one less.
LEMMA ModBefore ==
    ASSUME NEW m \in Nat, m > 1, NEW n \in Nat \ {0}, n % m # 0
    PROVE  (n - 1) % m = (n % m) - 1
<1> DEFINE q == n \div m
           r == n % m
           k == (n - 1) \div m
           s == (n - 1) % m
<1>1. q \in Int /\ r \in 0..m - 1 /\ n = m * q + r  BY Division
<1>2. k \in Int /\ s \in 0..m - 1 /\ n - 1 = m * k + s  BY Division
<1> HIDE DEF q, r, k, s
<1>3. r # 0  BY DEF r
<1>4. m * k + s = m * q + (r - 1) /\ r - 1 \in 0..m - 1  BY <1>1, <1>2, <1>3
<1>5. s = r - 1  BY <1>1, <1>2, <1>4, Unique
<1>6. QED  BY <1>5 DEF r, s

-----------------------------------------------------------------------------
(* The invariant.  One end, the owner x, wrote the last message begun; the   *)
(* other, y, reads it, or still waits for the last acknowledgement of the    *)
(* message before, which x has read whole.                                   *)

\* The numbers tell the frames that can be in play apart: a write is as far
\* ahead of the reader as the frames it sent again, and the acknowledgements an
\* altered number drew, let it be.
Distinguishes ==
    MaxRetries + (IF "seqno" \in Damages THEN MaxFaults ELSE 0) < SeqMod
\* databuf has room for a message (rd_write_data drops the rest).
MessagesFit == \A n \in Sizes : n <= BufSize

\* The last byte of the message before the last one of e.
Prev(e) == IF Len(ends[e]) < 2 THEN 0 ELSE ends[e][Len(ends[e]) - 1]
Writing(e) == turn[e] = "write" /\ wr[e].st # "EXIT"
Idle(e) == turn[e] = "write" /\ wr[e].st = "EXIT"

\* A writer whose application does t and whose last message ends with byte last.
WriterOK(w, t, last) ==
    /\ t # "write" => w.st = "EXIT"
    /\ w.st # "EXIT" => w.remain > 0 /\ w.retrans < MaxRetries
    /\ w.pdata + w.remain = last + 1
    /\ (t # "closed" /\ w.st = "EXIT") => w.remain = 0
    /\ w.seqno = Len(w.cuts) % SeqMod
    /\ w.cuts # <<>> /\ w.cuts[Len(w.cuts)] = w.pdata
    /\ \A i, j \in 1..Len(w.cuts) : i < j => w.cuts[i] < w.cuts[j]

\* A reader whose application does t and was given the bytes g.
ReaderOK(r, t, g) ==
    /\ t # "read" => r.st = "EXIT"
    /\ r.st = "EXIT" => r.buf = <<>>
    /\ r.st # "EXIT" => r.readed = Len(r.buf)
    /\ r.next = r.no % SeqMod
    /\ \A i \in 1..Len(g) : g[i] = i
    /\ \A i \in 1..Len(r.buf) : r.buf[i] = Len(g) + i

\* Who does what: the owner discards nothing and answers nothing while it waits
\* for the answer, and y writes only after it has read the whole message.
Modes(x, y) ==
    /\ turn[x] = "write" => wr[x].st # "EXIT"
    /\ rd[x].st \in {"EXIT", "WAITSOH"} /\ rd[x].buf = <<>>
    /\ turn[x] = "read" => ~Writing(y)
    /\ Idle(y) => Received(y) = LastByte(x)

\* The message of x fits in the buffer of y.
Room(x, y) ==
    /\ Prev(x) <= LastByte(x) /\ LastByte(x) <= Prev(x) + BufSize
    /\ Prev(x) < wr[x].pdata /\ Prev(x) <= Len(got[y])

\* The lines to the owner (lx) and to y (ly), the owner's message beginning
\* after byte p: y acknowledges once its own frames are gone, and what x sent as
\* a reader, its old frames and its acknowledgements, comes before its new frames.
Lines(tx, ty, wy, iy, lx, ly, p) ==
    /\ tx = "read" => ~Has(lx, Frames)
    /\ ~Before(lx, Replies, Frames)
    /\ wy => ~Has(lx, Replies)
    /\ ~Before(ly, After(p), Replies)
    /\ ~Before(ly, Replies, UpTo(p))
    /\ ty = "read" => ~Has(ly, UpTo(p))
    /\ iy => ~Has(ly, Replies)

\* x has read the message of y that it answers.
Answered(x, y) ==
    turn[y] # "closed" =>
        /\ Received(x) = LastByte(y)
        /\ rd[x].no = Len(wr[y].cuts) + (IF Writing(y) THEN 1 ELSE 0)
        /\ Writing(y) => wr[y].remain <= MaxData

\* Where frame n of the writer began, or would begin.
Start(w, n) == IF n <= Len(w.cuts) THEN w.cuts[n] ELSE w.pdata + Lesser(w.remain, MaxData)

\* The reader that expects frame n has what comes before it.
InStep(w, n, received) ==
    /\ n <= Len(w.cuts) + (IF w.remain > 0 THEN 1 ELSE 0)
    /\ received + 1 = Start(w, n)

\* A frame of the message being written carries what its place among the cuts
\* says, and it is at most one frame behind the reader; behind only if sent again.
FrameOK(f, w, n) ==
    /\ n - 1 <= f.no /\ f.no <= Len(w.cuts)
    /\ f.first = Start(w, f.no) /\ f.first + f.len = Start(w, f.no + 1)
    /\ f.good \/ "seqno" \notin Damages => f.seqno = f.no % SeqMod
    /\ ~f.again => f.no >= n
FramesOK(s, w, n, p) == \A i \in 1..Len(s) : s[i] \in After(p) => FrameOK(s[i], w, n)

\* Frames arrive in the order of the cuts, the repetitions after the first.
Ordered(s, p) ==
    \A i, j \in 1..Len(s) :
        (i < j /\ s[i] \in After(p) /\ s[j] \in After(p))
            => s[i].no <= s[j].no /\ (~s[j].again => s[i].no < s[j].no)

\* How far the writer is, or may get, ahead of the reader: the acknowledgements
\* on their way, and those that repeated or misnumbered frames may still draw.
Spurious(p) == {f \in Frames : f.first > p /\ (f.again \/ f.seqno # f.no % SeqMod)}
Ahead(w, r, lx, ly, p) ==
    (Len(w.cuts) - r.no) + Count(lx, Acks)
        + (IF r.st = "DISCARDRETRANS" THEN 1 ELSE 0) + Count(ly, Spurious(p))
Allowed(w, n) == Lesser(w.retrans, MaxRetries - 1) + (IF "seqno" \in Damages THEN n ELSE 0)

\* Writer w and reader r, which has received that many bytes, with the lines to
\* the writer (lx) and to the reader (ly), after n damages of the line.
Exchanging(w, r, received, lx, ly, p, n) ==
    /\ InStep(w, r.no, received)
    /\ FramesOK(ly, w, r.no, p) /\ Ordered(ly, p)
    /\ Ahead(w, r, lx, ly, p) <= Allowed(w, n)
Exchange(x, y) ==
    Exchanging(wr[x], rd[y], Received(y), line[x], line[y], Prev(x), faults)

EndsOK == \A e \in Ends : /\ WriterOK(wr[e], turn[e], LastByte(e))
                          /\ ReaderOK(rd[e], turn[e], got[e])
                          /\ ~Has(line[Peer(e)], After(LastByte(e)))

LinkAt(x, y) ==
    /\ Modes(x, y) /\ Room(x, y)
    /\ Lines(turn[x], turn[y], Writing(y), Idle(y), line[x], line[y], Prev(x))
    /\ Answered(x, y) /\ Exchange(x, y)

IInv == TypeOK /\ EndsOK /\ \E x \in Ends : LinkAt(x, Peer(x))

-----------------------------------------------------------------------------
(* Lemmas about the parts of the invariant.                                  *)

LEMMA Constants ==
    /\ SeqMod \in Nat /\ SeqMod > 1 /\ MaxRetries \in Nat /\ MaxRetries > 0
    /\ MaxData \in Nat /\ MaxData > 0 /\ BufSize \in Nat /\ ReadSize \in Nat
    /\ MaxFaults \in Nat /\ Sizes \subseteq Nat \ {0}
BY LinkAssumption DEF LinkAssumption

LEMMA LesserType ==
    ASSUME NEW m \in Nat, NEW n \in Nat
    PROVE  /\ Lesser(m, n) \in Nat /\ Lesser(m, n) <= m /\ Lesser(m, n) <= n
           /\ Lesser(m, n) = m \/ Lesser(m, n) = n
           /\ m > 0 /\ n > 0 => Lesser(m, n) > 0
BY DEF Lesser

\* A frame is no reply; it is of the new message or of an older one.
LEMMA ItemKinds ==
    ASSUME NEW p \in Nat
    PROVE  /\ \A g \in Frames : g \notin Replies /\ g \notin Acks
           /\ \A g \in Replies : g \notin Frames
           /\ \A g \in Items : g \in Frames \/ g \in Replies
           /\ Acks \subseteq Replies /\ Replies \subseteq Items /\ Frames \subseteq Items
           /\ \A g \in Frames : g \in After(p) <=> g \notin UpTo(p)
           /\ After(p) \subseteq Frames /\ UpTo(p) \subseteq Frames /\ Spurious(p) \subseteq After(p)
<1>1. \A g \in Replies : g.b \in AckBytes  BY DEF Replies
<1>2. \A g \in Frames : g.b = "SOH"  BY DEF Frames
<1>3. "SOH" \notin AckBytes  BY DEF AckBytes
<1>4. Acks \subseteq Replies  BY DEF Acks, Replies, Byte, AckBytes
<1>5. Replies \subseteq Items /\ Frames \subseteq Items /\ \A g \in Items : g \in Frames \/ g \in Replies
      BY DEF Items, Replies
<1>6. \A g \in Frames : g.first \in Nat  BY DEF Frames
<1>7. \A g \in Frames : g \in After(p) <=> g \notin UpTo(p)  BY <1>6 DEF After, UpTo
<1>8. After(p) \subseteq Frames /\ UpTo(p) \subseteq Frames /\ Spurious(p) \subseteq After(p)
      BY DEF After, UpTo, Spurious
<1>9. QED  BY <1>1, <1>2, <1>3, <1>4, <1>5, <1>7, <1>8

\* One item, and the replies a reader sends.
LEMMA OneItem ==
    ASSUME NEW a, NEW S, NEW T
    PROVE  (Has(<<a>>, S) <=> a \in S) /\ ~Before(<<a>>, S, T)
BY DEF Has, Before

LEMMA NoItem ==
    ASSUME NEW S, NEW T
    PROVE  ~Has(<<>>, S) /\ ~Before(<<>>, S, T)
BY DEF Has, Before

LEMMA SeqEqual ==
    ASSUME NEW I, NEW s \in Seq(I), NEW t \in Seq(I), Len(s) = Len(t),
           \A i \in 1..Len(s) : s[i] = t[i]
    PROVE  s = t
OBVIOUS

LEMMA JoinPair ==
    ASSUME NEW s \in Seq(Items), NEW a \in Items, NEW b \in Items
    PROVE  s \o <<a, b>> = (s \o <<a>>) \o <<b>>
<1> DEFINE u == s \o <<a, b>>
           v == s \o <<a>>
           w == v \o <<b>>
<1>1. u \in Seq(Items) /\ Len(u) = Len(s) + 2
      /\ \A i \in 1..Len(u) : u[i] = IF i <= Len(s) THEN s[i] ELSE IF i = Len(s) + 1 THEN a ELSE b
      OBVIOUS
<1>2. v \in Seq(Items) /\ Len(v) = Len(s) + 1
      /\ \A i \in 1..Len(v) : v[i] = IF i <= Len(s) THEN s[i] ELSE a
      OBVIOUS
<1> HIDE DEF v
<1>3. w \in Seq(Items) /\ Len(w) = Len(v) + 1
      /\ \A i \in 1..Len(w) : w[i] = IF i <= Len(v) THEN v[i] ELSE b
      BY <1>2
<1> HIDE DEF u, w
<1>4. \A i \in 1..Len(u) : u[i] = w[i]  BY <1>1, <1>2, <1>3
<1>5. u = w  BY <1>1, <1>2, <1>3, <1>4, SeqEqual
<1>6. QED  BY <1>5 DEF u, w, v

LEMMA ReplyPair ==
    ASSUME NEW out \in {send_ack, send_nack}
    PROVE  /\ out \in Seq(Items) /\ ~Has(out, Frames) /\ Has(out, Replies)
           /\ ~Before(out, Replies, Frames)
           /\ Has(out, Acks) <=> out = send_ack
           /\ \A s \in Seq(Items) :
                Count(s \o out, Acks) = Count(s, Acks) + (IF out = send_ack THEN 1 ELSE 0)
<1>1. PICK a \in Replies, b \in Replies : out = <<a, b>> /\ a \notin Acks
                                          /\ (b \in Acks <=> out = send_ack)
  <2>1. \A x \in AckBytes : Byte(x) \in Replies  BY DEF Byte, Replies
  <2>2. Byte("ACK") \notin Acks /\ Byte("NACK") \notin Acks /\ Byte("NACKCOMP") \notin Acks
        /\ Byte("ACKCOMP") \in Acks  BY DEF Byte, Acks
  <2>3. {"ACK", "ACKCOMP", "NACK", "NACKCOMP"} \subseteq AckBytes  BY DEF AckBytes
  <2>4. CASE out = send_ack  BY <2>1, <2>2, <2>3, <2>4 DEF send_ack
  <2>5. CASE out = send_nack
    <3>1. out # send_ack
      <4>1. send_nack[1] # send_ack[1]  BY DEF send_ack, send_nack, Byte
      <4>2. QED  BY <4>1, <2>5
    <3>2. QED  BY <2>1, <2>2, <2>3, <2>5, <3>1 DEF send_nack
  <2>6. QED  BY <2>4, <2>5
<1>2. a \in Items /\ b \in Items /\ a \notin Frames /\ b \notin Frames  BY ItemKinds, 0 \in Nat
<1>3. out \in Seq(Items) /\ Len(out) = 2 /\ out[1] = a /\ out[2] = b  BY <1>1, <1>2
<1>4. \A i \in 1..Len(out) : i = 1 \/ i = 2  BY <1>3
<1>5. ~Has(out, Frames) /\ Has(out, Replies) /\ ~Before(out, Replies, Frames)
      BY <1>2, <1>3, <1>4 DEF Has, Before
<1>6. Has(out, Acks) <=> out = send_ack  BY <1>1, <1>3, <1>4 DEF Has
<1>7. ASSUME NEW s \in Seq(Items)
      PROVE  Count(s \o out, Acks) = Count(s, Acks) + (IF out = send_ack THEN 1 ELSE 0)
  <2>1. s \o out = (s \o <<a>>) \o <<b>>  BY <1>1, <1>2, JoinPair
  <2>2. s \o <<a>> \in Seq(Items)  BY <1>2
  <2>3. Count(s \o out, Acks) = Count(s \o <<a>>, Acks) + (IF b \in Acks THEN 1 ELSE 0)
        BY <2>1, <2>2, CountAppend
  <2>4. Count(s \o <<a>>, Acks) = Count(s, Acks)
    <3>1. Count(s \o <<a>>, Acks) = Count(s, Acks) + (IF a \in Acks THEN 1 ELSE 0)  BY CountAppend
    <3>2. Count(s, Acks) \in Nat  BY CountType
    <3>3. QED  BY <1>1, <3>1, <3>2
  <2>5. QED  BY <1>1, <2>3, <2>4
<1>8. QED  BY <1>3, <1>5, <1>6, <1>7

\* What a step may do to the lines: it takes or damages a head, it puts frames
\* of the new message on the line to y, and on the line to the owner replies, or
\* frames while there is no reply; what the new state says of the lines must be
\* true of what remains.
\* What the new modes say of the lines, of which kx and ky remain and to which
\* ox was added.
LinesAllow(ux, uy, vy, jy, kx, ky, ox, p) ==
    /\ ux = "read" => ~Has(kx, Frames) /\ ~Has(ox, Frames)
    /\ vy => ~Has(kx, Replies) /\ ~Has(ox, Replies)
    /\ uy = "read" => ~Has(ky, UpTo(p))
    /\ jy => ~Has(ky, Replies)

LEMMA LinesStep ==
    ASSUME NEW lx \in Seq(Items), NEW ly \in Seq(Items), NEW p \in Nat, NEW b,
           NEW kx \in Seq(Items), Remains(kx, lx, b), NEW ky \in Seq(Items), Remains(ky, ly, b),
           NEW ox \in Seq(Items), NEW oy \in Seq(Items),
           ~Has(oy, Replies), ~Has(oy, UpTo(p)), ~Before(ox, Replies, Frames),
           ~Has(ox, Frames) \/ ~Has(kx, Replies),
           NEW tx, NEW ty, NEW wy, NEW iy, Lines(tx, ty, wy, iy, lx, ly, p),
           NEW ux, NEW uy, NEW vy, NEW jy, LinesAllow(ux, uy, vy, jy, kx, ky, ox, p)
    PROVE  Lines(ux, uy, vy, jy, kx \o ox, ky \o oy, p)
<1>1. /\ Closed(Replies, b) /\ Closed(Frames, b) /\ Closed(After(p), b) /\ Closed(UpTo(p), b)
      BY ClosedSets
<1>2. ~Before(kx, Replies, Frames)  BY <1>1, RemainsBefore DEF Lines
<1>3. ~Before(ky, After(p), Replies) /\ ~Before(ky, Replies, UpTo(p))
      BY <1>1, RemainsBefore DEF Lines
<1>4. ~Before(oy, After(p), Replies) /\ ~Before(oy, Replies, UpTo(p))
      BY DEF Has, Before
<1>5. \A S : /\ Has(kx \o ox, S) <=> Has(kx, S) \/ Has(ox, S)
             /\ Has(ky \o oy, S) <=> Has(ky, S) \/ Has(oy, S)
      BY HasJoin
<1>6. ~Before(kx \o ox, Replies, Frames)  BY <1>2, BeforeJoin
<1>7. ~Before(ky \o oy, After(p), Replies)  BY <1>3, <1>4, BeforeJoin
<1>8. ~Before(ky \o oy, Replies, UpTo(p))  BY <1>3, <1>4, BeforeJoin
<1>9. QED  BY <1>5, <1>6, <1>7, <1>8 DEF Lines, LinesAllow

\* Losing or damaging a head leaves the frames as they should be.
LEMMA FramesRemain ==
    ASSUME NEW s \in Seq(Items), NEW t \in Seq(Items), NEW b, Remains(t, s, b),
           b => "seqno" \in Damages, NEW p \in Nat, NEW w, NEW n,
           FramesOK(s, w, n, p), Ordered(s, p)
    PROVE  FramesOK(t, w, n, p) /\ Ordered(t, p)
<1>1. PICK d \in {0, 1} : /\ Len(s) = Len(t) + d
                          /\ \A i \in 1..Len(t) : Worse(t[i], s[i + d], b)
      BY DEF Remains
<1>2. \A i \in 1..Len(t) : i + d \in 1..Len(s) /\ t[i] \in Items /\ s[i + d] \in Items  BY <1>1
<1>3. \A g, h \in Items : Worse(g, h, b) /\ g \in After(p) =>
          /\ h \in After(p) /\ g.no = h.no /\ g.again = h.again
          /\ g.first = h.first /\ g.len = h.len /\ (g.good => g = h)
          /\ g.seqno = h.seqno \/ "seqno" \in Damages
  <2> SUFFICES ASSUME NEW g \in Items, NEW h \in Items, Worse(g, h, b), g \in After(p)
               PROVE  /\ h \in After(p) /\ g.no = h.no /\ g.again = h.again
                      /\ g.first = h.first /\ g.len = h.len /\ (g.good => g = h)
                      /\ g.seqno = h.seqno \/ "seqno" \in Damages
      OBVIOUS
  <2>1. Closed(After(p), b)  BY ClosedSets
  <2>2. h \in After(p)  BY <2>1 DEF Closed
  <2>3. h \notin Replies \/ g # Byte("junk")
    <3>1. Byte("junk") \in Replies  BY DEF Byte, Replies, AckBytes
    <3>2. QED  BY <3>1, ItemKinds
  <2>4. QED  BY <2>2, <2>3 DEF Worse
<1>4. ASSUME NEW i \in 1..Len(t), t[i] \in After(p)
      PROVE  s[i + d] \in After(p) /\ FrameOK(t[i], w, n)
  <2>1. s[i + d] \in After(p)  BY <1>1, <1>2, <1>3, <1>4
  <2>2. FrameOK(s[i + d], w, n)  BY <1>2, <2>1 DEF FramesOK
  <2> DEFINE g == t[i]
             h == s[i + d]
  <2>3. /\ g.no = h.no /\ g.again = h.again /\ g.first = h.first /\ g.len = h.len /\ (g.good => g = h)
        /\ g.seqno = h.seqno \/ "seqno" \in Damages
        BY <1>1, <1>2, <1>3, <1>4
  <2> HIDE DEF g, h
  <2>4. FrameOK(h, w, n) => FrameOK(g, w, n)  BY <2>3 DEF FrameOK
  <2>5. QED  BY <2>1, <2>2, <2>4 DEF g, h
<1>5. FramesOK(t, w, n, p)  BY <1>4 DEF FramesOK
<1>6. ASSUME NEW i \in 1..Len(t), NEW j \in 1..Len(t), i < j, t[i] \in After(p), t[j] \in After(p)
      PROVE  t[i].no <= t[j].no /\ (~t[j].again => t[i].no < t[j].no)
  <2>1. i + d < j + d  BY <1>1, <1>6
  <2>2. s[i + d] \in After(p) /\ s[j + d] \in After(p)  BY <1>4, <1>6
  <2>3. s[i + d].no <= s[j + d].no /\ (~s[j + d].again => s[i + d].no < s[j + d].no)
        BY <1>2, <2>1, <2>2 DEF Ordered
  <2>4. t[i].no = s[i + d].no /\ t[j].no = s[j + d].no /\ t[j].again = s[j + d].again
        BY <1>1, <1>2, <1>3, <1>6
  <2>5. QED  BY <2>3, <2>4
<1>7. QED  BY <1>5, <1>6 DEF Ordered

\* One frame more, the last of the cuts: sent again, or the first with its number.
LEMMA FramesSend ==
    ASSUME NEW s \in Seq(Items), NEW p \in Nat, NEW w, NEW n, FramesOK(s, w, n, p), Ordered(s, p),
           NEW f \in Frames, FrameOK(f, w, n),
           \A i \in 1..Len(s) : s[i] \in After(p) =>
               s[i].no <= f.no /\ (~f.again => s[i].no < f.no)
    PROVE  FramesOK(s \o <<f>>, w, n, p) /\ Ordered(s \o <<f>>, p)
<1> DEFINE t == s \o <<f>>
<1>1. Len(t) = Len(s) + 1 /\ Len(s) \in Nat
      /\ \A i \in 1..Len(t) : IF i <= Len(s) THEN i \in 1..Len(s) /\ t[i] = s[i]
                              ELSE i = Len(s) + 1 /\ t[i] = f
      OBVIOUS
<1> HIDE DEF t
<1>2. FramesOK(t, w, n, p)  BY <1>1 DEF FramesOK
<1>3. Ordered(t, p)
  <2> SUFFICES ASSUME NEW i \in 1..Len(t), NEW j \in 1..Len(t), i < j,
                      t[i] \in After(p), t[j] \in After(p)
               PROVE  t[i].no <= t[j].no /\ (~t[j].again => t[i].no < t[j].no)
      BY DEF Ordered
  <2>1. i <= Len(s)  BY <1>1
  <2>2. CASE j <= Len(s)  BY <1>1, <2>1, <2>2 DEF Ordered
  <2>3. CASE j = Len(s) + 1  BY <1>1, <2>1, <2>3
  <2>4. QED  BY <1>1, <2>2, <2>3
<1>4. QED  BY <1>2, <1>3 DEF t

-----------------------------------------------------------------------------
(* Steps of the writer.                                                      *)

\* What the handlers leave of the writer's numbers: they stay, or those of the
\* next frame follow.
SameNumbers(v, w) ==
    v.pdata = w.pdata /\ v.remain = w.remain /\ v.seqno = w.seqno /\ v.cuts = w.cuts
Advanced(v, w) ==
    /\ v.pdata = w.pdata + Lesser(w.remain, MaxData) /\ v.remain = w.remain - Lesser(w.remain, MaxData)
    /\ v.seqno = (w.seqno + 1) % SeqMod /\ v.cuts = Append(w.cuts, v.pdata) /\ v.retrans = w.retrans

LEMMA StartIncreases ==
    ASSUME NEW w \in Writers, NEW t, NEW last, WriterOK(w, t, last)
    PROVE  /\ Len(w.cuts) \in Nat \ {0}
           /\ \A i \in 1..Len(w.cuts) + 1 : Start(w, i) \in Nat
           /\ Start(w, Len(w.cuts)) = w.pdata
           /\ Start(w, Len(w.cuts) + 1) = w.pdata + Lesser(w.remain, MaxData)
           /\ \A i, j \in 1..Len(w.cuts) + 1 :
                 i < j /\ (w.remain > 0 \/ j <= Len(w.cuts)) => Start(w, i) < Start(w, j)
<1> DEFINE n == Len(w.cuts)
           c == w.cuts
           m == Lesser(w.remain, MaxData)
<1>1. /\ c \in Seq(Nat \ {0}) /\ w.pdata \in Nat /\ w.remain \in Nat  BY DEF Writers
<1>2. n \in Nat \ {0} /\ c[n] = w.pdata /\ \A i \in 1..n : c[i] \in Nat
      BY <1>1 DEF WriterOK
<1>3. m \in Nat /\ (w.remain > 0 => m > 0)  BY <1>1, LesserType, Constants
<1>4. \A i \in 1..n + 1 : i <= n \/ i = n + 1  BY <1>2
<1>5. \A i \in 1..n : Start(w, i) = c[i]  BY <1>2 DEF Start
<1>6. Start(w, n + 1) = w.pdata + m  BY <1>2 DEF Start
<1>7. \A i, j \in 1..n : i < j => c[i] < c[j]  BY DEF WriterOK
<1> HIDE DEF n, c, m
<1>8. \A i \in 1..n : c[i] <= w.pdata  BY <1>1, <1>2, <1>7
<1>9. ASSUME NEW i \in 1..n + 1 PROVE Start(w, i) \in Nat
  <2>1. CASE i \in 1..n  BY <1>2, <1>5, <2>1
  <2>2. CASE i = n + 1  BY <1>1, <1>3, <1>6, <2>2
  <2>3. QED  BY <1>2, <1>4, <2>1, <2>2
<1>10. ASSUME NEW i \in 1..n + 1, NEW j \in 1..n + 1, i < j, w.remain > 0 \/ j <= n
       PROVE  Start(w, i) < Start(w, j)
  <2>1. i \in 1..n  BY <1>2, <1>10
  <2>2. CASE j <= n  BY <1>2, <1>5, <1>7, <1>10, <2>1, <2>2
  <2>3. CASE j = n + 1  BY <1>1, <1>2, <1>3, <1>5, <1>6, <1>8, <1>10, <2>1, <2>3
  <2>4. QED  BY <1>4, <2>2, <2>3
<1>11. QED  BY <1>2, <1>5, <1>6, <1>9, <1>10 DEF n, m

\* The frame a writer sends is the one its cuts end with.
LEMMA SentFrame ==
    ASSUME NEW w \in Writers, NEW t, NEW last, WriterOK(w, t, last), w.remain > 0,
           NEW again \in BOOLEAN
    PROVE  LET f == make_dmframe(w, again)
           IN  /\ f \in Frames /\ f.no = Len(w.cuts) /\ f.again = again /\ f.good
               /\ f.first = w.pdata /\ f.seqno = f.no % SeqMod
               /\ \A n \in Nat : (n <= f.no + 1 /\ (~again => n <= f.no)) => FrameOK(f, w, n)
<1> DEFINE f == make_dmframe(w, again)
           m == Lesser(w.remain, MaxData)
<1>1. /\ w.pdata \in Nat \ {0} /\ w.remain \in Nat /\ w.seqno \in 0..SeqMod - 1
      BY DEF Writers
<1>2. m \in 1..MaxData
  <2>1. m \in Nat /\ m <= MaxData /\ (w.remain > 0 /\ MaxData > 0 => m > 0)
        BY <1>1, LesserType, Constants
  <2>2. QED  BY <2>1, Constants
<1>3. Len(w.cuts) \in Nat \ {0} /\ Start(w, Len(w.cuts)) = w.pdata
      /\ Start(w, Len(w.cuts) + 1) = w.pdata + m
      BY StartIncreases
<1>4. w.seqno = Len(w.cuts) % SeqMod  BY DEF WriterOK
<1> HIDE DEF m
<1>5. f = [b |-> "SOH", seqno |-> w.seqno, first |-> w.pdata, len |-> m, good |-> TRUE,
           no |-> Len(w.cuts), again |-> again]
      BY DEF make_dmframe, Frame, m
<1>6. f \in Frames  BY <1>1, <1>2, <1>3, <1>5 DEF Frames
<1>7. /\ f.no = Len(w.cuts) /\ f.again = again /\ f.good /\ f.first = w.pdata /\ f.len = m
      /\ f.seqno = w.seqno
      BY <1>5
<1> HIDE DEF f
<1>8. ASSUME NEW n \in Nat, n <= f.no + 1, ~again => n <= f.no
      PROVE  FrameOK(f, w, n)
      BY <1>3, <1>4, <1>7, <1>8 DEF FrameOK
<1>9. QED  BY <1>4, <1>6, <1>7, <1>8 DEF f

\* Moving on to the next frame moves no beginning of a frame.
LEMMA AdvancedKeeps ==
    ASSUME NEW w \in Writers, NEW t, NEW last, WriterOK(w, t, last), w.remain > 0,
           NEW v \in Writers, Advanced(v, w)
    PROVE  /\ Len(v.cuts) = Len(w.cuts) + 1
           /\ \A k \in 1..Len(w.cuts) + 1 : Start(v, k) = Start(w, k)
           /\ \A n \in Nat \ {0}, k \in Nat : InStep(w, n, k) => InStep(v, n, k) /\ n <= Len(v.cuts)
           /\ \A s \in Seq(Items), n, p \in Nat : FramesOK(s, w, n, p) => FramesOK(s, v, n, p)
<1> DEFINE n == Len(w.cuts)
<1>1. /\ w.cuts \in Seq(Nat \ {0}) /\ v.cuts \in Seq(Nat \ {0}) /\ w.pdata \in Nat
      /\ w.remain \in Nat /\ v.remain \in Nat  BY DEF Writers
<1>2. n \in Nat \ {0} /\ Start(w, n + 1) = w.pdata + Lesser(w.remain, MaxData)
      /\ Len(v.cuts) = n + 1 /\ v.cuts = Append(w.cuts, v.pdata)
      /\ v.pdata = w.pdata + Lesser(w.remain, MaxData)
      BY <1>1, StartIncreases DEF Advanced
<1>3. \A k \in 1..n : v.cuts[k] = w.cuts[k]  BY <1>1, <1>2
<1>4. v.cuts[n + 1] = v.pdata  BY <1>1, <1>2
<1> HIDE DEF n
<1>5. ASSUME NEW k \in 1..n + 1 PROVE Start(v, k) = Start(w, k)
  <2>1. Start(v, k) = v.cuts[k]  BY <1>2 DEF Start
  <2>2. CASE k <= n
    <3>1. Start(w, k) = w.cuts[k]  BY <2>2 DEF Start, n
    <3>2. QED  BY <1>2, <1>3, <2>1, <2>2, <3>1
  <2>3. CASE k = n + 1  BY <1>2, <1>4, <2>1, <2>3
  <2>4. QED  BY <1>2, <2>2, <2>3
<1>6. ASSUME NEW q \in Nat \ {0}, NEW k \in Nat, InStep(w, q, k)
      PROVE  InStep(v, q, k) /\ q <= Len(v.cuts)
  <2>1. q <= n + 1  BY <1>2, <1>6 DEF InStep, n
  <2>2. Start(v, q) = Start(w, q)  BY <1>2, <1>5, <2>1
  <2>3. QED  BY <1>1, <1>2, <1>6, <2>1, <2>2 DEF InStep
<1>7. ASSUME NEW s \in Seq(Items), NEW q \in Nat, NEW p \in Nat, FramesOK(s, w, q, p)
      PROVE  FramesOK(s, v, q, p)
  <2> SUFFICES ASSUME NEW i \in 1..Len(s), s[i] \in After(p)
               PROVE  FrameOK(s[i], v, q)
      BY DEF FramesOK
  <2> DEFINE f == s[i]
  <2>1. f \in Frames /\ FrameOK(f, w, q)  BY <1>7, ItemKinds DEF FramesOK
  <2>2. f.no \in Nat \ {0}  BY <2>1 DEF Frames
  <2> HIDE DEF f
  <2>3. f.no <= n  BY <2>1 DEF FrameOK, n
  <2>4. Start(v, f.no) = Start(w, f.no) /\ Start(v, f.no + 1) = Start(w, f.no + 1)
        BY <1>2, <1>5, <2>2, <2>3
  <2>5. FrameOK(f, v, q)  BY <1>2, <2>1, <2>2, <2>3, <2>4 DEF FrameOK
  <2>6. QED  BY <2>5 DEF f
<1>8. QED  BY <1>2, <1>5, <1>6, <1>7 DEF n

Events == {"ACK", "ACKCOMP", "NACK", "NACKCOMP", "UNBYTE", "TXFRAMETO", "TXUPLAYERTO"}
Errors == {"MAXRETRIES", "TXUPLAYER_TO", "FATAL"}
\* A writer that waits for an acknowledgement.
Waiting(w) == w \in Writers /\ w.st # "EXIT" /\ w.remain > 0 /\ w.retrans < MaxRetries

\* The four things an event leads to.
\* The writer goes on waiting; only a byte of a reply changes its state.
Waits(o, w, event) ==
    /\ o.out = <<>> /\ o.error = "NOERROR" /\ o.fault = 0 /\ o.w = [w EXCEPT !.st = o.w.st]
    /\ \/ o.w.st = w.st /\ <<w.st, event>> \notin wr_retrans
          /\ <<w.st, event>> \notin {<<"FRAMESENDED", "ACK">>, <<"ACKRCV", "ACKCOMP">>}
       \/ w.st = "FRAMESENDED" /\ event = "ACK" /\ o.w.st = "ACKRCV"
       \/ w.st = "FRAMESENDED" /\ event = "NACK" /\ o.w.st = "NACKRCV"
       \/ w.st = "NACKRCV" /\ event = "UNBYTE" /\ o.w.st = "FRAMESENDED"
\* The frame is sent again.
Resends(o, w, event) ==
    /\ <<w.st, event>> \in wr_retrans /\ SameNumbers(o.w, w) /\ o.w.st = "FRAMESENDED"
    /\ o.w.retrans = w.retrans + 1 /\ o.w.retrans < MaxRetries
    /\ o.out = <<make_dmframe(o.w, TRUE)>> /\ o.error = "NOERROR" /\ o.fault = 0
\* The write ends with an error.
GivesUp(o, w, event) ==
    /\ SameNumbers(o.w, w) /\ o.w.st = "EXIT" /\ o.w.retrans \in {w.retrans, w.retrans + 1}
    /\ o.out = <<>> /\ o.error \in Errors /\ o.fault \in {0, 1}
    /\ o.error = "MAXRETRIES" => <<w.st, event>> \in wr_retrans /\ w.retrans + 1 = MaxRetries
\* The frame was acknowledged: the next one is sent, or there is none.
MovesOn(o, w, event) ==
    /\ w.st = "ACKRCV" /\ event = "ACKCOMP" /\ Advanced(o.w, w)
    /\ \/ /\ o.w.remain > 0 /\ o.w.st = "FRAMESENDED" /\ o.fault = 0
          /\ o.out = <<make_dmframe(o.w, FALSE)>> /\ o.error = "NOERROR"
       \/ o.w.remain = 0 /\ o.w.st = "EXIT" /\ o.out = <<>> /\ o.error = "NOERROR" /\ o.fault = 0
       \/ o.w.remain > 0 /\ o.w.st = "EXIT" /\ o.out = <<>> /\ o.error = "FATAL" /\ o.fault = 1

LEMMA SendFrame ==
    ASSUME NEW w \in Writers, NEW which \in {"again", "next"}, NEW o \in wr_send_frame(w, which)
    PROVE  /\ o.w \in Writers /\ SameNumbers(o.w, w) /\ o.w.retrans = w.retrans
           /\ o.w.frameTO = w.frameTO /\ o.w.uplayerTO = w.uplayerTO
           /\ \/ /\ o.w.st = "FRAMESENDED" /\ o.out = <<make_dmframe(o.w, which = "again")>>
                 /\ o.error = "NOERROR" /\ o.fault = 0
              \/ o.w.st = "EXIT" /\ o.out = <<>> /\ o.error = "FATAL" /\ o.fault = 1
<1> DEFINE waiting == [w EXCEPT !.st = "FRAMESENDED", !.timer = TRUE]
           ended == [w EXCEPT !.st = "EXIT", !.timer = FALSE]
<1>1. \/ o = Outcome(waiting, <<make_dmframe(w, which = "again")>>, "NOERROR", 0)
      \/ o = ExitWrite(w, "FATAL", 1)
      BY DEF wr_send_frame
<1>2. /\ waiting \in Writers /\ SameNumbers(waiting, w) /\ waiting.st = "FRAMESENDED"
      /\ waiting.retrans = w.retrans /\ waiting.frameTO = w.frameTO
      /\ waiting.uplayerTO = w.uplayerTO
      BY DEF Writers, SameNumbers
<1>3. /\ ended \in Writers /\ SameNumbers(ended, w) /\ ended.st = "EXIT"
      /\ ended.retrans = w.retrans /\ ended.frameTO = w.frameTO /\ ended.uplayerTO = w.uplayerTO
      BY DEF Writers, SameNumbers
<1> HIDE DEF waiting, ended
<1>4. make_dmframe(w, which = "again") = make_dmframe(waiting, which = "again")
      BY <1>2 DEF make_dmframe, SameNumbers
<1>5. CASE o = Outcome(waiting, <<make_dmframe(w, which = "again")>>, "NOERROR", 0)
  <2>1. o.w = waiting /\ o.out = <<make_dmframe(w, which = "again")>> /\ o.error = "NOERROR"
        /\ o.fault = 0
        BY <1>5 DEF Outcome
  <2>2. QED  BY <1>2, <1>4, <2>1
<1>6. CASE o = ExitWrite(w, "FATAL", 1)
  <2>1. o.w = ended /\ o.out = <<>> /\ o.error = "FATAL" /\ o.fault = 1
        BY <1>6 DEF ExitWrite, Outcome, ended
  <2>2. QED  BY <1>3, <2>1
<1>7. QED  BY <1>1, <1>5, <1>6

LEMMA PrepareRetrans ==
    ASSUME NEW w, Waiting(w), NEW event, <<w.st, event>> \in wr_retrans,
           NEW o \in wr_prepare_retrans(w)
    PROVE  /\ o.w \in Writers /\ o.w.frameTO = w.frameTO
           /\ Resends(o, w, event) \/ GivesUp(o, w, event)
<1> DEFINE v == [w EXCEPT !.retrans = @ + 1]
<1>1. w \in Writers /\ w.retrans \in Nat /\ w.retrans < MaxRetries  BY DEF Waiting, Writers
<1>2. /\ v \in Writers /\ SameNumbers(v, w) /\ v.retrans = w.retrans + 1 /\ v.frameTO = w.frameTO
  <2>1. w.retrans + 1 \in 0..MaxRetries  BY <1>1, Constants
  <2>2. QED  BY <1>1, <2>1 DEF Writers, SameNumbers
<1>3. \/ v.retrans < MaxRetries /\ o \in wr_send_frame(v, "again")
      \/ v.retrans >= MaxRetries /\ o = ExitWrite(v, "MAXRETRIES", 0)
      BY <1>1, <1>2, Constants DEF wr_prepare_retrans
<1> HIDE DEF v
<1>4. CASE v.retrans < MaxRetries /\ o \in wr_send_frame(v, "again")
  <2>1. /\ o.w \in Writers /\ SameNumbers(o.w, v) /\ o.w.retrans = v.retrans
        /\ o.w.frameTO = v.frameTO
        /\ \/ /\ o.w.st = "FRAMESENDED" /\ o.out = <<make_dmframe(o.w, "again" = "again")>>
              /\ o.error = "NOERROR" /\ o.fault = 0
           \/ o.w.st = "EXIT" /\ o.out = <<>> /\ o.error = "FATAL" /\ o.fault = 1
        BY <1>2, <1>4, SendFrame
  <2>2. SameNumbers(o.w, w)  BY <1>2, <2>1 DEF SameNumbers
  <2>3. ("again" = "again") = TRUE  OBVIOUS
  <2>4. QED  BY <1>2, <1>4, <2>1, <2>2, <2>3 DEF Resends, GivesUp, Errors
<1>5. CASE v.retrans >= MaxRetries /\ o = ExitWrite(v, "MAXRETRIES", 0)
  <2>1. o.w = [v EXCEPT !.st = "EXIT", !.timer = FALSE] /\ o.out = <<>> /\ o.error = "MAXRETRIES"
        /\ o.fault = 0
        BY <1>5 DEF ExitWrite, Outcome
  <2>2. /\ o.w \in Writers /\ SameNumbers(o.w, v) /\ o.w.st = "EXIT" /\ o.w.retrans = v.retrans
        /\ o.w.frameTO = v.frameTO
        BY <1>2, <2>1 DEF Writers, SameNumbers
  <2>3. w.retrans + 1 = MaxRetries  BY <1>1, <1>2, <1>5, Constants
  <2>4. SameNumbers(o.w, w)  BY <1>2, <2>2 DEF SameNumbers
  <2>5. QED  BY <1>2, <2>1, <2>2, <2>3, <2>4 DEF GivesUp, Errors
<1>6. QED  BY <1>3, <1>4, <1>5

LEMMA PrepareNextFrame ==
    ASSUME NEW w, Waiting(w), w.st = "ACKRCV", NEW o \in wr_prepare_next_frame(w)
    PROVE  o.w \in Writers /\ o.w.frameTO = w.frameTO /\ MovesOn(o, w, "ACKCOMP")
<1> DEFINE n == Lesser(w.remain, MaxData)
           v == [w EXCEPT !.pdata = @ + n, !.remain = @ - n, !.seqno = (@ + 1) % SeqMod,
                          !.cuts = Append(@, w.pdata + n)]
<1>1. /\ w \in Writers /\ w.remain \in Nat /\ w.pdata \in Nat \ {0} /\ w.seqno \in Nat
      /\ w.cuts \in Seq(Nat \ {0})
      BY DEF Waiting, Writers
<1>2. n \in Nat /\ n <= w.remain  BY <1>1, LesserType, Constants
<1>3. (w.seqno + 1) % SeqMod \in 0..SeqMod - 1
  <2>1. w.seqno + 1 \in Nat /\ SeqMod > 0  BY <1>1, Constants
  <2>2. QED  BY <2>1, ModType, Constants
<1>4. w.remain - n \in Nat /\ w.pdata + n \in Nat \ {0} /\ Append(w.cuts, w.pdata + n) \in Seq(Nat \ {0})
      BY <1>1, <1>2
<1> HIDE DEF n
<1>5. /\ v \in Writers /\ v.frameTO = w.frameTO /\ v.pdata = w.pdata + n /\ v.remain = w.remain - n
      /\ v.seqno = (w.seqno + 1) % SeqMod /\ v.cuts = Append(w.cuts, w.pdata + n)
      /\ v.retrans = w.retrans
      BY <1>1, <1>3, <1>4 DEF Writers
<1>6. \/ v.remain > 0 /\ o \in wr_send_frame(v, "next")
      \/ ~(v.remain > 0) /\ o = ExitWrite(v, "NOERROR", 0)
      BY DEF wr_prepare_next_frame, n
<1> HIDE DEF v
<1>7. Advanced(v, w)  BY <1>5 DEF Advanced, n
<1>8. CASE v.remain > 0 /\ o \in wr_send_frame(v, "next")
  <2>1. /\ o.w \in Writers /\ SameNumbers(o.w, v) /\ o.w.retrans = v.retrans
        /\ o.w.frameTO = v.frameTO
        /\ \/ /\ o.w.st = "FRAMESENDED" /\ o.out = <<make_dmframe(o.w, "next" = "again")>>
              /\ o.error = "NOERROR" /\ o.fault = 0
           \/ o.w.st = "EXIT" /\ o.out = <<>> /\ o.error = "FATAL" /\ o.fault = 1
        BY <1>5, <1>8, SendFrame
  <2>2. Advanced(o.w, w) /\ o.w.remain > 0  BY <1>7, <1>8, <2>1 DEF Advanced, SameNumbers
  <2>3. ("next" = "again") = FALSE  OBVIOUS
  <2>4. QED  BY <1>5, <2>1, <2>2, <2>3 DEF MovesOn
<1>9. CASE ~(v.remain > 0) /\ o = ExitWrite(v, "NOERROR", 0)
  <2>1. o.w = [v EXCEPT !.st = "EXIT", !.timer = FALSE] /\ o.out = <<>> /\ o.error = "NOERROR"
        /\ o.fault = 0
        BY <1>9 DEF ExitWrite, Outcome
  <2>2. /\ o.w \in Writers /\ SameNumbers(o.w, v) /\ o.w.st = "EXIT" /\ o.w.retrans = v.retrans
        /\ o.w.frameTO = v.frameTO
        BY <1>5, <2>1 DEF Writers, SameNumbers
  <2>3. Advanced(o.w, w)  BY <1>7, <2>2 DEF Advanced, SameNumbers
  <2>4. o.w.remain = 0
    <3>1. v.remain \in Nat  BY <1>5, <1>4
    <3>2. QED  BY <1>9, <2>2, <3>1 DEF SameNumbers
  <2>5. QED  BY <1>5, <2>1, <2>2, <2>3, <2>4 DEF MovesOn
<1>10. QED  BY <1>6, <1>8, <1>9

\* One event of a waiting writer, with its result.
LEMMA EngineStep ==
    ASSUME NEW w, Waiting(w), NEW event \in Events, NEW o \in wr_engine(w, event)
    PROVE  /\ o.w \in Writers /\ o.w.frameTO = w.frameTO
           /\ \/ Waits(o, w, event) \/ Resends(o, w, event)
              \/ GivesUp(o, w, event) \/ MovesOn(o, w, event)
<1> DEFINE moved == { row \in wr_none : row[1] = w.st /\ row[2] = event }
<1>1. w \in Writers /\ w.st \in {"FRAMESENDED", "ACKRCV", "NACKRCV"}  BY DEF Waiting, Writers
<1> DEFINE pair == <<w.st, event>>
<1>0. /\ pair \in wr_retrans => pair # <<"ACKRCV", "ACKCOMP">> /\ pair \notin wr_uplayerto /\ moved = {}
      /\ pair = <<"ACKRCV", "ACKCOMP">> => pair \notin wr_uplayerto /\ moved = {}
      /\ pair \in wr_uplayerto => moved = {}
      BY <1>1 DEF wr_retrans, wr_uplayerto, wr_none
<1>2. CASE <<w.st, event>> \in wr_retrans
  <2>1. o \in wr_prepare_retrans(w)  BY <1>0, <1>2 DEF wr_engine
  <2>2. QED  BY <1>2, <2>1, PrepareRetrans
<1>3. CASE <<w.st, event>> \notin wr_retrans /\ <<w.st, event>> = <<"ACKRCV", "ACKCOMP">>
  <2>1. o \in wr_prepare_next_frame(w)  BY <1>0, <1>3 DEF wr_engine
  <2>2. w.st = "ACKRCV" /\ event = "ACKCOMP"  BY <1>3
  <2>3. QED  BY <2>1, <2>2, PrepareNextFrame
<1>4. CASE <<w.st, event>> \notin wr_retrans /\ <<w.st, event>> # <<"ACKRCV", "ACKCOMP">>
           /\ <<w.st, event>> \in wr_uplayerto
  <2>1. o = ExitWrite(w, "TXUPLAYER_TO", 0)  BY <1>0, <1>4 DEF wr_engine
  <2>2. o.w = [w EXCEPT !.st = "EXIT", !.timer = FALSE] /\ o.out = <<>> /\ o.error = "TXUPLAYER_TO"
        /\ o.fault = 0
        BY <2>1 DEF ExitWrite, Outcome
  <2>3. /\ o.w \in Writers /\ SameNumbers(o.w, w) /\ o.w.st = "EXIT" /\ o.w.retrans = w.retrans
        /\ o.w.frameTO = w.frameTO
        BY <1>1, <2>2 DEF Writers, SameNumbers
  <2>4. QED  BY <2>2, <2>3 DEF GivesUp, Errors
<1>5. CASE <<w.st, event>> \notin wr_retrans /\ <<w.st, event>> # <<"ACKRCV", "ACKCOMP">>
           /\ <<w.st, event>> \notin wr_uplayerto /\ moved # {}
  <2>1. o \in { Outcome([w EXCEPT !.st = row[3]], <<>>, "NOERROR", 0) : row \in moved }
        BY <1>5 DEF wr_engine
  <2>2. PICK row \in wr_none : row[1] = w.st /\ row[2] = event
                               /\ o = Outcome([w EXCEPT !.st = row[3]], <<>>, "NOERROR", 0)
        BY <2>1
  <2>3. \/ w.st = "FRAMESENDED" /\ event = "ACK" /\ row[3] = "ACKRCV"
        \/ w.st = "FRAMESENDED" /\ event = "NACK" /\ row[3] = "NACKRCV"
        \/ w.st = "NACKRCV" /\ event = "UNBYTE" /\ row[3] = "FRAMESENDED"
        BY <2>2 DEF wr_none
  <2> DEFINE st == row[3]
  <2>4. st \in {"FRAMESENDED", "ACKRCV", "NACKRCV"}  BY <2>3
  <2>5. o.w = [w EXCEPT !.st = st] /\ o.out = <<>> /\ o.error = "NOERROR" /\ o.fault = 0
        BY <2>2 DEF Outcome
  <2> HIDE DEF st
  <2>6. o.w \in Writers /\ o.w.st = st /\ o.w.frameTO = w.frameTO  BY <1>1, <2>4, <2>5 DEF Writers
  <2>7. Waits(o, w, event)  BY <2>3, <2>5, <2>6 DEF Waits, st
  <2>8. QED  BY <2>6, <2>7
<1>6. CASE <<w.st, event>> \notin wr_retrans /\ <<w.st, event>> # <<"ACKRCV", "ACKCOMP">>
           /\ <<w.st, event>> \notin wr_uplayerto /\ moved = {}
  <2>1. o = Outcome(w, <<>>, "NOERROR", 0)  BY <1>6 DEF wr_engine
  <2>2. o.w = w /\ o.out = <<>> /\ o.error = "NOERROR" /\ o.fault = 0  BY <2>1 DEF Outcome
  <2>3. ~(w.st = "FRAMESENDED" /\ event = "ACK")
    <3>1. <<"FRAMESENDED", "ACK", "ACKRCV">> \in wr_none  BY DEF wr_none
    <3>2. QED  BY <1>6, <3>1
  <2>4. o.w = [w EXCEPT !.st = o.w.st]  BY <1>1, <2>2 DEF Writers
  <2>5. Waits(o, w, event)  BY <1>6, <2>2, <2>3, <2>4 DEF Waits
  <2>6. QED  BY <1>1, <2>2, <2>5
<1>7. QED  BY <1>2, <1>3, <1>4, <1>5, <1>6

\* What the application does after an outcome of the writer.
TurnAfter(o) == IF o.w.st # "EXIT" THEN "write"
                ELSE IF o.error # "NOERROR" THEN "closed" ELSE "read"
Result(o, w, event) ==
    /\ o.w \in Writers /\ o.w.frameTO = w.frameTO
    /\ Waits(o, w, event) \/ Resends(o, w, event) \/ GivesUp(o, w, event) \/ MovesOn(o, w, event)

LEMMA TurnAfterFacts ==
    ASSUME NEW o
    PROVE  /\ o.w.st # "EXIT" => TurnAfter(o) = "write"
           /\ o.w.st = "EXIT" /\ o.error # "NOERROR" => TurnAfter(o) = "closed"
           /\ o.w.st = "EXIT" /\ o.error = "NOERROR" => TurnAfter(o) = "read"
BY DEF TurnAfter

\* A sequence with one more element.
LEMMA Appended ==
    ASSUME NEW S, NEW s \in Seq(S), NEW a, NEW t, t = Append(s, a)
    PROVE  /\ Len(s) \in Nat /\ Len(t) = Len(s) + 1 /\ t # <<>> /\ t[Len(t)] = a
           /\ \A i \in 1..Len(s) : t[i] = s[i]
OBVIOUS

\* The writer's numbers stay consistent, whatever the event.
LEMMA WriterKeeps ==
    ASSUME NEW w, Waiting(w), NEW last \in Nat, WriterOK(w, "write", last),
           NEW event, NEW o, Result(o, w, event)
    PROVE  WriterOK(o.w, TurnAfter(o), last) /\ o.error \in Errors \cup {"NOERROR"} /\ o.fault \in {0, 1}
<1> DEFINE v == o.w
<1>1. /\ w \in Writers /\ w.remain \in Nat /\ w.pdata \in Nat /\ w.cuts \in Seq(Nat \ {0})
      /\ w.retrans \in Nat
      BY DEF Waiting, Writers
<1>2. w.st # "EXIT" /\ w.remain > 0 /\ w.retrans < MaxRetries  BY DEF Waiting
<1>3. CASE Waits(o, w, event)
  <2>1. /\ SameNumbers(v, w) /\ v.retrans = w.retrans
        BY <1>1, <1>3 DEF Waits, SameNumbers, Writers
  <2>2. v.st # "EXIT"  BY <1>2, <1>3 DEF Waits
  <2>3. TurnAfter(o) = "write" /\ o.error = "NOERROR" /\ o.fault = 0
        BY <1>3, <2>2, TurnAfterFacts DEF Waits
  <2> HIDE DEF v
  <2>4. WriterOK(v, "write", last)  BY <1>2, <2>1, <2>2 DEF WriterOK, SameNumbers
  <2>5. QED  BY <2>3, <2>4 DEF v
<1>4. CASE Resends(o, w, event)
  <2>1. SameNumbers(v, w) /\ v.retrans < MaxRetries /\ v.st = "FRAMESENDED"  BY <1>4 DEF Resends
  <2>2. TurnAfter(o) = "write" /\ o.error = "NOERROR" /\ o.fault = 0
        BY <1>4, <2>1, TurnAfterFacts DEF Resends
  <2> HIDE DEF v
  <2>3. WriterOK(v, "write", last)  BY <1>2, <2>1 DEF WriterOK, SameNumbers
  <2>4. QED  BY <2>2, <2>3 DEF v
<1>5. CASE GivesUp(o, w, event)
  <2>1. /\ SameNumbers(v, w) /\ v.st = "EXIT" /\ o.error \in Errors /\ o.fault \in {0, 1}
        BY <1>5 DEF GivesUp
  <2>2. TurnAfter(o) = "closed"  BY <2>1, TurnAfterFacts DEF Errors
  <2> HIDE DEF v
  <2>3. WriterOK(v, "closed", last)  BY <1>2, <2>1 DEF WriterOK, SameNumbers
  <2>4. QED  BY <2>1, <2>2, <2>3 DEF v
<1>6. CASE MovesOn(o, w, event)
  <2> DEFINE n == Lesser(w.remain, MaxData)
             t == TurnAfter(o)
  <2>1. n \in Nat /\ n <= w.remain /\ n > 0  BY <1>1, <1>2, LesserType, Constants
  <2>2. /\ v.pdata = w.pdata + n /\ v.remain = w.remain - n /\ v.seqno = (w.seqno + 1) % SeqMod
        /\ v.cuts = Append(w.cuts, v.pdata) /\ v.retrans = w.retrans
        BY <1>6 DEF MovesOn, Advanced
  <2>3. w.pdata + w.remain = last + 1 /\ w.seqno = Len(w.cuts) % SeqMod /\ w.cuts # <<>>
        /\ w.cuts[Len(w.cuts)] = w.pdata
        /\ \A i, j \in 1..Len(w.cuts) : i < j => w.cuts[i] < w.cuts[j]
        BY DEF WriterOK
  <2>4. /\ t # "write" => v.st = "EXIT"
        /\ v.st # "EXIT" => v.remain > 0
        /\ (t # "closed" /\ v.st = "EXIT") => v.remain = 0
        /\ o.error \in Errors \cup {"NOERROR"} /\ o.fault \in {0, 1}
        BY <1>6, TurnAfterFacts DEF MovesOn, Errors
  <2> HIDE DEF n, t, v
  <2>5. v.pdata + v.remain = last + 1 /\ v.pdata <= last + 1 /\ w.pdata < v.pdata /\ v.pdata \in Nat
    <3>1. v.pdata = w.pdata + n /\ v.remain = w.remain - n /\ w.pdata + w.remain = last + 1
          BY <2>2, <2>3
    <3>2. w.pdata \in Nat /\ w.remain \in Nat  BY <1>1
    <3>3. v.remain \in Nat /\ v.pdata \in Nat /\ w.pdata < v.pdata  BY <2>1, <3>1, <3>2
    <3>4. v.pdata + v.remain = last + 1  BY <2>1, <3>1, <3>2
    <3>5. QED  BY <3>3, <3>4
  <2>6. Len(v.cuts) = Len(w.cuts) + 1 /\ v.cuts # <<>> /\ v.cuts[Len(v.cuts)] = v.pdata
        /\ Len(w.cuts) \in Nat
        /\ \A i \in 1..Len(w.cuts) : v.cuts[i] = w.cuts[i]
    <3>1. v.cuts = Append(w.cuts, v.pdata) /\ w.cuts \in Seq(Nat \ {0})  BY <1>1, <2>2
    <3>2. QED  BY <3>1, Appended
  <2>7. v.seqno = Len(v.cuts) % SeqMod
    <3>1. (Len(w.cuts) + 1) % SeqMod = ((Len(w.cuts) % SeqMod) + 1) % SeqMod
          BY <2>6, ModNext, Constants
    <3>2. QED  BY <2>2, <2>3, <2>6, <3>1
  <2>8. \A i, j \in 1..Len(v.cuts) : i < j => v.cuts[i] < v.cuts[j]
    <3> SUFFICES ASSUME NEW i \in 1..Len(v.cuts), NEW j \in 1..Len(v.cuts), i < j
                 PROVE  v.cuts[i] < v.cuts[j]
        OBVIOUS
    <3>1. i \in 1..Len(w.cuts) /\ Len(w.cuts) \in 1..Len(w.cuts)  BY <2>6
    <3>2. \A k \in 1..Len(w.cuts) : w.cuts[k] \in Nat  BY <1>1
    <3>3. w.cuts[i] <= w.pdata
      <4>1. CASE i = Len(w.cuts)  BY <1>1, <2>3, <4>1
      <4>2. CASE i < Len(w.cuts)
        <5>1. w.cuts[i] < w.cuts[Len(w.cuts)]  BY <2>3, <3>1, <4>2
        <5>2. QED  BY <1>1, <2>3, <3>1, <3>2, <5>1
      <4>3. QED  BY <3>1, <4>1, <4>2, <2>6
    <3>4. CASE j <= Len(w.cuts)
      <4>1. j \in 1..Len(w.cuts)  BY <2>6, <3>4
      <4>2. QED  BY <2>3, <2>6, <3>1, <4>1
    <3>5. CASE j = Len(v.cuts)
      <4>1. v.cuts[j] = v.pdata /\ v.cuts[i] = w.cuts[i]  BY <2>6, <3>1, <3>5
      <4>2. w.cuts[i] \in Nat /\ w.pdata \in Nat  BY <1>1, <3>1, <3>2
      <4>3. QED  BY <2>5, <3>3, <4>1, <4>2
    <3>6. QED  BY <2>6, <3>4, <3>5
  <2>9. WriterOK(v, t, last)  BY <1>2, <2>2, <2>4, <2>5, <2>6, <2>7, <2>8 DEF WriterOK
  <2>10. QED  BY <2>4, <2>9 DEF v, t
<1>7. QED  BY <1>3, <1>4, <1>5, <1>6 DEF Result

LEMMA Two ==
    ASSUME NEW x \in Ends
    PROVE  Peer(x) \in Ends /\ Peer(x) # x /\ Peer(Peer(x)) = x /\ \A e \in Ends : e = x \/ e = Peer(x)
BY DEF Ends, Peer

\* The bytes of messages are numbers.
LEMMA ByteTypes ==
    ASSUME TypeOK, NEW e \in Ends
    PROVE  LastByte(e) \in Nat /\ Prev(e) \in Nat /\ Received(e) \in Nat
<1>1. ends[e] \in Seq(Nat \ {0}) /\ got[e] \in Seq(Nat \ {0}) /\ rd[e].buf \in Seq(Nat \ {0})
      BY DEF TypeOK, Readers
<1>2. LastByte(e) \in Nat  BY <1>1 DEF LastByte
<1>3. Prev(e) \in Nat  BY <1>1 DEF Prev
<1>4. Received(e) \in Nat
  <2>1. PICK m \in Nat, n \in Nat : m = Len(got[e]) /\ n = Len(rd[e].buf)  BY <1>1
  <2>2. Received(e) = m + n  BY <2>1 DEF Received
  <2>3. QED  BY <2>2
<1>5. QED  BY <1>2, <1>3, <1>4

\* The event a byte is for the writer.
ByteEvent(h) == IF h.b \in AckBytes \ {"junk"} THEN h.b ELSE "UNBYTE"

LEMMA ByteEvents ==
    ASSUME NEW h \in Items
    PROVE  /\ ByteEvent(h) \in Events
           /\ \A k \in AckBytes \ {"junk"} : ByteEvent(h) = k <=> h = Byte(k)
           /\ ByteEvent(h) # "UNBYTE" => h \in Replies
<1>1. CASE h \in Replies
  <2>1. h = [b |-> h.b] /\ h.b \in AckBytes  BY <1>1 DEF Replies
  <2>2. ByteEvent(h) \in Events  BY <2>1 DEF ByteEvent, Events, AckBytes
  <2>3. \A k \in AckBytes \ {"junk"} : ByteEvent(h) = k <=> h = Byte(k)
        BY <2>1 DEF ByteEvent, Byte, AckBytes
  <2>4. QED  BY <1>1, <2>2, <2>3
<1>2. CASE h \in Frames
  <2>1. h.b = "SOH"  BY <1>2 DEF Frames
  <2>2. ByteEvent(h) = "UNBYTE" /\ "UNBYTE" \notin AckBytes /\ "SOH" \notin AckBytes
        BY <2>1 DEF ByteEvent, AckBytes
  <2>3. \A k \in AckBytes : Byte(k).b = k  BY DEF Byte
  <2>4. QED  BY <2>1, <2>2, <2>3 DEF Events
<1>3. QED  BY <1>1, <1>2 DEF Items, Replies

\* One step of the engine at end e, which writes: from writer w, which is wr[e]
\* but for the flag just heard, through event to outcome o.
EngineMove(e, w, event, o, rest) ==
    /\ turn[e] = "write" /\ wr[e].st # "EXIT" /\ Waiting(w) /\ Result(o, w, event)
    /\ w.st = wr[e].st /\ SameNumbers(w, wr[e]) /\ w.retrans = wr[e].retrans
    /\ w.frameTO => wr[e].frameTO
    /\ WriterOK(o.w, TurnAfter(o), LastByte(e))
    /\ \/ /\ line[e] # <<>> /\ rest = Tail(line[e]) /\ w = wr[e]
          /\ event = ByteEvent(Head(line[e]))
       \/ /\ rest = line[e] /\ (late \/ line[e] = <<>>)
          /\ event = "TXUPLAYERTO" \/ (event = "TXFRAMETO" /\ wr[e].frameTO /\ ~w.frameTO)
    /\ wr'[e] = o.w /\ wr'[Peer(e)] = wr[Peer(e)]
    /\ line'[e] = rest /\ line'[Peer(e)] = line[Peer(e)] \o o.out /\ o.out \in Seq(Items)
    /\ turn'[e] = TurnAfter(o) /\ turn'[Peer(e)] = turn[Peer(e)]
    /\ err'[e] = IF o.w.st = "EXIT" \/ o.error # "NOERROR" THEN o.error ELSE err[e]
    /\ faults' = faults + o.fault
    /\ rd' = rd /\ got' = got /\ garbled' = garbled /\ late' = late /\ ends' = ends

LEMMA WriterEffect ==
    ASSUME TypeOK, NEW e \in Ends, NEW o, o.w \in Writers, o.out \in Seq(Items),
           o.error \in Errors \cup {"NOERROR"}, o.fault \in {0, 1},
           NEW rest \in Seq(Items), WriterStep(e, {o}, rest), ends' \in [Ends -> Seq(Nat \ {0})]
    PROVE  /\ TypeOK'
           /\ wr'[e] = o.w /\ wr'[Peer(e)] = wr[Peer(e)]
           /\ line'[e] = rest /\ line'[Peer(e)] = line[Peer(e)] \o o.out
           /\ turn'[e] = TurnAfter(o) /\ turn'[Peer(e)] = turn[Peer(e)]
           /\ err'[e] = IF o.w.st = "EXIT" \/ o.error # "NOERROR" THEN o.error ELSE err[e]
           /\ faults' = faults + o.fault
           /\ rd' = rd /\ got' = got /\ garbled' = garbled /\ late' = late
<1> DEFINE q == Peer(e)
<1>1. q \in Ends /\ q # e /\ \A d \in Ends : d = e \/ d = q  BY Two
<1>2. /\ faults + o.fault <= MaxFaults /\ faults' = faults + o.fault
      /\ wr' = [wr EXCEPT ![e] = o.w]
      /\ line' = [line EXCEPT ![e] = rest, ![q] = @ \o o.out]
      /\ err' = [err EXCEPT ![e] = IF o.w.st = "EXIT" \/ o.error # "NOERROR" THEN o.error ELSE @]
      /\ turn' = [turn EXCEPT ![e] = TurnAfter(o)]
      /\ UNCHANGED <<rd, got, garbled, late>>
      BY DEF WriterStep, TurnAfter
<1>3. /\ wr \in [Ends -> Writers] /\ rd \in [Ends -> Readers] /\ line \in [Ends -> Seq(Items)]
      /\ turn \in [Ends -> {"write", "read", "closed"}]
      /\ err \in [Ends -> {"NOERROR"} \cup Errors \cup {"RXUPLAYER_TO"}]
      /\ faults \in 0..MaxFaults /\ \A d \in Ends : Len(rd[d].buf) <= BufSize
      /\ got \in [Ends -> Seq(Nat \ {0})] /\ garbled \in BOOLEAN /\ late \in BOOLEAN
      BY DEF TypeOK, Errors
<1> HIDE DEF q
<1>4. /\ wr' \in [Ends -> Writers] /\ wr'[e] = o.w /\ wr'[q] = wr[q]  BY <1>1, <1>2, <1>3
<1>5. line[q] \o o.out \in Seq(Items)
  <2>1. line[q] \in Seq(Items)  BY <1>1, <1>3
  <2>2. QED  BY <2>1
<1>6. /\ line' \in [Ends -> Seq(Items)] /\ line'[e] = rest /\ line'[q] = line[q] \o o.out
      BY <1>1, <1>2, <1>3, <1>5
<1>7. TurnAfter(o) \in {"write", "read", "closed"}  BY DEF TurnAfter
<1>8. /\ turn' \in [Ends -> {"write", "read", "closed"}] /\ turn'[e] = TurnAfter(o)
      /\ turn'[q] = turn[q]
      BY <1>1, <1>2, <1>3, <1>7
<1>9. err' \in [Ends -> {"NOERROR"} \cup Errors \cup {"RXUPLAYER_TO"}]
      /\ err'[e] = IF o.w.st = "EXIT" \/ o.error # "NOERROR" THEN o.error ELSE err[e]
      BY <1>1, <1>2, <1>3
<1>10. faults' \in 0..MaxFaults  BY <1>2, <1>3, Constants
<1>11. TypeOK'  BY <1>2, <1>3, <1>4, <1>6, <1>8, <1>9, <1>10 DEF TypeOK, Errors
<1>12. QED  BY <1>2, <1>4, <1>6, <1>8, <1>9, <1>11 DEF q

LEMMA EngineMoves ==
    ASSUME TypeOK, EndsOK, NEW e \in Ends, wr_wait_byte(e) \/ wr_wait_flag(e)
    PROVE  TypeOK' /\ \E w, event, o, rest : EngineMove(e, w, event, o, rest)
<1>1. /\ wr[e] \in Writers /\ line[e] \in Seq(Items) /\ WriterOK(wr[e], turn[e], LastByte(e))
      /\ ends' = ends /\ ends' \in [Ends -> Seq(Nat \ {0})] /\ LastByte(e) \in Nat
      /\ turn[e] \in {"write", "read", "closed"}
      BY ByteTypes DEF TypeOK, EndsOK, wr_wait_byte, wr_wait_flag
<1>2. wr[e].st # "EXIT"  BY DEF wr_wait_byte, wr_wait_flag
<1>3. turn[e] = "write"  BY <1>1, <1>2 DEF WriterOK
<1>4. PICK w, event, rest :
        /\ event \in Events /\ WriterStep(e, wr_engine(w, event), rest)
        /\ \/ /\ line[e] # <<>> /\ rest = Tail(line[e]) /\ w = wr[e]
              /\ event = ByteEvent(Head(line[e]))
           \/ /\ rest = line[e] /\ (late \/ line[e] = <<>>)
              /\ \/ event = "TXUPLAYERTO" /\ w = [wr[e] EXCEPT !.uplayerTO = FALSE]
                 \/ event = "TXFRAMETO" /\ wr[e].frameTO /\ w = [wr[e] EXCEPT !.frameTO = FALSE]
  <2>1. CASE wr_wait_byte(e)
    <3>1. line[e] # <<>> /\ WriterStep(e, wr_engine(wr[e], ByteEvent(Head(line[e]))), Tail(line[e]))
          BY <2>1 DEF wr_wait_byte, ByteEvent
    <3>2. Head(line[e]) \in Items  BY <1>1, <3>1
    <3>3. ByteEvent(Head(line[e])) \in Events  BY <3>2, ByteEvents
    <3>4. QED  BY <3>1, <3>3
  <2>2. CASE wr_wait_flag(e)
    <3>1. "TXUPLAYERTO" \in Events /\ "TXFRAMETO" \in Events  BY DEF Events
    <3>2. QED  BY <2>2, <3>1 DEF wr_wait_flag
  <2>3. QED  BY <2>1, <2>2
<1>5. /\ w \in Writers /\ w.st = wr[e].st /\ SameNumbers(w, wr[e]) /\ w.retrans = wr[e].retrans
      /\ (event = "TXFRAMETO" => ~w.frameTO) /\ (w.frameTO => wr[e].frameTO)
  <2>1. CASE w = wr[e] /\ event = ByteEvent(Head(line[e])) /\ line[e] # <<>>
    <3>1. event # "TXFRAMETO"  BY <2>1 DEF ByteEvent, AckBytes
    <3>2. QED  BY <1>1, <2>1, <3>1 DEF SameNumbers
  <2>2. CASE w = [wr[e] EXCEPT !.uplayerTO = FALSE] /\ event = "TXUPLAYERTO"
        BY <1>1, <2>2 DEF Writers, SameNumbers
  <2>3. CASE w = [wr[e] EXCEPT !.frameTO = FALSE]  BY <1>1, <2>3 DEF Writers, SameNumbers
  <2>4. QED  BY <1>4, <2>1, <2>2, <2>3
<1>6. Waiting(w) /\ WriterOK(w, "write", LastByte(e))
      BY <1>1, <1>2, <1>3, <1>5 DEF Waiting, WriterOK, SameNumbers
<1>7. rest \in Seq(Items)  BY <1>1, <1>4, RemainsTail
<1>8. PICK o \in wr_engine(w, event) : WriterStep(e, {o}, rest)  BY <1>4 DEF WriterStep
<1>9. Result(o, w, event)  BY <1>4, <1>6, EngineStep DEF Result
<1>10. /\ WriterOK(o.w, TurnAfter(o), LastByte(e)) /\ o.w \in Writers
       /\ o.error \in Errors \cup {"NOERROR"} /\ o.fault \in {0, 1}
       BY <1>1, <1>6, <1>9, WriterKeeps DEF Result
<1>11. o.out \in Seq(Items)
  <2>1. o.out = <<>> \/ (o.w.remain > 0 /\ \E again \in BOOLEAN : o.out = <<make_dmframe(o.w, again)>>)
    <3>1. Resends(o, w, event) => o.w.remain > 0  BY <1>6 DEF Resends, SameNumbers, Waiting
    <3>2. QED  BY <1>9, <3>1 DEF Result, Waits, Resends, GivesUp, MovesOn
  <2>2. ASSUME NEW again \in BOOLEAN, o.w.remain > 0 PROVE make_dmframe(o.w, again) \in Items
    <3>1. make_dmframe(o.w, again) \in Frames  BY <1>10, <2>2, SentFrame
    <3>2. QED  BY <3>1 DEF Items
  <2>3. CASE o.out = <<>>  BY <2>3
  <2>4. CASE o.w.remain > 0 /\ \E again \in BOOLEAN : o.out = <<make_dmframe(o.w, again)>>
    <3>1. PICK f \in Items : o.out = <<f>>  BY <2>2, <2>4
    <3>2. QED  BY <3>1
  <2>5. QED  BY <2>1, <2>3, <2>4
<1>12. /\ TypeOK'
       /\ wr'[e] = o.w /\ wr'[Peer(e)] = wr[Peer(e)]
       /\ line'[e] = rest /\ line'[Peer(e)] = line[Peer(e)] \o o.out
       /\ turn'[e] = TurnAfter(o) /\ turn'[Peer(e)] = turn[Peer(e)]
       /\ err'[e] = IF o.w.st = "EXIT" \/ o.error # "NOERROR" THEN o.error ELSE err[e]
       /\ faults' = faults + o.fault
       /\ rd' = rd /\ got' = got /\ garbled' = garbled /\ late' = late
       BY <1>1, <1>7, <1>8, <1>10, <1>11, WriterEffect
<1>13. EngineMove(e, w, event, o, rest)
       BY <1>1, <1>2, <1>3, <1>4, <1>5, <1>6, <1>9, <1>10, <1>11, <1>12 DEF EngineMove
<1>14. QED  BY <1>12, <1>13

-----------------------------------------------------------------------------
(* What a step leaves of the exchange.                                       *)

\* The head is one of S and no T comes after an S: no T is left.
LEMMA HeadBefore ==
    ASSUME NEW s \in Seq(Items), s # <<>>, NEW S, Head(s) \in S, NEW T, ~Before(s, S, T)
    PROVE  ~Has(Tail(s), T)
<1>1. /\ Len(s) = Len(Tail(s)) + 1 /\ s[1] = Head(s) /\ Len(Tail(s)) \in Nat
      /\ \A i \in 1..Len(Tail(s)) : Tail(s)[i] = s[i + 1]
      OBVIOUS
<1>2. ASSUME NEW i \in 1..Len(Tail(s)), Tail(s)[i] \in T PROVE FALSE
  <2>1. 1 \in 1..Len(s) /\ i + 1 \in 1..Len(s) /\ 1 < i + 1  BY <1>1
  <2>2. s[1] \in S /\ s[i + 1] \in T  BY <1>1, <1>2
  <2>3. QED  BY <2>1, <2>2 DEF Before
<1>3. QED  BY <1>2 DEF Has

LEMMA HeadHas ==
    ASSUME NEW s \in Seq(Items), s # <<>>, NEW S, Head(s) \in S
    PROVE  Has(s, S)
<1>1. 1 \in 1..Len(s) /\ s[1] = Head(s)  OBVIOUS
<1>2. QED  BY <1>1 DEF Has

\* Losing a head or damaging it draws no acknowledgement, unless a number was
\* altered.
LEMMA ClosedSpurious ==
    ASSUME NEW p \in Nat
    PROVE  Closed(Spurious(p), FALSE)
<1>1. Byte("junk") \in Replies  BY DEF Byte, Replies, AckBytes
<1>2. \A g \in Spurious(p) : g \in Frames /\ g \notin Replies  BY ItemKinds
<1>3. ASSUME NEW g \in Items, NEW h \in Items, Worse(g, h, FALSE), g \in Spurious(p)
      PROVE  h \in Spurious(p)
  <2>1. CASE g = h  BY <1>3, <2>1
  <2>2. CASE h \in Replies /\ g = Byte("junk")  BY <1>1, <1>2, <1>3, <2>2
  <2>3. CASE h \in Frames /\ g.seqno = h.seqno /\ g.first = h.first /\ g.no = h.no /\ g.again = h.again
        BY <1>3, <2>3 DEF Spurious
  <2>4. QED  BY <1>3, <2>1, <2>2, <2>3 DEF Worse
<1>4. QED  BY <1>3 DEF Closed

\* The exchange only depends on the numbers of both ends.
SameReader(s, r) == s.no = r.no /\ s.next = r.next /\ s.st = r.st

LEMMA SameExchange ==
    ASSUME NEW w, NEW v, SameNumbers(v, w), v.retrans = w.retrans, NEW r, NEW s, SameReader(s, r),
           NEW k, NEW lx, NEW ly, NEW p, NEW n, Exchanging(w, r, k, lx, ly, p, n)
    PROVE  Exchanging(v, s, k, lx, ly, p, n)
<1>1. \A i : Start(v, i) = Start(w, i)  BY DEF Start, SameNumbers
<1>2. \A f, i : FrameOK(f, v, i) <=> FrameOK(f, w, i)  BY <1>1 DEF FrameOK, SameNumbers
<1>3. InStep(v, s.no, k)  BY <1>1 DEF InStep, SameNumbers, SameReader, Exchanging
<1>4. FramesOK(ly, v, s.no, p) /\ Ordered(ly, p)  BY <1>2 DEF FramesOK, SameReader, Exchanging
<1>5. Ahead(v, s, lx, ly, p) = Ahead(w, r, lx, ly, p)  BY DEF Ahead, SameNumbers, SameReader
<1>6. Allowed(v, n) = Allowed(w, n)  BY DEF Allowed
<1>7. QED  BY <1>3, <1>4, <1>5, <1>6 DEF Exchanging

\* A writer may get further ahead the more it has sent again and the more the
\* line has damaged.
LEMMA AllowedType ==
    ASSUME NEW w \in Writers, NEW n \in Nat
    PROVE  /\ Allowed(w, n) \in Nat /\ Allowed(w, n) <= MaxRetries - 1 + (IF "seqno" \in Damages THEN n ELSE 0)
           /\ \A v \in Writers, m \in Nat :
                 v.retrans >= w.retrans /\ m >= n => Allowed(v, m) >= Allowed(w, n)
           /\ "seqno" \in Damages => Allowed(w, n + 1) = Allowed(w, n) + 1
           /\ \A v \in Writers : v.retrans = w.retrans + 1 /\ v.retrans < MaxRetries
                 => Allowed(v, n) = Allowed(w, n) + 1
<1>1. \A v \in Writers : v.retrans \in Nat  BY DEF Writers
<1>2. PICK m \in Nat : m = MaxRetries - 1  BY Constants
<1>4. \A v, k : Allowed(v, k) = Lesser(v.retrans, m) + (IF "seqno" \in Damages THEN k ELSE 0)
      BY <1>2 DEF Allowed
<1>5. PICK a \in Nat : a = w.retrans  BY <1>1
<1>6. Allowed(w, n) \in Nat /\ Allowed(w, n) <= MaxRetries - 1 + (IF "seqno" \in Damages THEN n ELSE 0)
  <2>1. Lesser(a, m) \in Nat /\ Lesser(a, m) <= m  BY LesserType
  <2>2. QED  BY <1>2, <1>4, <1>5, <2>1
<1>7. ASSUME NEW v \in Writers, NEW k \in Nat, v.retrans >= w.retrans, k >= n
      PROVE  Allowed(v, k) >= Allowed(w, n)
  <2>1. PICK c \in Nat : c = v.retrans  BY <1>1
  <2>2. Lesser(c, m) \in Nat /\ Lesser(a, m) \in Nat /\ Lesser(c, m) >= Lesser(a, m)
        BY <1>5, <1>7, <2>1 DEF Lesser
  <2>3. QED  BY <1>4, <1>5, <1>7, <2>1, <2>2
<1>8. "seqno" \in Damages => Allowed(w, n + 1) = Allowed(w, n) + 1
  <2>1. Lesser(a, m) \in Nat  BY LesserType
  <2>2. QED  BY <1>4, <1>5, <2>1
<1>9. ASSUME NEW v \in Writers, v.retrans = w.retrans + 1, v.retrans < MaxRetries
      PROVE  Allowed(v, n) = Allowed(w, n) + 1
  <2>1. a + 1 <= m  BY <1>2, <1>5, <1>9, Constants
  <2>2. Lesser(a + 1, m) = a + 1 /\ Lesser(a, m) = a  BY <2>1 DEF Lesser
  <2>3. QED  BY <1>4, <1>5, <1>9, <2>2
<1>10. QED  BY <1>6, <1>7, <1>8, <1>9

LEMMA AheadType ==
    ASSUME NEW w \in Writers, NEW r \in Readers, NEW lx \in Seq(Items), NEW ly \in Seq(Items), NEW p
    PROVE  /\ Count(lx, Acks) \in Nat /\ Count(ly, Spurious(p)) \in Nat /\ Len(w.cuts) \in Nat
           /\ r.no \in Nat \ {0}
           /\ Ahead(w, r, lx, ly, p) \in Int /\ Len(w.cuts) - r.no <= Ahead(w, r, lx, ly, p)
<1>1. Len(w.cuts) \in Nat /\ r.no \in Nat \ {0}  BY DEF Writers, Readers
<1>2. Count(lx, Acks) \in Nat /\ Count(ly, Spurious(p)) \in Nat  BY CountType
<1>3. PICK a \in Nat, b \in Nat \ {0}, c \in Nat, d \in Nat, q \in {0, 1} :
        /\ a = Len(w.cuts) /\ b = r.no /\ c = Count(lx, Acks) /\ d = Count(ly, Spurious(p))
        /\ q = IF r.st = "DISCARDRETRANS" THEN 1 ELSE 0
      BY <1>1, <1>2
<1>4. Ahead(w, r, lx, ly, p) = (a - b) + c + q + d  BY <1>3 DEF Ahead
<1>5. (a - b) + c + q + d \in Int /\ a - b <= (a - b) + c + q + d  OBVIOUS
<1>6. QED  BY <1>1, <1>2, <1>3, <1>4, <1>5

\* The numbers of the exchange after a step, each at its place.
LEMMA AheadCompare ==
    ASSUME NEW w \in Writers, NEW r \in Readers, NEW v \in Writers, NEW s \in Readers,
           NEW lx \in Seq(Items), NEW ly \in Seq(Items), NEW kx \in Seq(Items), NEW ky \in Seq(Items),
           NEW p, NEW d \in Int, NEW n, NEW m,
           Ahead(w, r, lx, ly, p) <= Allowed(w, n), Allowed(w, n) \in Nat,
           Allowed(v, m) \in Nat, Allowed(v, m) >= Allowed(w, n) + d,
           (Len(v.cuts) - s.no) + Count(kx, Acks) + (IF s.st = "DISCARDRETRANS" THEN 1 ELSE 0)
               + Count(ky, Spurious(p))
             <= (Len(w.cuts) - r.no) + Count(lx, Acks) + (IF r.st = "DISCARDRETRANS" THEN 1 ELSE 0)
               + Count(ly, Spurious(p)) + d
    PROVE  Ahead(v, s, kx, ky, p) <= Allowed(v, m)
<1>1. /\ Ahead(w, r, lx, ly, p) \in Int /\ Ahead(v, s, kx, ky, p) \in Int  BY AheadType
<1>2. Ahead(v, s, kx, ky, p) <= Ahead(w, r, lx, ly, p) + d  BY DEF Ahead
<1>3. QED  BY <1>1, <1>2

\* The lines lose or damage a head, and no number is altered.
LEMMA ExchangeRemains ==
    ASSUME NEW w \in Writers, NEW r \in Readers, NEW k, NEW p \in Nat, NEW n \in Nat,
           NEW lx \in Seq(Items), NEW ly \in Seq(Items),
           NEW kx \in Seq(Items), Remains(kx, lx, FALSE), NEW ky \in Seq(Items), Remains(ky, ly, FALSE),
           Exchanging(w, r, k, lx, ly, p, n), NEW m \in Nat, m >= n
    PROVE  Exchanging(w, r, k, kx, ky, p, m)
<1>1. InStep(w, r.no, k)  BY DEF Exchanging
<1>2. FramesOK(ky, w, r.no, p) /\ Ordered(ky, p)
  <2>1. FramesOK(ly, w, r.no, p) /\ Ordered(ly, p)  BY DEF Exchanging
  <2>2. QED  BY <2>1, FramesRemain
<1>3. Count(kx, Acks) <= Count(lx, Acks)  BY ClosedSets, RemainsCount
<1>4. Count(ky, Spurious(p)) <= Count(ly, Spurious(p))  BY ClosedSpurious, RemainsCount
<1>5. Ahead(w, r, kx, ky, p) <= Allowed(w, m)
  <2>1. /\ Count(lx, Acks) \in Nat /\ Count(ly, Spurious(p)) \in Nat /\ Len(w.cuts) \in Nat
        /\ r.no \in Nat /\ Count(kx, Acks) \in Nat /\ Count(ky, Spurious(p)) \in Nat
        BY AheadType
  <2>2. Allowed(w, n) \in Nat /\ Allowed(w, m) \in Nat /\ Allowed(w, m) >= Allowed(w, n) + 0
    <3>1. w.retrans >= w.retrans  BY DEF Writers
    <3>2. Allowed(w, n) \in Nat /\ Allowed(w, m) \in Nat /\ Allowed(w, m) >= Allowed(w, n)
          BY <3>1, AllowedType
    <3>3. QED  BY <3>2
  <2>3. Ahead(w, r, lx, ly, p) <= Allowed(w, n)  BY DEF Exchanging
  <2> DEFINE q == IF r.st = "DISCARDRETRANS" THEN 1 ELSE 0
             a == Len(w.cuts) - r.no
             c == Count(lx, Acks)
             e == Count(kx, Acks)
             f == Count(ly, Spurious(p))
             g == Count(ky, Spurious(p))
  <2>4. a \in Int /\ q \in Nat /\ c \in Nat /\ e \in Nat /\ f \in Nat /\ g \in Nat /\ e <= c /\ g <= f
        BY <1>3, <1>4, <2>1
  <2> HIDE DEF q, a, c, e, f, g
  <2>5. a + e + q + g <= a + c + q + f + 0  BY <2>4
  <2> USE DEF q, a, c, e, f, g
  <2>6. QED  BY <2>2, <2>3, <2>5, AheadCompare
<1>6. QED  BY <1>1, <1>2, <1>5 DEF Exchanging

\* The line to the owner is given items that are no acknowledgements.
LEMMA ExchangeAppendX ==
    ASSUME NEW w, NEW r, NEW k, NEW lx \in Seq(Items), NEW ly, NEW p, NEW n,
           NEW f \in Frames, Exchanging(w, r, k, lx, ly, p, n)
    PROVE  Exchanging(w, r, k, lx \o <<f>>, ly, p, n)
<1>1. Count(lx \o <<f>>, Acks) = Count(lx, Acks) + (IF f \in Acks THEN 1 ELSE 0)  BY CountAppend
<1>2. f \notin Acks  BY ItemKinds, 0 \in Nat
<1>3. Count(lx, Acks) \in Nat  BY CountType
<1>4. Count(lx \o <<f>>, Acks) = Count(lx, Acks)  BY <1>1, <1>2, <1>3
<1>5. Ahead(w, r, lx \o <<f>>, ly, p) = Ahead(w, r, lx, ly, p)  BY <1>4 DEF Ahead
<1>6. QED  BY <1>5 DEF Exchanging

\* A frame of the message being written is put on the line to the reader.
LEMMA ExchangeSend ==
    ASSUME NEW w \in Writers, NEW r \in Readers, NEW k, NEW p \in Nat, NEW n \in Nat,
           NEW lx \in Seq(Items), NEW ly \in Seq(Items),
           InStep(w, r.no, k), FramesOK(ly, w, r.no, p), Ordered(ly, p),
           NEW f \in Frames, FrameOK(f, w, r.no), f.first > p, f.no = Len(w.cuts),
           ~f.again => \A i \in 1..Len(ly) : ly[i] \in After(p) => ly[i].no < f.no,
           Ahead(w, r, lx, ly, p) + (IF f \in Spurious(p) THEN 1 ELSE 0) <= Allowed(w, n)
    PROVE  Exchanging(w, r, k, lx, ly \o <<f>>, p, n)
<1>1. \A i \in 1..Len(ly) : ly[i] \in After(p) => ly[i].no <= f.no /\ ly[i].no \in Nat
  <2> SUFFICES ASSUME NEW i \in 1..Len(ly), ly[i] \in After(p)
               PROVE  ly[i].no <= f.no /\ ly[i].no \in Nat
      OBVIOUS
  <2>1. FrameOK(ly[i], w, r.no)  BY DEF FramesOK
  <2>2. ly[i] \in Frames  BY ItemKinds
  <2>3. QED  BY <2>1, <2>2 DEF FrameOK, Frames
<1>2. FramesOK(ly \o <<f>>, w, r.no, p) /\ Ordered(ly \o <<f>>, p)
  <2>1. \A i \in 1..Len(ly) : ly[i] \in After(p) =>
            ly[i].no <= f.no /\ (~f.again => ly[i].no < f.no)
        BY <1>1
  <2>2. QED  BY <2>1, FramesSend
<1>3. Ahead(w, r, lx, ly \o <<f>>, p) = Ahead(w, r, lx, ly, p) + (IF f \in Spurious(p) THEN 1 ELSE 0)
  <2> DEFINE d == IF f \in Spurious(p) THEN 1 ELSE 0
             g == Count(ly, Spurious(p))
             h == Count(ly \o <<f>>, Spurious(p))
             a == (Len(w.cuts) - r.no) + Count(lx, Acks) + (IF r.st = "DISCARDRETRANS" THEN 1 ELSE 0)
  <2>1. h = g + d  BY CountAppend
  <2>2. Ahead(w, r, lx, ly, p) = a + g /\ Ahead(w, r, lx, ly \o <<f>>, p) = a + h  BY DEF Ahead
  <2>3. g \in Nat /\ d \in Nat /\ a \in Int
    <3>1. Len(w.cuts) \in Nat /\ r.no \in Nat /\ Count(lx, Acks) \in Nat /\ g \in Nat  BY AheadType
    <3> DEFINE b == Len(w.cuts) - r.no
               c == Count(lx, Acks)
    <3>2. b \in Int /\ c \in Int  BY <3>1
    <3> HIDE DEF b, c
    <3>3. b + c + (IF r.st = "DISCARDRETRANS" THEN 1 ELSE 0) \in Int  BY <3>2
    <3>4. QED  BY <3>1, <3>3 DEF b, c
  <2> HIDE DEF d, g, h, a
  <2>4. a + h = (a + g) + d  BY <2>1, <2>3
  <2>5. QED  BY <2>2, <2>4 DEF d
<1>4. QED  BY <1>2, <1>3 DEF Exchanging

\* An acknowledgement is heard by taking its second byte from the line.
Heard(event, lx, rest) ==
    event = "ACKCOMP" => lx # <<>> /\ rest = Tail(lx) /\ event = ByteEvent(Head(lx))

\* The owner's writer after an event: what a step of the engine does to the
\* exchange.
LEMMA OwnerWrites ==
    ASSUME NEW w, Waiting(w), NEW last \in Nat, WriterOK(w, "write", last),
           NEW r \in Readers, NEW k \in Nat, NEW p \in Nat, p < w.pdata, NEW n \in Nat,
           NEW lx \in Seq(Items), NEW ly \in Seq(Items), Exchanging(w, r, k, lx, ly, p, n),
           NEW event, NEW o, Result(o, w, event), WriterOK(o.w, TurnAfter(o), last),
           NEW rest \in Seq(Items), Remains(rest, lx, FALSE), Heard(event, lx, rest)
    PROVE  /\ Exchanging(o.w, r, k, rest, ly \o o.out, p, n + o.fault) /\ p < o.w.pdata
           /\ ~Has(o.out, Replies) /\ ~Has(o.out, UpTo(p))
<1> DEFINE v == o.w
<1>1. /\ w \in Writers /\ v \in Writers /\ w.pdata \in Nat /\ v.pdata \in Nat /\ w.remain \in Nat
      /\ w.cuts \in Seq(Nat \ {0}) /\ w.retrans \in Nat /\ v.retrans \in Nat /\ r.no \in Nat \ {0}
      /\ w.remain > 0 /\ w.retrans < MaxRetries
  <2>1. w \in Writers /\ w.remain > 0 /\ w.retrans < MaxRetries /\ v \in Writers
        BY DEF Waiting, Result
  <2> HIDE DEF v
  <2>2. /\ w.pdata \in Nat /\ v.pdata \in Nat /\ w.remain \in Nat /\ w.cuts \in Seq(Nat \ {0})
        /\ w.retrans \in Nat /\ v.retrans \in Nat
        BY <2>1 DEF Writers
  <2>3. r.no \in Nat \ {0}  BY DEF Readers
  <2>4. QED  BY <2>1, <2>2, <2>3
<1>2. ly \o <<>> = ly  OBVIOUS
<1>3. ~Has(<<>>, Replies) /\ ~Has(<<>>, UpTo(p))  BY NoItem
<1>4. Exchanging(w, r, k, rest, ly, p, n)
  <2>1. Remains(ly, ly, FALSE)  BY RemainsTail
  <2>2. n >= n  OBVIOUS
  <2>3. QED  BY <1>1, <2>1, <2>2, ExchangeRemains
<1>5. ASSUME NEW f \in Frames, f.first > p, o.out = <<f>>
      PROVE  ~Has(o.out, Replies) /\ ~Has(o.out, UpTo(p))
  <2>1. f \notin Replies /\ f \notin UpTo(p)
    <3>1. f.first \in Nat  BY DEF Frames
    <3>2. f \notin Replies  BY ItemKinds
    <3>3. QED  BY <1>5, <3>1, <3>2 DEF UpTo
  <2>2. QED  BY <1>5, <2>1, OneItem
<1>6. InStep(w, r.no, k) /\ FramesOK(ly, w, r.no, p) /\ Ordered(ly, p)
      /\ Ahead(w, r, rest, ly, p) <= Allowed(w, n)
      BY <1>4 DEF Exchanging
<1>7. /\ Len(w.cuts) \in Nat \ {0} /\ r.no <= Len(w.cuts) + 1
      BY <1>1, <1>6, StartIncreases DEF InStep
<1> HIDE DEF v
<1>8. CASE Waits(o, w, event)
  <2>1. SameNumbers(v, w) /\ v.retrans = w.retrans /\ o.out = <<>> /\ o.fault = 0
        BY <1>1, <1>8 DEF Waits, SameNumbers, Writers, v
  <2>2. SameReader(r, r) /\ n + 0 = n  BY DEF SameReader
  <2>3. Exchanging(v, r, k, rest, ly, p, n)  BY <1>4, <2>1, <2>2, SameExchange
  <2>4. p < v.pdata  BY <2>1 DEF SameNumbers
  <2>5. QED  BY <1>2, <1>3, <2>1, <2>2, <2>3, <2>4 DEF v
<1>9. CASE Resends(o, w, event)
  <2>1. /\ SameNumbers(v, w) /\ v.retrans = w.retrans + 1 /\ v.retrans < MaxRetries
        /\ o.out = <<make_dmframe(v, TRUE)>> /\ o.fault = 0 /\ v.st = "FRAMESENDED"
        BY <1>9 DEF Resends, v
  <2> DEFINE f == make_dmframe(v, TRUE)
  <2>2. /\ f \in Frames /\ f.no = Len(v.cuts) /\ f.again = TRUE
        /\ f.first = v.pdata
        /\ \A i \in Nat : i <= f.no + 1 => FrameOK(f, v, i)
    <3>1. WriterOK(v, TurnAfter(o), last) /\ v.remain > 0 /\ TRUE \in BOOLEAN
          BY <1>1, <2>1 DEF v, SameNumbers

    <3>2. QED  BY <1>1, <3>1, SentFrame
  <2> HIDE DEF f
  <2>3. FrameOK(f, v, r.no) /\ f.first > p /\ v.cuts = w.cuts
        BY <1>1, <1>7, <2>1, <2>2 DEF SameNumbers
  <2>4. f \in Spurious(p)  BY <2>2, <2>3 DEF Spurious
  <2>6. /\ InStep(v, r.no, k) /\ FramesOK(ly, v, r.no, p)
        /\ Ahead(v, r, rest, ly, p) = Ahead(w, r, rest, ly, p)
    <3>1. \A i : Start(v, i) = Start(w, i)  BY <2>1 DEF Start, SameNumbers
    <3>2. \A g, i : FrameOK(g, v, i) <=> FrameOK(g, w, i)  BY <2>1, <3>1 DEF FrameOK, SameNumbers
    <3>3. InStep(v, r.no, k)  BY <1>6, <2>1, <3>1 DEF InStep, SameNumbers
    <3>4. FramesOK(ly, v, r.no, p)  BY <1>6, <3>2 DEF FramesOK
    <3>5. QED  BY <2>3, <3>3, <3>4 DEF Ahead
  <2>7. Ahead(v, r, rest, ly, p) + 1 <= Allowed(v, n)
    <3>1. Allowed(v, n) = Allowed(w, n) + 1 /\ Allowed(w, n) \in Nat  BY <1>1, <2>1, AllowedType
    <3>2. Ahead(w, r, rest, ly, p) \in Int  BY <1>1, AheadType
    <3>3. QED  BY <1>6, <2>6, <3>1, <3>2
  <2>8. Exchanging(v, r, k, rest, ly \o <<f>>, p, n)
    <3>1. Ahead(v, r, rest, ly, p) + (IF f \in Spurious(p) THEN 1 ELSE 0) <= Allowed(v, n)
          BY <2>4, <2>7
    <3>2. f.no = Len(v.cuts) /\ f.again  BY <2>2
    <3>3. QED  BY <1>1, <1>6, <2>2, <2>3, <2>6, <3>1, <3>2, ExchangeSend
  <2>9. n + 0 = n /\ p < v.pdata  BY <2>1 DEF SameNumbers
  <2>10. QED  BY <1>5, <2>1, <2>2, <2>3, <2>8, <2>9 DEF v, f
<1>10. CASE GivesUp(o, w, event)
  <2>1. /\ SameNumbers(v, w) /\ v.retrans >= w.retrans /\ o.out = <<>> /\ n + o.fault \in Nat
        /\ n + o.fault >= n
    <3>1. SameNumbers(v, w) /\ o.out = <<>> /\ v.retrans \in {w.retrans, w.retrans + 1}
          /\ o.fault \in {0, 1}
          BY <1>10 DEF GivesUp, v
    <3>2. w.retrans \in Nat  BY <1>1
    <3>3. v.retrans >= w.retrans  BY <3>1, <3>2
    <3>4. n + o.fault \in Nat /\ n + o.fault >= n  BY <3>1
    <3>5. QED  BY <3>1, <3>3, <3>4
  <2>2. /\ InStep(v, r.no, k) /\ FramesOK(ly, v, r.no, p)
        /\ Ahead(v, r, rest, ly, p) = Ahead(w, r, rest, ly, p)
    <3>1. \A i : Start(v, i) = Start(w, i)  BY <2>1 DEF Start, SameNumbers
    <3>2. \A g, i : FrameOK(g, v, i) <=> FrameOK(g, w, i)  BY <2>1, <3>1 DEF FrameOK, SameNumbers
    <3>3. InStep(v, r.no, k)  BY <1>6, <2>1, <3>1 DEF InStep, SameNumbers
    <3>4. FramesOK(ly, v, r.no, p)  BY <1>6, <3>2 DEF FramesOK
    <3>5. QED  BY <2>1, <3>3, <3>4 DEF Ahead, SameNumbers
  <2>3. Ahead(v, r, rest, ly, p) <= Allowed(v, n + o.fault)
    <3>1. Allowed(v, n + o.fault) >= Allowed(w, n) /\ Allowed(w, n) \in Nat
          /\ Allowed(v, n + o.fault) \in Nat
          BY <1>1, <2>1, AllowedType
    <3>2. Ahead(w, r, rest, ly, p) \in Int  BY <1>1, AheadType
    <3>3. QED  BY <1>6, <2>2, <3>1, <3>2
  <2>4. Exchanging(v, r, k, rest, ly, p, n + o.fault)  BY <1>6, <2>2, <2>3 DEF Exchanging
  <2>5. p < v.pdata  BY <2>1 DEF SameNumbers
  <2>6. QED  BY <1>2, <1>3, <2>1, <2>4, <2>5 DEF v
<1>11. CASE MovesOn(o, w, event)
  <2>1. /\ event = "ACKCOMP" /\ Advanced(v, w) /\ o.fault \in {0, 1}
        /\ o.out = <<>> \/ (v.remain > 0 /\ o.out = <<make_dmframe(v, FALSE)>>)
        BY <1>11 DEF MovesOn, v
  <2>2. /\ Len(v.cuts) = Len(w.cuts) + 1
        /\ InStep(v, r.no, k) /\ r.no <= Len(v.cuts)
        /\ FramesOK(ly, v, r.no, p)
        BY <1>1, <1>6, <2>1, AdvancedKeeps
  <2>3. Count(lx, Acks) = Count(rest, Acks) + 1
    <3>1. lx # <<>> /\ rest = Tail(lx) /\ ByteEvent(Head(lx)) = "ACKCOMP" /\ Head(lx) \in Items
          BY <2>1, RemainsTail DEF Heard
    <3>2. "ACKCOMP" \in AckBytes \ {"junk"}  BY DEF AckBytes
    <3>3. Head(lx) \in Acks  BY <3>1, <3>2, ByteEvents DEF Acks
    <3>4. QED  BY <3>1, <3>3, CountTail
  <2>4. v.retrans = w.retrans /\ v.pdata = w.pdata + Lesser(w.remain, MaxData)  BY <2>1 DEF Advanced
  <2>5. p < v.pdata
    <3>1. Lesser(w.remain, MaxData) \in Nat  BY <1>1, Constants, LesserType
    <3>2. QED  BY <1>1, <2>4, <3>1
  <2>6. n + o.fault \in Nat /\ n + o.fault >= n  BY <2>1
  <2>7. Ahead(v, r, rest, ly, p) <= Allowed(v, n + o.fault)
    <3>1. Ahead(w, r, lx, ly, p) <= Allowed(w, n)  BY DEF Exchanging
    <3>2. /\ Count(lx, Acks) \in Nat /\ Count(ly, Spurious(p)) \in Nat /\ Count(rest, Acks) \in Nat
          BY <1>1, AheadType
    <3> DEFINE a == Count(lx, Acks)
               b == Count(rest, Acks)
               c == Count(ly, Spurious(p))
               d == Len(w.cuts)
               e == Len(v.cuts)
               q == IF r.st = "DISCARDRETRANS" THEN 1 ELSE 0
               h == r.no
    <3>3. /\ a = b + 1 /\ a \in Nat /\ b \in Nat /\ c \in Nat /\ d \in Nat /\ e = d + 1 /\ q \in Nat
          /\ h \in Nat
          BY <1>1, <1>7, <2>2, <2>3, <3>2
    <3> HIDE DEF a, b, c, d, e, q, h
    <3>4. (e - h) + b + q + c = (d - h) + a + q + c  BY <3>3
    <3>5. Ahead(v, r, rest, ly, p) = Ahead(w, r, lx, ly, p)  BY <3>4 DEF Ahead, a, b, c, d, e, q, h
    <3>6. Allowed(v, n + o.fault) >= Allowed(w, n) /\ Allowed(w, n) \in Nat
          /\ Allowed(v, n + o.fault) \in Nat
      <4>1. v.retrans >= w.retrans  BY <1>1, <2>4
      <4>2. QED  BY <1>1, <2>6, <4>1, AllowedType
    <3>7. Ahead(w, r, lx, ly, p) \in Int  BY <1>1, AheadType
    <3>8. QED  BY <3>1, <3>5, <3>6, <3>7
  <2>8. CASE o.out = <<>>
    <3>1. Exchanging(v, r, k, rest, ly, p, n + o.fault)  BY <1>6, <2>2, <2>7 DEF Exchanging
    <3>2. QED  BY <1>2, <1>3, <2>5, <2>8, <3>1 DEF v
  <2>9. CASE v.remain > 0 /\ o.out = <<make_dmframe(v, FALSE)>>
    <3> DEFINE f == make_dmframe(v, FALSE)
    <3>1. /\ f \in Frames /\ f.no = Len(v.cuts) /\ f.again = FALSE
          /\ f.first = v.pdata /\ f.seqno = f.no % SeqMod
          /\ \A i \in Nat : i <= f.no + 1 /\ i <= f.no => FrameOK(f, v, i)
      <4>1. WriterOK(v, TurnAfter(o), last) /\ v.remain > 0 /\ FALSE \in BOOLEAN
            BY <2>9 DEF v
      <4>2. QED  BY <1>1, <4>1, SentFrame
    <3> HIDE DEF f
    <3>2. f.no \in Nat  BY <3>1 DEF Frames
    <3>3. FrameOK(f, v, r.no) /\ f.first > p  BY <1>1, <2>2, <2>5, <3>1, <3>2
    <3>4. f \notin Spurious(p)  BY <3>1 DEF Spurious
    <3>5. \A i \in 1..Len(ly) : ly[i] \in After(p) => ly[i].no < f.no
      <4> SUFFICES ASSUME NEW i \in 1..Len(ly), ly[i] \in After(p)
                   PROVE  ly[i].no < f.no
          OBVIOUS
      <4>1. FrameOK(ly[i], w, r.no)  BY <1>6 DEF FramesOK
      <4>2. ly[i] \in Frames  BY ItemKinds
      <4>3. ly[i].no \in Nat  BY <4>2 DEF Frames
      <4>4. ly[i].no <= Len(w.cuts)  BY <4>1 DEF FrameOK
      <4>5. QED  BY <1>7, <2>2, <3>1, <4>3, <4>4
    <3>6. Exchanging(v, r, k, rest, ly \o <<f>>, p, n + o.fault)
      <4>1. Ahead(v, r, rest, ly, p) \in Int  BY <1>1, AheadType
      <4>2. Ahead(v, r, rest, ly, p) + (IF f \in Spurious(p) THEN 1 ELSE 0) <= Allowed(v, n + o.fault)
            BY <2>7, <3>4, <4>1
      <4>3. QED  BY <1>1, <1>6, <2>2, <2>6, <3>1, <3>3, <3>5, <4>2, ExchangeSend
    <3>7. QED  BY <1>5, <2>5, <2>9, <3>1, <3>3, <3>6 DEF v, f
  <2>10. QED  BY <2>1, <2>8, <2>9
<1>12. QED  BY <1>8, <1>9, <1>10, <1>11 DEF Result

\* What the writer sends is a frame of its message, or nothing.
OneOrNone(out, first, last) ==
    out = <<>> \/ \E f \in Frames : out = <<f>> /\ f.first = first /\ f.first <= last

LEMMA SentItems ==
    ASSUME NEW w, Waiting(w), NEW event, NEW o, Result(o, w, event), NEW t, NEW last \in Nat,
           WriterOK(o.w, t, last)
    PROVE  OneOrNone(o.out, o.w.pdata, last)
<1>1. o.w \in Writers  BY DEF Result
<1>2. o.out = <<>> \/ (o.w.remain > 0 /\ \E again \in BOOLEAN : o.out = <<make_dmframe(o.w, again)>>)
  <2>1. Resends(o, w, event) => o.w.remain > 0  BY DEF Resends, SameNumbers, Waiting
  <2>2. QED  BY <2>1 DEF Result, Waits, Resends, GivesUp, MovesOn
<1>3. ASSUME NEW again \in BOOLEAN, o.w.remain > 0
      PROVE  make_dmframe(o.w, again) \in Frames /\ make_dmframe(o.w, again).first = o.w.pdata
      BY <1>1, <1>3, SentFrame
<1>4. o.w.remain > 0 => o.w.pdata <= last
  <2>1. o.w.pdata \in Nat /\ o.w.remain \in Nat  BY <1>1 DEF Writers
  <2>2. QED  BY <2>1 DEF WriterOK
<1>5. QED  BY <1>2, <1>3, <1>4 DEF OneOrNone

\* No frame beyond the last byte written.
LEMMA NothingBeyond ==
    ASSUME NEW s \in Seq(Items), NEW t \in Seq(Items), NEW b, Remains(t, s, b),
           NEW p \in Nat, ~Has(s, After(p)),
           NEW out \in Seq(Items), ~Has(out, Frames) \/ \E f \in Frames : out = <<f>> /\ f.first <= p
    PROVE  ~Has(t \o out, After(p))
<1>1. ~Has(t, After(p))  BY ClosedSets, RemainsHas
<1>2. ~Has(out, After(p))
  <2>1. CASE ~Has(out, Frames)  BY <2>1, ItemKinds DEF Has
  <2>2. CASE \E f \in Frames : out = <<f>> /\ f.first <= p
    <3>1. PICK f \in Frames : out = <<f>> /\ f.first <= p  BY <2>2
    <3>2. f \notin After(p)
      <4>1. f.first \in Nat  BY DEF Frames
      <4>2. QED  BY <3>1, <4>1 DEF After
    <3>3. QED  BY <3>1, <3>2, OneItem
  <2>3. QED  BY <2>1, <2>2
<1>3. QED  BY <1>1, <1>2, HasJoin

\* The ends after a step of the engine of one of them.
LEMMA EngineEnds ==
    ASSUME TypeOK, EndsOK, NEW e \in Ends, NEW w, NEW event, NEW o, NEW rest,
           EngineMove(e, w, event, o, rest)
    PROVE  EndsOK'
<1> DEFINE q == Peer(e)
<1>1. q \in Ends /\ q # e /\ Peer(q) = e /\ \A d \in Ends : d = e \/ d = q  BY Two
<1>2. /\ WriterOK(wr[e], turn[e], LastByte(e)) /\ WriterOK(wr[q], turn[q], LastByte(q))
      /\ ReaderOK(rd[e], turn[e], got[e]) /\ ReaderOK(rd[q], turn[q], got[q])
      /\ ~Has(line[q], After(LastByte(e))) /\ ~Has(line[e], After(LastByte(q)))
      BY <1>1 DEF EndsOK
<1>3. /\ line[e] \in Seq(Items) /\ line[q] \in Seq(Items) /\ LastByte(e) \in Nat /\ LastByte(q) \in Nat
      BY <1>1, ByteTypes DEF TypeOK
<1>4. /\ turn[e] = "write" /\ Waiting(w) /\ Result(o, w, event)
      /\ WriterOK(o.w, TurnAfter(o), LastByte(e))
      /\ rest = line[e] \/ (line[e] # <<>> /\ rest = Tail(line[e]))
      /\ wr'[e] = o.w /\ wr'[q] = wr[q]
      /\ line'[e] = rest /\ line'[q] = line[q] \o o.out /\ o.out \in Seq(Items)
      /\ turn'[e] = TurnAfter(o) /\ turn'[q] = turn[q]
      /\ rd' = rd /\ got' = got /\ ends' = ends
      BY DEF EngineMove
<1>5. LastByte(e)' = LastByte(e) /\ LastByte(q)' = LastByte(q)  BY <1>4 DEF LastByte
<1>6. ReaderOK(rd[e], TurnAfter(o), got[e])
  <2>1. rd[e].st = "EXIT"  BY <1>2, <1>4 DEF ReaderOK
  <2>2. QED  BY <1>2, <2>1 DEF ReaderOK
<1>7. ~Has(line[q] \o o.out, After(LastByte(e)))
  <2>1. Remains(line[q], line[q], FALSE)  BY <1>3, RemainsTail
  <2>2. ~Has(o.out, Frames) \/ \E f \in Frames : o.out = <<f>> /\ f.first <= LastByte(e)
    <3>1. OneOrNone(o.out, o.w.pdata, LastByte(e))  BY <1>3, <1>4, SentItems
    <3>2. QED  BY <3>1, NoItem DEF OneOrNone
  <2>3. QED  BY <1>2, <1>3, <1>4, <2>1, <2>2, NothingBeyond
<1>8. ~Has(rest, After(LastByte(q)))
  <2>1. rest \in Seq(Items) /\ Remains(rest, line[e], FALSE)  BY <1>3, <1>4, RemainsTail
  <2>2. Closed(After(LastByte(q)), FALSE)  BY <1>3, ClosedSets
  <2>3. QED  BY <1>2, <1>3, <2>1, <2>2, RemainsHas
<1>9. /\ WriterOK(wr[e], turn[e], LastByte(e))' /\ ReaderOK(rd[e], turn[e], got[e])'
      /\ (~Has(line[q], After(LastByte(e))))'
      BY <1>4, <1>5, <1>6, <1>7
<1>10. /\ WriterOK(wr[q], turn[q], LastByte(q))' /\ ReaderOK(rd[q], turn[q], got[q])'
       /\ (~Has(line[e], After(LastByte(q))))'
       BY <1>2, <1>4, <1>5, <1>8
<1> HIDE DEF q
<1>11. QED  BY <1>1, <1>9, <1>10 DEF EndsOK, q


\* The link after a step of the engine of the owner's writer.
LEMMA EngineOwner ==
    ASSUME TypeOK, EndsOK, NEW x \in Ends, LinkAt(x, Peer(x)),
           NEW w, NEW event, NEW o, NEW rest, EngineMove(x, w, event, o, rest)
    PROVE  LinkAt(x, Peer(x))'
<1> DEFINE y == Peer(x)
<1>1. y \in Ends /\ y # x /\ Peer(y) = x  BY Two
<1> HIDE DEF y
<1>2. LinkAt(x, y)  BY DEF y
<1>3. /\ wr[x] \in Writers /\ wr[y] \in Writers /\ rd[x] \in Readers /\ rd[y] \in Readers
      /\ line[x] \in Seq(Items) /\ line[y] \in Seq(Items) /\ faults \in Nat
      /\ LastByte(x) \in Nat /\ Prev(x) \in Nat /\ Received(y) \in Nat
      BY <1>1, ByteTypes DEF TypeOK
<1>4. /\ turn[x] = "write" /\ wr[x].st # "EXIT" /\ Waiting(w) /\ Result(o, w, event)
      /\ SameNumbers(w, wr[x]) /\ w.retrans = wr[x].retrans
      /\ WriterOK(o.w, TurnAfter(o), LastByte(x))
      /\ rest = line[x] \/ (line[x] # <<>> /\ rest = Tail(line[x]))
      /\ Heard(event, line[x], rest)
      /\ wr'[x] = o.w /\ wr'[y] = wr[y]
      /\ line'[x] = rest /\ line'[y] = line[y] \o o.out /\ o.out \in Seq(Items)
      /\ turn'[x] = TurnAfter(o) /\ turn'[y] = turn[y] /\ faults' = faults + o.fault
      /\ rd' = rd /\ got' = got /\ ends' = ends
      BY <1>1 DEF EngineMove, y, Heard
<1>5. /\ LastByte(x)' = LastByte(x) /\ LastByte(y)' = LastByte(y) /\ Prev(x)' = Prev(x)
      /\ Received(x)' = Received(x) /\ Received(y)' = Received(y)
      BY <1>4 DEF LastByte, Prev, Received
<1>6. /\ Modes(x, y) /\ Room(x, y) /\ Answered(x, y) /\ Exchange(x, y)
      /\ Lines(turn[x], turn[y], Writing(y), Idle(y), line[x], line[y], Prev(x))
      BY <1>2 DEF LinkAt
<1>7. rest \in Seq(Items) /\ Remains(rest, line[x], FALSE)  BY <1>3, <1>4, RemainsTail
<1>8. /\ Exchanging(o.w, rd[y], Received(y), rest, line[y] \o o.out, Prev(x), faults + o.fault)
      /\ Prev(x) < o.w.pdata /\ ~Has(o.out, Replies) /\ ~Has(o.out, UpTo(Prev(x)))
  <2>1. Exchanging(w, rd[y], Received(y), line[x], line[y], Prev(x), faults)
    <3>1. SameReader(rd[y], rd[y])  BY DEF SameReader
    <3>2. Exchanging(wr[x], rd[y], Received(y), line[x], line[y], Prev(x), faults)
          BY <1>6 DEF Exchange
    <3>3. QED  BY <1>4, <3>1, <3>2, SameExchange
  <2>2. Prev(x) < w.pdata /\ WriterOK(w, "write", LastByte(x))
    <3>1. WriterOK(wr[x], "write", LastByte(x))  BY <1>4 DEF EndsOK
    <3>2. w.st # "EXIT" /\ w.remain > 0 /\ w.retrans < MaxRetries  BY <1>4 DEF Waiting
    <3>3. WriterOK(w, "write", LastByte(x))  BY <1>4, <3>1, <3>2 DEF WriterOK, SameNumbers
    <3>4. QED  BY <1>4, <1>6, <3>3 DEF Room, SameNumbers
  <2>3. PICK last \in Nat, p \in Nat, k \in Nat, n \in Nat :
            last = LastByte(x) /\ p = Prev(x) /\ k = Received(y) /\ n = faults
        BY <1>3
  <2>4. /\ Exchanging(o.w, rd[y], k, rest, line[y] \o o.out, p, n + o.fault)
        /\ p < o.w.pdata /\ ~Has(o.out, Replies) /\ ~Has(o.out, UpTo(p))
    <3>1. /\ Waiting(w) /\ WriterOK(w, "write", last) /\ p < w.pdata
          /\ Exchanging(w, rd[y], k, line[x], line[y], p, n)
          /\ Result(o, w, event) /\ WriterOK(o.w, TurnAfter(o), last)
          BY <1>4, <2>1, <2>2, <2>3
    <3>2. QED  BY <1>3, <1>4, <1>7, <3>1, OwnerWrites
  <2>5. QED  BY <2>3, <2>4
<1>9. Exchange(x, y)'  BY <1>4, <1>5, <1>8 DEF Exchange
\* Becoming a reader, the owner has heard an acknowledgement.
<1>10. TurnAfter(o) = "read" =>
          line[x] # <<>> /\ rest = Tail(line[x]) /\ Head(line[x]) \in Replies /\ ~Writing(y)
  <2> SUFFICES ASSUME TurnAfter(o) = "read"
               PROVE  line[x] # <<>> /\ rest = Tail(line[x]) /\ Head(line[x]) \in Replies /\ ~Writing(y)
      OBVIOUS
  <2>1. o.w.st = "EXIT" /\ o.error = "NOERROR"  BY DEF TurnAfter
  <2>2. MovesOn(o, w, event)
    <3>1. ~Waits(o, w, event)  BY <1>4, <2>1 DEF Waits, Waiting
    <3>2. ~Resends(o, w, event)  BY <2>1 DEF Resends
    <3>3. ~GivesUp(o, w, event)  BY <2>1 DEF GivesUp, Errors
    <3>4. QED  BY <1>4, <3>1, <3>2, <3>3 DEF Result
  <2>3. event = "ACKCOMP"  BY <2>2 DEF MovesOn
  <2>4. line[x] # <<>> /\ rest = Tail(line[x]) /\ ByteEvent(Head(line[x])) = "ACKCOMP"
        BY <1>4, <2>3 DEF Heard
  <2>5. Head(line[x]) \in Items  BY <1>3, <2>4, RemainsTail
  <2>6. Head(line[x]) \in Replies  BY <2>4, <2>5, ByteEvents
  <2>7. Has(line[x], Replies)  BY <1>3, <2>4, <2>6, HeadHas
  <2>8. QED  BY <1>6, <2>4, <2>6, <2>7 DEF Lines
<1>11. TurnAfter(o) = "write" => o.w.st # "EXIT"  BY DEF TurnAfter
<1>12. Modes(x, y)'
  <2>1. Writing(y)' <=> Writing(y)  BY <1>4 DEF Writing
  <2>2. Idle(y)' <=> Idle(y)  BY <1>4 DEF Idle
  <2>3. QED  BY <1>4, <1>5, <1>6, <1>10, <1>11, <2>1, <2>2 DEF Modes
<1>13. Room(x, y)'  BY <1>4, <1>5, <1>6, <1>8 DEF Room
<1>14. Answered(x, y)'
  <2>1. Writing(y)' <=> Writing(y)  BY <1>4 DEF Writing
  <2>2. QED  BY <1>4, <1>5, <1>6, <2>1 DEF Answered
<1>15. Lines(TurnAfter(o), turn[y], Writing(y), Idle(y), rest, line[y] \o o.out, Prev(x))
  <2>1. rest \o <<>> = rest /\ <<>> \in Seq(Items)  BY <1>7
  <2>2. ~Before(<<>>, Replies, Frames) /\ ~Has(<<>>, Frames) /\ ~Has(<<>>, Replies)  BY NoItem
  <2>3. Remains(line[y], line[y], FALSE)  BY <1>3, RemainsTail
  <2>4. TurnAfter(o) = "read" => ~Has(rest, Frames)
        BY <1>3, <1>6, <1>10, HeadBefore DEF Lines
  <2>5. Closed(Replies, FALSE)  BY <1>3, ClosedSets
  <2>6. Writing(y) => ~Has(rest, Replies)
        BY <1>3, <1>6, <1>7, <2>5, RemainsHas DEF Lines
  <2>7. /\ turn[y] = "read" => ~Has(line[y], UpTo(Prev(x)))
        /\ Idle(y) => ~Has(line[y], Replies)
        BY <1>6 DEF Lines
  <2> DEFINE wy == Writing(y)
             iy == Idle(y)
             t == TurnAfter(o)
  <2>8. /\ Lines(turn[x], turn[y], wy, iy, line[x], line[y], Prev(x))
        /\ LinesAllow(t, turn[y], wy, iy, rest, line[y], <<>>, Prev(x))
        BY <1>6, <2>2, <2>4, <2>6, <2>7 DEF LinesAllow
  <2> HIDE DEF wy, iy, t
  <2>9. Lines(t, turn[y], wy, iy, rest \o <<>>, line[y] \o o.out, Prev(x))
    <3>1. /\ line[x] \in Seq(Items) /\ line[y] \in Seq(Items) /\ Prev(x) \in Nat /\ rest \in Seq(Items)
          /\ Remains(rest, line[x], FALSE) /\ Remains(line[y], line[y], FALSE)
          /\ <<>> \in Seq(Items) /\ o.out \in Seq(Items)
          /\ ~Has(o.out, Replies) /\ ~Has(o.out, UpTo(Prev(x))) /\ ~Before(<<>>, Replies, Frames)
          /\ ~Has(<<>>, Frames) \/ ~Has(rest, Replies)
          BY <1>3, <1>4, <1>7, <1>8, <2>1, <2>2, <2>3
    <3>2. QED  BY <2>8, <3>1, LinesStep
  <2>10. QED  BY <2>1, <2>9 DEF wy, iy, t
<1>16. Lines(turn[x], turn[y], Writing(y), Idle(y), line[x], line[y], Prev(x))'
       BY <1>4, <1>5, <1>15 DEF Lines, Writing, Idle
<1>17. LinkAt(x, y)'  BY <1>9, <1>12, <1>13, <1>14, <1>16 DEF LinkAt
<1>18. QED  BY <1>17 DEF y

\* The link after a step of the engine of the other's writer, which sends its
\* last frame again or hears it acknowledged.
LEMMA EngineOther ==
    ASSUME TypeOK, EndsOK, NEW x \in Ends, LinkAt(x, Peer(x)),
           NEW w, NEW event, NEW o, NEW rest, EngineMove(Peer(x), w, event, o, rest)
    PROVE  LinkAt(x, Peer(x))'
<1> DEFINE y == Peer(x)
<1>1. y \in Ends /\ y # x /\ Peer(y) = x  BY Two
<1> HIDE DEF y
<1>2. LinkAt(x, y) /\ EngineMove(y, w, event, o, rest)  BY DEF y
<1>3. /\ wr[x] \in Writers /\ wr[y] \in Writers /\ rd[x] \in Readers /\ rd[y] \in Readers
      /\ line[x] \in Seq(Items) /\ line[y] \in Seq(Items) /\ faults \in Nat
      /\ LastByte(y) \in Nat /\ Prev(x) \in Nat /\ Received(y) \in Nat
      BY <1>1, ByteTypes DEF TypeOK
<1>4. /\ turn[y] = "write" /\ wr[y].st # "EXIT" /\ Waiting(w) /\ Result(o, w, event)
      /\ SameNumbers(w, wr[y]) /\ w.retrans = wr[y].retrans
      /\ WriterOK(o.w, TurnAfter(o), LastByte(y))
      /\ rest = line[y] \/ (line[y] # <<>> /\ rest = Tail(line[y]))
      /\ Heard(event, line[y], rest)
      /\ wr'[y] = o.w /\ wr'[x] = wr[x]
      /\ line'[y] = rest /\ line'[x] = line[x] \o o.out /\ o.out \in Seq(Items)
      /\ turn'[y] = TurnAfter(o) /\ turn'[x] = turn[x] /\ faults' = faults + o.fault
      /\ rd' = rd /\ got' = got /\ ends' = ends
      BY <1>1, <1>2 DEF EngineMove, Heard
<1>5. /\ LastByte(x)' = LastByte(x) /\ LastByte(y)' = LastByte(y) /\ Prev(x)' = Prev(x)
      /\ Received(x)' = Received(x) /\ Received(y)' = Received(y)
      BY <1>4 DEF LastByte, Prev, Received
<1>6. /\ Modes(x, y) /\ Room(x, y) /\ Answered(x, y) /\ Exchange(x, y)
      /\ Lines(turn[x], turn[y], Writing(y), Idle(y), line[x], line[y], Prev(x)) /\ Writing(y)
      BY <1>2, <1>4 DEF LinkAt, Writing
<1>7. rest \in Seq(Items) /\ Remains(rest, line[y], FALSE) /\ Remains(line[x], line[x], FALSE)
      BY <1>3, <1>4, RemainsTail
<1>8. OneOrNone(o.out, o.w.pdata, LastByte(y))  BY <1>3, <1>4, SentItems
<1>9. ~Has(o.out, Replies) /\ ~Before(o.out, Replies, Frames)
  <2>1. CASE o.out = <<>>  BY <2>1, NoItem
  <2>2. CASE \E f \in Frames : o.out = <<f>>
    <3>1. PICK f \in Frames : o.out = <<f>>  BY <2>2
    <3>2. f \notin Replies  BY ItemKinds, 0 \in Nat
    <3>3. QED  BY <3>1, <3>2, OneItem
  <2>3. QED  BY <1>8, <2>1, <2>2 DEF OneOrNone
\* The exchange only loses items of the line to y.
<1>10. Exchanging(wr[x], rd[y], Received(y), line[x] \o o.out, rest, Prev(x), faults + o.fault)
  <2>1. PICK p \in Nat, k, n \in Nat : p = Prev(x) /\ k = Received(y) /\ n = faults  BY <1>3
  <2>2. n + o.fault \in Nat /\ n + o.fault >= n
    <3>1. o.fault \in {0, 1}  BY <1>4 DEF Result, Waits, Resends, GivesUp, MovesOn
    <3>2. QED  BY <3>1
  <2>3. Exchanging(wr[x], rd[y], k, line[x], rest, p, n + o.fault)
    <3>1. Exchanging(wr[x], rd[y], k, line[x], line[y], p, n)  BY <1>6, <2>1 DEF Exchange
    <3>2. QED  BY <1>3, <1>7, <2>2, <3>1, ExchangeRemains
  <2>4. CASE o.out = <<>>
    <3>1. line[x] \o <<>> = line[x]  BY <1>3
    <3>2. QED  BY <2>1, <2>3, <2>4, <3>1
  <2>5. CASE \E f \in Frames : o.out = <<f>>
    <3>1. PICK f \in Frames : o.out = <<f>>  BY <2>5
    <3>2. Exchanging(wr[x], rd[y], k, line[x] \o <<f>>, rest, p, n + o.fault)
          BY <1>3, <2>3, ExchangeAppendX
    <3>3. QED  BY <2>1, <3>1, <3>2
  <2>6. QED  BY <1>8, <2>4, <2>5 DEF OneOrNone
<1>11. Exchange(x, y)'  BY <1>4, <1>5, <1>10 DEF Exchange
\* Its write goes on with the frame it has, or ends.
<1>12. /\ TurnAfter(o) = "write" => o.w.st # "EXIT" /\ o.w.remain <= MaxData
       /\ TurnAfter(o) # "write" => o.w.st = "EXIT"
       /\ TurnAfter(o) # "closed" =>
            /\ Received(x) = LastByte(y)
            /\ rd[x].no = Len(o.w.cuts) + (IF o.w.st # "EXIT" THEN 1 ELSE 0)
       /\ TurnAfter(o) = "read" => line[y] # <<>> /\ rest = Tail(line[y]) /\ Head(line[y]) \in Replies
  <2>1. Received(x) = LastByte(y) /\ rd[x].no = Len(w.cuts) + 1 /\ w.remain <= MaxData /\ w.remain > 0
        /\ w.remain \in Nat /\ Len(w.cuts) \in Nat
    <3>1. Received(x) = LastByte(y) /\ rd[x].no = Len(wr[y].cuts) + 1 /\ wr[y].remain <= MaxData
          BY <1>4, <1>6 DEF Answered
    <3>2. w \in Writers /\ w.remain > 0  BY <1>4 DEF Waiting
    <3>3. w.remain \in Nat /\ Len(w.cuts) \in Nat  BY <3>2 DEF Writers
    <3>4. QED  BY <1>4, <3>1, <3>2, <3>3 DEF SameNumbers
  <2>2. CASE Waits(o, w, event)
    <3>1. SameNumbers(o.w, w) /\ o.w.st # "EXIT"
      <4>1. w \in Writers /\ w.st # "EXIT"  BY <1>4 DEF Waiting
      <4>2. QED  BY <2>2, <4>1 DEF Waits, SameNumbers, Writers
    <3>2. TurnAfter(o) = "write"  BY <3>1, TurnAfterFacts
    <3>3. QED  BY <2>1, <3>1, <3>2 DEF SameNumbers
  <2>3. CASE Resends(o, w, event)
    <3>1. SameNumbers(o.w, w) /\ o.w.st = "FRAMESENDED"  BY <2>3 DEF Resends
    <3>2. TurnAfter(o) = "write"  BY <3>1, TurnAfterFacts
    <3>3. QED  BY <2>1, <3>1, <3>2 DEF SameNumbers
  <2>4. CASE GivesUp(o, w, event)
    <3>1. o.w.st = "EXIT" /\ TurnAfter(o) = "closed"
          BY <2>4, TurnAfterFacts DEF GivesUp, Errors
    <3>2. QED  BY <3>1
  <2>5. CASE MovesOn(o, w, event)
    <3>1. Lesser(w.remain, MaxData) = w.remain  BY <2>1, Constants DEF Lesser
    <3>2. o.w.remain = 0 /\ o.w.cuts = Append(w.cuts, o.w.pdata)
          BY <2>1, <2>5, <3>1 DEF MovesOn, Advanced
    <3>3. o.w.st = "EXIT" /\ o.error = "NOERROR" /\ event = "ACKCOMP"  BY <2>5, <3>2 DEF MovesOn
    <3>4. TurnAfter(o) = "read"  BY <3>3, TurnAfterFacts
    <3>5. Len(o.w.cuts) = Len(w.cuts) + 1
      <4>1. w \in Writers /\ o.w \in Writers  BY <1>4 DEF Waiting, Result
      <4>2. w.cuts \in Seq(Nat \ {0}) /\ o.w.pdata \in Nat \ {0}  BY <4>1 DEF Writers
      <4>3. QED  BY <3>2, <4>2
    <3>6. line[y] # <<>> /\ rest = Tail(line[y]) /\ Head(line[y]) \in Replies
      <4>1. line[y] # <<>> /\ rest = Tail(line[y]) /\ ByteEvent(Head(line[y])) = "ACKCOMP"
            BY <1>4, <3>3 DEF Heard
      <4>2. Head(line[y]) \in Items  BY <1>3, <4>1, RemainsTail
      <4>3. QED  BY <4>1, <4>2, ByteEvents
    <3>7. QED  BY <2>1, <3>3, <3>4, <3>5, <3>6
  <2>6. QED  BY <1>4, <2>2, <2>3, <2>4, <2>5 DEF Result
<1>13. turn[x] # "read"  BY <1>6 DEF Modes
<1>14. ~Idle(y)'  BY <1>4, <1>12 DEF Idle
<1>15. Writing(y)' => o.w.st # "EXIT" /\ TurnAfter(o) = "write"  BY <1>4 DEF Writing
<1>16. o.w.st # "EXIT" => Writing(y)'  BY <1>4, <1>12 DEF Writing
<1>17. Modes(x, y)'  BY <1>4, <1>6, <1>13, <1>14 DEF Modes
<1>18. Room(x, y)'  BY <1>4, <1>5, <1>6 DEF Room
<1>19. Answered(x, y)'
  <2>1. (turn[y])' # "closed" => (Writing(y)' <=> o.w.st # "EXIT")  BY <1>15, <1>16
  <2>2. QED  BY <1>4, <1>5, <1>12, <1>15, <2>1 DEF Answered
<1>20. ASSUME NEW wy \in BOOLEAN, NEW iy \in BOOLEAN, ~iy
       PROVE  Lines(turn[x], TurnAfter(o), wy, iy, line[x] \o o.out, rest, Prev(x))
  <2>1. rest \o <<>> = rest /\ <<>> \in Seq(Items)  BY <1>7
  <2>2. ~Has(<<>>, Replies) /\ ~Has(<<>>, UpTo(Prev(x)))  BY NoItem
  <2>3. ~Has(line[x], Replies)  BY <1>6 DEF Lines
  <2>4. TurnAfter(o) = "read" => ~Has(rest, UpTo(Prev(x)))
        BY <1>3, <1>6, <1>12, HeadBefore DEF Lines
  <2>5. LinesAllow(turn[x], TurnAfter(o), wy, iy, line[x], rest, o.out, Prev(x))
        BY <1>9, <1>13, <1>20, <2>3, <2>4 DEF LinesAllow
  <2> DEFINE uy == Writing(y)
             jy == Idle(y)
  <2>6. Lines(turn[x], turn[y], uy, jy, line[x], line[y], Prev(x))  BY <1>6
  <2> HIDE DEF uy, jy
  <2>7. /\ line[x] \in Seq(Items) /\ line[y] \in Seq(Items) /\ Prev(x) \in Nat /\ rest \in Seq(Items)
        /\ Remains(rest, line[y], FALSE) /\ Remains(line[x], line[x], FALSE)
        /\ <<>> \in Seq(Items) /\ o.out \in Seq(Items)
        /\ ~Has(<<>>, Replies) /\ ~Has(<<>>, UpTo(Prev(x))) /\ ~Before(o.out, Replies, Frames)
        /\ ~Has(o.out, Frames) \/ ~Has(line[x], Replies)
        BY <1>3, <1>4, <1>7, <1>9, <2>1, <2>2, <2>3
  <2>8. Lines(turn[x], TurnAfter(o), wy, iy, line[x] \o o.out, rest \o <<>>, Prev(x))
        BY <2>5, <2>6, <2>7, LinesStep
  <2>9. QED  BY <2>1, <2>8
<1>21. Lines(turn[x], turn[y], Writing(y), Idle(y), line[x], line[y], Prev(x))'
  <2>1. Lines(turn[x], TurnAfter(o), TRUE, FALSE, line[x] \o o.out, rest, Prev(x))  BY <1>20
  <2>2. QED  BY <1>4, <1>5, <1>14, <2>1 DEF Lines
<1>22. LinkAt(x, y)'  BY <1>11, <1>17, <1>18, <1>19, <1>21 DEF LinkAt
<1>23. QED  BY <1>22 DEF y

-----------------------------------------------------------------------------
(* Steps of the reader.                                                      *)

LEMMA SubSeqWhole ==
    ASSUME NEW I, NEW s \in Seq(I)
    PROVE  SubSeq(s, 1, Len(s)) = s /\ SubSeq(s, Len(s) + 1, Len(s)) = <<>>
<1> DEFINE u == SubSeq(s, 1, Len(s))
           v == SubSeq(s, Len(s) + 1, Len(s))
<1>1. Len(s) \in Nat  OBVIOUS
<1>2. u \in Seq(I) /\ Len(u) = Len(s) /\ \A i \in 1..Len(u) : u[i] = s[i]  OBVIOUS
<1>3. v \in Seq(I) /\ Len(v) = 0  OBVIOUS
<1> HIDE DEF u, v
<1>4. u = s  BY <1>2, SeqEqual
<1>5. v = <<>>  BY <1>3
<1>6. QED  BY <1>4, <1>5 DEF u, v

\* The four things a step of the reader s leads to, with l the line to it, g
\* what its application was given and last the last byte written to it: the
\* reader r, with rest and out on the lines, and t and h for its application.
Opens(s, r, l, rest, out) ==
    /\ s.st = "EXIT" /\ r.st = "WAITSOH" /\ r.buf = s.buf /\ r.readed = 0
    /\ rest = l /\ out = <<>>
\* The line is taken up to its next item at most.
Takes(l, rest) == rest = l \/ (l # <<>> /\ rest = Tail(l))
\* A reader that waits for a frame passes over what begins none.
Passes(s, l, rest) ==
    rest = l \/ (l # <<>> /\ rest = Tail(l) /\ (s.st = "WAITSOH" => Head(l).b # "SOH"))
Repeats(s, r, l, rest, out) ==
    /\ s.st = "WAITSOH" /\ r.st = "DISCARDRETRANS" /\ l # <<>> /\ Head(l).b = "SOH"
    /\ IsRetrans(s, Head(l)) /\ rest = Tail(l) /\ out = <<>>
Refuses(s, r, l, rest) ==
    /\ s.st = "WAITSOH" /\ r.st = "DISCARDBYTES" /\ l # <<>> /\ Head(l).b = "SOH"
    /\ ~IsRetrans(s, Head(l)) /\ (Head(l).seqno # s.next \/ ~Head(l).good) /\ rest = Tail(l)
Continues(s, r, l, rest, out) ==
    /\ s.st # "EXIT" /\ r.st # "EXIT" /\ r.buf = s.buf /\ r.readed = s.readed
    /\ \/ out = <<>> /\ r.st = s.st /\ Passes(s, l, rest)
       \/ out = <<>> /\ Refuses(s, r, l, rest)
       \/ out = send_ack /\ rest = l /\ s.st = "DISCARDRETRANS" /\ r.st = "WAITSOH"
       \/ out = send_nack /\ rest = l /\ s.st = "DISCARDBYTES" /\ r.st = "WAITSOH"
       \/ Repeats(s, r, l, rest, out)
Fails(s, r, l, rest, out, g, h) ==
    /\ s.st # "EXIT" /\ r.st = "EXIT" /\ r.buf = <<>> /\ h = g \o s.buf
    /\ Takes(l, rest) /\ out = <<>>
\* The buffer with what frame f brings.
Buffered(s, f) == s.buf \o [i \in 1..Lesser(f.len, BufSize - Len(s.buf)) |-> f.first + i - 1]
Keeps(s, r, f, g, t, h) ==
    r.st = "WAITSOH" /\ r.buf = Buffered(s, f) /\ r.readed = s.readed + f.len /\ t = "read" /\ h = g
Returns(s, r, f, g, t, h, last) ==
    LET b == Buffered(s, f)
        n == Lesser(s.readed + f.len, Len(b))
    IN /\ r.st = "EXIT" /\ r.buf = SubSeq(b, n + 1, Len(b)) /\ h = g \o SubSeq(b, 1, n)
       /\ t = IF h # <<>> /\ h[Len(h)] = last THEN "write" ELSE "read"
Accepts(s, r, l, rest, out, g, t, h, last) ==
    /\ s.st = "WAITSOH" /\ l # <<>> /\ Head(l).b = "SOH" /\ Head(l).good /\ Head(l).seqno = s.next
    /\ rest = Tail(l) /\ out = send_ack /\ r.no = s.no + 1 /\ r.next = (s.next + 1) % SeqMod
    /\ Keeps(s, r, Head(l), g, t, h) \/ Returns(s, r, Head(l), g, t, h, last)
Stays(s, r, g, t, h) == r.no = s.no /\ r.next = s.next /\ t = "read" /\ h = g
ReadResult(s, r, l, rest, out, g, t, h, last) ==
    \/ Stays(s, r, g, t, h) /\ (Opens(s, r, l, rest, out) \/ Continues(s, r, l, rest, out))
    \/ r.no = s.no /\ r.next = s.next /\ t = "closed" /\ Fails(s, r, l, rest, out, g, h)
    \/ Accepts(s, r, l, rest, out, g, t, h, last)

\* One step of the reader at end e.
ReaderMove(e, r, rest, out, t, h) ==
    /\ turn[e] = "read" /\ ReadResult(rd[e], r, line[e], rest, out, got[e], t, h, LastByte(Peer(e)))
    /\ r \in Readers /\ out \in Seq(Items) /\ rest \in Seq(Items)
    /\ rd'[e] = r /\ rd'[Peer(e)] = rd[Peer(e)]
    /\ line'[e] = rest /\ line'[Peer(e)] = line[Peer(e)] \o out
    /\ turn'[e] = t /\ turn'[Peer(e)] = turn[Peer(e)]
    /\ got'[e] = h /\ got'[Peer(e)] = got[Peer(e)]
    /\ wr' = wr /\ ends' = ends /\ faults' = faults /\ garbled' = garbled /\ late' = late

\* The application of e does t and was given h; the error of a read.
Gives(e, t, h) == turn' = [turn EXCEPT ![e] = t] /\ got' = [got EXCEPT ![e] = h]
ReadError(e) ==
    err' = err \/ \E x \in {"NOERROR", "MAXRETRIES", "RXUPLAYER_TO"} : err' = [err EXCEPT ![e] = x]

LEMMA ReaderEffect ==
    ASSUME TypeOK, NEW e \in Ends, NEW r \in Readers, Len(r.buf) <= BufSize,
           NEW rest \in Seq(Items), NEW out \in Seq(Items), ReaderStep(e, r, rest, out),
           NEW t \in {"write", "read", "closed"}, NEW h \in Seq(Nat \ {0}), Gives(e, t, h),
           ReadError(e)
    PROVE  /\ TypeOK'
           /\ rd'[e] = r /\ rd'[Peer(e)] = rd[Peer(e)]
           /\ line'[e] = rest /\ line'[Peer(e)] = line[Peer(e)] \o out
           /\ turn'[e] = t /\ turn'[Peer(e)] = turn[Peer(e)]
           /\ got'[e] = h /\ got'[Peer(e)] = got[Peer(e)]
           /\ wr' = wr /\ ends' = ends /\ faults' = faults /\ garbled' = garbled /\ late' = late
<1> DEFINE q == Peer(e)
<1>1. q \in Ends /\ q # e /\ \A d \in Ends : d = e \/ d = q  BY Two
<1>2. /\ rd' = [rd EXCEPT ![e] = r] /\ line' = [line EXCEPT ![e] = rest, ![q] = @ \o out]
      /\ wr' = wr /\ ends' = ends /\ faults' = faults /\ garbled' = garbled /\ late' = late
      BY DEF ReaderStep
<1>3. /\ wr \in [Ends -> Writers] /\ rd \in [Ends -> Readers] /\ line \in [Ends -> Seq(Items)]
      /\ turn \in [Ends -> {"write", "read", "closed"}]
      /\ err \in [Ends -> {"NOERROR", "MAXRETRIES", "TXUPLAYER_TO", "RXUPLAYER_TO", "FATAL"}]
      /\ faults \in 0..MaxFaults /\ \A d \in Ends : Len(rd[d].buf) <= BufSize
      /\ ends \in [Ends -> Seq(Nat \ {0})]
      /\ got \in [Ends -> Seq(Nat \ {0})] /\ garbled \in BOOLEAN /\ late \in BOOLEAN
      BY DEF TypeOK
<1> HIDE DEF q
<1>4. rd' \in [Ends -> Readers] /\ rd'[e] = r /\ rd'[q] = rd[q]  BY <1>1, <1>2, <1>3
<1>5. line[q] \o out \in Seq(Items)
  <2>1. line[q] \in Seq(Items)  BY <1>1, <1>3
  <2>2. QED  BY <2>1
<1>6. line' \in [Ends -> Seq(Items)] /\ line'[e] = rest /\ line'[q] = line[q] \o out
      BY <1>1, <1>2, <1>3, <1>5
<1>7. turn' \in [Ends -> {"write", "read", "closed"}] /\ turn'[e] = t /\ turn'[q] = turn[q]
      BY <1>1, <1>3 DEF Gives
<1>8. got' \in [Ends -> Seq(Nat \ {0})] /\ got'[e] = h /\ got'[q] = got[q]  BY <1>1, <1>3 DEF Gives
<1>9. err' \in [Ends -> {"NOERROR", "MAXRETRIES", "TXUPLAYER_TO", "RXUPLAYER_TO", "FATAL"}]
      BY <1>3 DEF ReadError
<1>10. \A d \in Ends : Len(rd'[d].buf) <= BufSize  BY <1>1, <1>3, <1>4
<1>11. TypeOK'  BY <1>2, <1>3, <1>4, <1>6, <1>7, <1>8, <1>9, <1>10 DEF TypeOK
<1>12. QED  BY <1>2, <1>4, <1>6, <1>7, <1>8, <1>11 DEF q

\* What is read or returned leaves the application's data, its turn and the
\* error in their ranges.
LEMMA SameData ==
    ASSUME TypeOK, NEW e \in Ends, UNCHANGED <<turn, got>>
    PROVE  /\ turn' = [turn EXCEPT ![e] = turn[e]] /\ turn[e] \in {"write", "read", "closed"}
           /\ got' = [got EXCEPT ![e] = got[e]] /\ got[e] \in Seq(Nat \ {0})
BY DEF TypeOK

LEMMA ReturnedType ==
    ASSUME NEW s \in Readers, NEW n \in Nat, NEW g \in Seq(Nat \ {0})
    PROVE  /\ g \o SubSeq(s.buf, 1, Lesser(n, Len(s.buf))) \in Seq(Nat \ {0})
           /\ SubSeq(s.buf, Lesser(n, Len(s.buf)) + 1, Len(s.buf)) \in Seq(Nat \ {0})
           /\ Len(SubSeq(s.buf, Lesser(n, Len(s.buf)) + 1, Len(s.buf))) <= Len(s.buf)
<1> DEFINE b == s.buf
           m == Lesser(n, Len(b))
<1>1. b \in Seq(Nat \ {0}) /\ Len(b) \in Nat  BY DEF Readers
<1>2. m \in Nat /\ m <= Len(b)  BY <1>1, LesserType
<1> HIDE DEF b, m
<1>3. SubSeq(b, 1, m) \in Seq(Nat \ {0}) /\ SubSeq(b, m + 1, Len(b)) \in Seq(Nat \ {0})
      BY <1>1, <1>2
<1>4. Len(SubSeq(b, m + 1, Len(b))) <= Len(b)  BY <1>1, <1>2
<1>5. g \o SubSeq(b, 1, m) \in Seq(Nat \ {0})  BY <1>3
<1>6. QED  BY <1>3, <1>4, <1>5 DEF b, m

\* A read that fails returns all it has.
LEMMA FailedRead ==
    ASSUME TypeOK, NEW e \in Ends, ReaderOK(rd[e], turn[e], got[e]), rd[e].st # "EXIT",
           NEW v \in Readers, v.no = rd[e].no, v.next = rd[e].next, v.buf = rd[e].buf,
           v.readed = rd[e].readed,
           NEW error \in {"MAXRETRIES", "RXUPLAYER_TO"}, ReturnData(e, v, error),
           NEW r, r = Returned(v) \/ r = [Returned(v) EXCEPT !.uplayerTO = FALSE],
           NEW rest \in Seq(Items), Takes(line[e], rest), ReaderStep(e, r, rest, <<>>)
    PROVE  TypeOK' /\ \E t, h : ReaderMove(e, r, rest, <<>>, t, h)
<1> DEFINE s == rd[e]
           h == got[e] \o s.buf
<1>1. turn[e] = "read" /\ s.readed = Len(s.buf) /\ got[e] \in Seq(Nat \ {0}) /\ s \in Readers
      BY DEF ReaderOK, TypeOK
<1>2. s.buf \in Seq(Nat \ {0}) /\ Len(s.buf) \in Nat  BY <1>1 DEF Readers
<1> HIDE DEF s
<1>3. Lesser(v.readed, Len(v.buf)) = Len(s.buf)  BY <1>1, <1>2 DEF Lesser, s
<1>4. SubSeq(v.buf, 1, Len(s.buf)) = s.buf /\ SubSeq(v.buf, Len(s.buf) + 1, Len(v.buf)) = <<>>
      BY <1>2, SubSeqWhole DEF s
<1>5. Gives(e, "closed", h) /\ ReadError(e)
      BY <1>3, <1>4 DEF ReturnData, ReadError, Gives
<1>6. h \in Seq(Nat \ {0})  BY <1>1, <1>2
<1>7. Returned(v) = [v EXCEPT !.st = "EXIT", !.buf = <<>>]  BY <1>3, <1>4 DEF Returned, Readers
<1>8. r \in Readers /\ r.st = "EXIT" /\ r.buf = <<>> /\ r.no = v.no /\ r.next = v.next
  <2> DEFINE u == [v EXCEPT !.st = "EXIT", !.buf = <<>>]
  <2>1. <<>> \in Seq(Nat \ {0})  OBVIOUS
  <2>2. u \in Readers /\ u.st = "EXIT" /\ u.buf = <<>> /\ u.no = v.no /\ u.next = v.next
        BY <2>1 DEF Readers
  <2> HIDE DEF u
  <2>3. r = u \/ r = [u EXCEPT !.uplayerTO = FALSE]  BY <1>7 DEF u
  <2>4. CASE r = u  BY <2>2, <2>4
  <2>5. CASE r = [u EXCEPT !.uplayerTO = FALSE]  BY <2>2, <2>5 DEF Readers
  <2>6. QED  BY <2>3, <2>4, <2>5
<1>9. Len(r.buf) <= BufSize  BY <1>8, Constants
<1>10. <<>> \in Seq(Items)  OBVIOUS
<1> HIDE DEF h
<1>11. /\ TypeOK'
       /\ rd'[e] = r /\ rd'[Peer(e)] = rd[Peer(e)]
       /\ line'[e] = rest /\ line'[Peer(e)] = line[Peer(e)] \o <<>>
       /\ turn'[e] = "closed" /\ turn'[Peer(e)] = turn[Peer(e)]
       /\ got'[e] = h /\ got'[Peer(e)] = got[Peer(e)]
       /\ wr' = wr /\ ends' = ends /\ faults' = faults /\ garbled' = garbled /\ late' = late
       BY <1>5, <1>6, <1>8, <1>9, <1>10, ReaderEffect
<1>12. Fails(s, r, line[e], rest, <<>>, got[e], h)  BY <1>8 DEF Fails, s, h
<1>13. ReadResult(s, r, line[e], rest, <<>>, got[e], "closed", h, LastByte(Peer(e)))
       BY <1>8, <1>12 DEF ReadResult, s
<1>14. ReaderMove(e, r, rest, <<>>, "closed", h)
       BY <1>1, <1>8, <1>10, <1>11, <1>13 DEF ReaderMove, s
<1>15. QED  BY <1>11, <1>14

\* A step that returns nothing.
LEMMA QuietRead ==
    ASSUME TypeOK, NEW e \in Ends, turn[e] = "read",
           NEW r \in Readers, r.no = rd[e].no, r.next = rd[e].next, r.buf = rd[e].buf,
           NEW rest \in Seq(Items), NEW out \in Seq(Items), ReaderStep(e, r, rest, out),
           UNCHANGED <<turn, got>>, err' = [err EXCEPT ![e] = "NOERROR"] \/ err' = err,
           Opens(rd[e], r, line[e], rest, out) \/ Continues(rd[e], r, line[e], rest, out)
    PROVE  TypeOK' /\ \E t, h : ReaderMove(e, r, rest, out, t, h)
<1> DEFINE h == got[e]
<1>1. Gives(e, "read", h) /\ h \in Seq(Nat \ {0})  BY SameData DEF Gives
<1>2. Len(r.buf) <= BufSize /\ ReadError(e)  BY DEF TypeOK, ReadError
<1>3. /\ TypeOK'
      /\ rd'[e] = r /\ rd'[Peer(e)] = rd[Peer(e)]
      /\ line'[e] = rest /\ line'[Peer(e)] = line[Peer(e)] \o out
      /\ turn'[e] = "read" /\ turn'[Peer(e)] = turn[Peer(e)]
      /\ got'[e] = h /\ got'[Peer(e)] = got[Peer(e)]
      /\ wr' = wr /\ ends' = ends /\ faults' = faults /\ garbled' = garbled /\ late' = late
      BY <1>1, <1>2, ReaderEffect
<1>4. ReadResult(rd[e], r, line[e], rest, out, got[e], "read", h, LastByte(Peer(e)))
      BY DEF ReadResult, Stays
<1>5. ReaderMove(e, r, rest, out, "read", h)  BY <1>3, <1>4 DEF ReaderMove
<1>6. QED  BY <1>3, <1>5

\* A good frame: its bytes go to the buffer, or are returned with it.
LEMMA AcceptedRead ==
    ASSUME TypeOK, NEW e \in Ends, turn[e] = "read", rd[e].st = "WAITSOH", line[e] # <<>>,
           Head(line[e]).b = "SOH", Head(line[e]).good, Head(line[e]).seqno = rd[e].next,
           rd_good_frame(e, [rd[e] EXCEPT !.retrans = 0], Head(line[e]))
    PROVE  TypeOK' /\ \E r, rest, out, t, h : ReaderMove(e, r, rest, out, t, h)
<1> DEFINE s == rd[e]
           q == [s EXCEPT !.retrans = 0]
           f == Head(line[e])
           b == Buffered(s, f)
           v == [q EXCEPT !.buf = b, !.readed = @ + f.len, !.next = (@ + 1) % SeqMod, !.no = @ + 1]
           rest == Tail(line[e])
<1>1. /\ s \in Readers /\ Len(s.buf) <= BufSize /\ line[e] \in Seq(Items) /\ got[e] \in Seq(Nat \ {0})
      BY DEF TypeOK
<1>2. f \in Frames /\ rest \in Seq(Items) /\ send_ack \in Seq(Items)
  <2>1. f \in Items /\ rest \in Seq(Items)  BY <1>1, RemainsTail
  <2>2. "SOH" \notin AckBytes  BY DEF AckBytes
  <2>3. f \in Frames  BY <2>1, <2>2 DEF Items
  <2>4. QED  BY <2>1, <2>3, ReplyPair
<1>3. /\ s.buf \in Seq(Nat \ {0}) /\ Len(s.buf) \in Nat /\ s.readed \in Nat /\ s.next \in Nat
      /\ s.no \in Nat \ {0} /\ f.len \in Nat /\ f.first \in Nat \ {0}
  <2>1. MaxData \in Nat  BY Constants
  <2> HIDE DEF s, f
  <2>2. s.buf \in Seq(Nat \ {0}) /\ Len(s.buf) \in Nat  BY <1>1 DEF Readers
  <2>3. s.readed \in Nat /\ s.next \in Nat /\ s.no \in Nat \ {0}  BY <1>1, Constants DEF Readers
  <2>4. f.len \in Nat /\ f.first \in Nat \ {0}  BY <1>2, <2>1 DEF Frames
  <2>5. QED  BY <2>2, <2>3, <2>4
<1>4. /\ q.buf = s.buf /\ q.readed = s.readed /\ q.next = s.next /\ q.no = s.no /\ q.st = s.st
      /\ q \in Readers
  <2>1. 0 \in 0..MaxRetries  BY Constants
  <2> HIDE DEF s
  <2>2. QED  BY <1>1, <2>1 DEF Readers
<1>5. b \in Seq(Nat \ {0}) /\ Len(b) <= BufSize
  <2> DEFINE m == Lesser(f.len, BufSize - Len(s.buf))
             c == [i \in 1..m |-> f.first + i - 1]
  <2> HIDE DEF s, f
  <2>1. BufSize - Len(s.buf) \in Nat
    <3>1. PICK k \in Nat, n \in Nat : k = Len(s.buf) /\ n = BufSize /\ k <= n  BY <1>1, <1>3, Constants
    <3>2. n - k \in Nat  BY <3>1
    <3>3. QED  BY <3>1, <3>2
  <2>2. m \in Nat /\ m <= BufSize - Len(s.buf)  BY <1>3, <2>1, LesserType
  <2> HIDE DEF m
  <2>3. c \in Seq(Nat \ {0}) /\ Len(c) = m
    <3>1. \A i \in 1..m : f.first + i - 1 \in Nat \ {0}  BY <1>3, <2>2
    <3>2. c \in [1..m -> Nat \ {0}]  BY <3>1
    <3>3. QED  BY <2>2, <3>2
  <2> HIDE DEF c
  <2>4. s.buf \o c \in Seq(Nat \ {0}) /\ Len(s.buf \o c) = Len(s.buf) + m
    <3>1. PICK a \in Seq(Nat \ {0}) : a = s.buf  BY <1>3
    <3>2. a \o c \in Seq(Nat \ {0}) /\ Len(a \o c) = Len(a) + Len(c)  BY <2>3
    <3>3. QED  BY <2>3, <3>1, <3>2
  <2>5. Len(s.buf) + m <= BufSize  BY <1>3, <2>2, Constants
  <2>6. QED  BY <2>4, <2>5 DEF Buffered, c, m
<1>6. (s.next + 1) % SeqMod \in 0..SeqMod - 1
  <2>1. s.next + 1 \in Nat /\ SeqMod > 0 /\ SeqMod \in Nat  BY <1>3, Constants
  <2>2. QED  BY <2>1, ModType
<1>7. /\ v \in Readers /\ v.buf = b /\ v.readed = s.readed + f.len /\ v.next = (s.next + 1) % SeqMod
      /\ v.no = s.no + 1 /\ v.st = "WAITSOH"
  <2>1. s.readed + f.len \in Nat /\ s.no + 1 \in Nat \ {0}  BY <1>3
  <2>2. s.st = "WAITSOH"  OBVIOUS
  <2> HIDE DEF s, f, b, q
  <2>3. QED  BY <1>4, <1>5, <1>6, <2>1, <2>2 DEF Readers
<1>8. \/ ReturnData(e, v, "NOERROR") /\ ReaderStep(e, Returned(v), rest, send_ack)
      \/ StillReading /\ ReaderStep(e, v, rest, send_ack)
  <2>1. v = [q EXCEPT !.buf = @ \o [i \in 1..Lesser(f.len, BufSize - Len(q.buf)) |-> f.first + i - 1],
                      !.readed = @ + f.len, !.next = (@ + 1) % SeqMod, !.no = @ + 1]
        BY <1>4 DEF Buffered
  <2>2. QED  BY <2>1 DEF rd_good_frame
<1> HIDE DEF v, b, q, f, rest
<1>9. CASE StillReading /\ ReaderStep(e, v, rest, send_ack)
  <2>1. Gives(e, "read", got[e]) /\ err' = err  BY <1>9, SameData DEF StillReading, Gives
  <2>2. Len(v.buf) <= BufSize /\ ReadError(e)  BY <1>5, <1>7, <2>1 DEF ReadError
  <2>3. /\ TypeOK'
        /\ rd'[e] = v /\ rd'[Peer(e)] = rd[Peer(e)]
        /\ line'[e] = rest /\ line'[Peer(e)] = line[Peer(e)] \o send_ack
        /\ turn'[e] = "read" /\ turn'[Peer(e)] = turn[Peer(e)]
        /\ got'[e] = got[e] /\ got'[Peer(e)] = got[Peer(e)]
        /\ wr' = wr /\ ends' = ends /\ faults' = faults /\ garbled' = garbled /\ late' = late
        BY <1>1, <1>2, <1>7, <1>9, <2>1, <2>2, ReaderEffect
  <2>4. Keeps(s, v, f, got[e], "read", got[e])  BY <1>7 DEF Keeps, b
  <2>5. Accepts(s, v, line[e], rest, send_ack, got[e], "read", got[e], LastByte(Peer(e)))
        BY <1>7, <2>4 DEF Accepts, f, rest
  <2>6. ReaderMove(e, v, rest, send_ack, "read", got[e])
        BY <1>2, <1>7, <2>3, <2>5 DEF ReaderMove, ReadResult
  <2>7. QED  BY <2>3, <2>6
<1>10. CASE ReturnData(e, v, "NOERROR") /\ ReaderStep(e, Returned(v), rest, send_ack)
  <2> DEFINE n == Lesser(v.readed, Len(v.buf))
             h == got[e] \o SubSeq(v.buf, 1, n)
             r == Returned(v)
             last == LastByte(Peer(e))
             t == IF h # <<>> /\ h[Len(h)] = last THEN "write" ELSE "read"
  <2>1. v.readed \in Nat  BY <1>3, <1>7
  <2>2. /\ h \in Seq(Nat \ {0}) /\ SubSeq(v.buf, n + 1, Len(v.buf)) \in Seq(Nat \ {0})
        /\ Len(SubSeq(v.buf, n + 1, Len(v.buf))) <= Len(v.buf)
        BY <1>1, <1>7, <2>1, ReturnedType
  <2>3. r \in Readers /\ r.st = "EXIT" /\ r.buf = SubSeq(v.buf, n + 1, Len(v.buf)) /\ r.no = v.no
        /\ r.next = v.next
    <3>1. r = [v EXCEPT !.st = "EXIT", !.buf = SubSeq(v.buf, n + 1, Len(v.buf))]  BY DEF Returned
    <3> HIDE DEF n, r
    <3>2. QED  BY <1>7, <2>2, <3>1 DEF Readers
  <2>4. Gives(e, t, h) /\ ReadError(e)  BY <1>10 DEF ReturnData, Gives, ReadError
  <2>5. t \in {"write", "read", "closed"}  OBVIOUS
  <2>6. Len(r.buf) <= BufSize
    <3> DEFINE i == Len(r.buf)
               j == Len(v.buf)
    <3>1. r.buf \in Seq(Nat \ {0}) /\ v.buf \in Seq(Nat \ {0})  BY <1>5, <1>7, <2>2, <2>3
    <3>2. i <= j /\ j <= BufSize  BY <1>5, <1>7, <2>2, <2>3
    <3> HIDE DEF r
    <3>3. i \in Nat /\ j \in Nat  BY <3>1
    <3> HIDE DEF i, j
    <3>4. i <= BufSize  BY <3>2, <3>3, Constants
    <3>5. QED  BY <3>4 DEF i
  <2>7. Returns(s, r, f, got[e], t, h, last)  BY <1>7, <2>3 DEF Returns, b
  <2> HIDE DEF n, h, r, t, last
  <2>8. ReaderStep(e, r, rest, send_ack)  BY <1>10 DEF r
  <2>9. /\ TypeOK'
        /\ rd'[e] = r /\ rd'[Peer(e)] = rd[Peer(e)]
        /\ line'[e] = rest /\ line'[Peer(e)] = line[Peer(e)] \o send_ack
        /\ turn'[e] = t /\ turn'[Peer(e)] = turn[Peer(e)]
        /\ got'[e] = h /\ got'[Peer(e)] = got[Peer(e)]
        /\ wr' = wr /\ ends' = ends /\ faults' = faults /\ garbled' = garbled /\ late' = late
        BY <1>2, <2>2, <2>3, <2>4, <2>5, <2>6, <2>8, ReaderEffect
  <2>10. Accepts(s, r, line[e], rest, send_ack, got[e], t, h, last)
        BY <1>7, <2>3, <2>7 DEF Accepts, f, rest
  <2>11. ReaderMove(e, r, rest, send_ack, t, h)
        BY <1>2, <2>3, <2>9, <2>10 DEF ReaderMove, ReadResult, last
  <2>12. QED  BY <2>9, <2>11
<1>11. QED  BY <1>8, <1>9, <1>10

LEMMA ReaderMoves ==
    ASSUME TypeOK, EndsOK, NEW e \in Ends,
           \/ dmodem_read(e) \/ rd_soh(e) \/ rd_discard_byte(e) \/ rd_quiet(e) \/ rd_exit_rxuplayerto(e)
    PROVE  TypeOK' /\ \E r, rest, out, t, h : ReaderMove(e, r, rest, out, t, h)
<1> DEFINE s == rd[e]
           l == line[e]
<1>1. /\ s \in Readers /\ l \in Seq(Items) /\ ReaderOK(s, turn[e], got[e])  BY DEF TypeOK, EndsOK
<1>2. turn[e] = "read"  BY <1>1 DEF ReaderOK, dmodem_read, rd_soh, rd_discard_byte, rd_quiet, rd_exit_rxuplayerto
<1>3. 0 \in 0..MaxRetries /\ 1 \in 0..MaxRetries  BY Constants
<1>4. send_ack \in Seq(Items) /\ send_nack \in Seq(Items) /\ <<>> \in Seq(Items)  BY ReplyPair
<1>5. l # <<>> => Tail(l) \in Seq(Items)  BY <1>1, RemainsTail
<1>6. CASE dmodem_read(e)
  <2> DEFINE r == [s EXCEPT !.st = "WAITSOH", !.retrans = 0, !.readed = 0, !.uplayerTO = FALSE]
  <2>1. /\ s.st = "EXIT" /\ ReaderStep(e, r, l, <<>>) /\ err' = [err EXCEPT ![e] = "NOERROR"]
        /\ UNCHANGED <<turn, got>>
        BY <1>6 DEF dmodem_read
  <2>2. r \in Readers /\ r.no = s.no /\ r.next = s.next /\ r.buf = s.buf /\ r.st = "WAITSOH"
        /\ r.readed = 0
    <3> HIDE DEF s
    <3>1. QED  BY <1>1, <1>3 DEF Readers
  <2> HIDE DEF r
  <2>3. Opens(s, r, l, l, <<>>)  BY <2>1, <2>2 DEF Opens
  <2>4. TypeOK' /\ \E t, h : ReaderMove(e, r, l, <<>>, t, h)
        BY <1>1, <1>2, <1>4, <2>1, <2>2, <2>3, QuietRead
  <2>5. QED  BY <2>4
<1>7. CASE rd_soh(e)
  <2> DEFINE q == [s EXCEPT !.retrans = 0]
             f == Head(l)
  <2>1. s.st = "WAITSOH" /\ l # <<>> /\ f.b = "SOH"  BY <1>7 DEF rd_soh
  <2>2. q \in Readers /\ q.no = s.no /\ q.next = s.next /\ q.buf = s.buf /\ q.readed = s.readed
        /\ q.st = s.st /\ q.retrans = 0
    <3> HIDE DEF s
    <3>1. QED  BY <1>1, <1>3 DEF Readers
  <2>3. \/ /\ IsRetrans(q, f) /\ StillReading
           /\ ReaderStep(e, [q EXCEPT !.st = "DISCARDRETRANS"], Tail(l), <<>>)
        \/ ~IsRetrans(q, f) /\ (f.seqno # q.next \/ ~f.good) /\ rd_bad_frame(e, q)
        \/ f.seqno = q.next /\ f.good /\ rd_good_frame(e, q, f)
        BY <1>7 DEF rd_soh
  <2>4. CASE /\ IsRetrans(q, f) /\ StillReading
             /\ ReaderStep(e, [q EXCEPT !.st = "DISCARDRETRANS"], Tail(l), <<>>)
    <3> DEFINE r == [q EXCEPT !.st = "DISCARDRETRANS"]
    <3>1. r \in Readers /\ r.no = s.no /\ r.next = s.next /\ r.buf = s.buf /\ r.readed = s.readed
          /\ r.st = "DISCARDRETRANS"
      <4> HIDE DEF q, s
      <4>1. QED  BY <2>2 DEF Readers
    <3> HIDE DEF r, q
    <3>2. Repeats(s, r, l, Tail(l), <<>>)  BY <2>1, <2>2, <2>4, <3>1 DEF Repeats, IsRetrans
    <3>3. Continues(s, r, l, Tail(l), <<>>)  BY <2>1, <3>1, <3>2 DEF Continues
    <3>4. ReaderStep(e, r, Tail(l), <<>>) /\ UNCHANGED <<turn, got>> /\ err' = err
          BY <2>4 DEF r, StillReading
    <3>5. TypeOK' /\ \E t, h : ReaderMove(e, r, Tail(l), <<>>, t, h)
          BY <1>2, <1>4, <1>5, <2>1, <3>1, <3>3, <3>4, QuietRead
    <3>6. QED  BY <3>5
  <2>5. CASE ~IsRetrans(q, f) /\ (f.seqno # q.next \/ ~f.good) /\ rd_bad_frame(e, q)
    <3> DEFINE v == [q EXCEPT !.retrans = @ + 1]
               r == [v EXCEPT !.st = "DISCARDBYTES"]
    <3>1. v \in Readers /\ v.no = s.no /\ v.next = s.next /\ v.buf = s.buf /\ v.readed = s.readed
      <4> HIDE DEF q, s
      <4>1. QED  BY <1>3, <2>2 DEF Readers
    <3>2. \/ StillReading /\ ReaderStep(e, r, Tail(l), <<>>)
          \/ ReturnData(e, v, "MAXRETRIES") /\ ReaderStep(e, Returned(v), Tail(l), <<>>)
          BY <2>5 DEF rd_bad_frame
    <3>3. r \in Readers /\ r.no = s.no /\ r.next = s.next /\ r.buf = s.buf /\ r.readed = s.readed
          /\ r.st = "DISCARDBYTES"
      <4> HIDE DEF v, s
      <4>1. QED  BY <3>1 DEF Readers
    <3> HIDE DEF v, r, q
    <3>4. Takes(l, Tail(l))  BY <2>1 DEF Takes
    <3>5. CASE StillReading /\ ReaderStep(e, r, Tail(l), <<>>)
      <4>1. ~IsRetrans(s, f) /\ (f.seqno # s.next \/ ~f.good)  BY <2>2, <2>5 DEF IsRetrans
      <4>2. Refuses(s, r, l, Tail(l))  BY <2>1, <3>3, <4>1 DEF Refuses
      <4>3. Continues(s, r, l, Tail(l), <<>>)  BY <2>1, <3>3, <3>4, <4>2 DEF Continues
      <4>4. UNCHANGED <<turn, got>> /\ err' = err  BY <3>5 DEF StillReading
      <4>5. TypeOK' /\ \E t, h : ReaderMove(e, r, Tail(l), <<>>, t, h)
            BY <1>2, <1>4, <1>5, <2>1, <3>3, <3>5, <4>3, <4>4, QuietRead
      <4>6. QED  BY <4>5
    <3>6. CASE ReturnData(e, v, "MAXRETRIES") /\ ReaderStep(e, Returned(v), Tail(l), <<>>)
      <4>1. s.st # "EXIT"  BY <2>1
      <4>2. TypeOK' /\ \E t, h : ReaderMove(e, Returned(v), Tail(l), <<>>, t, h)
            BY <1>1, <1>5, <2>1, <3>1, <3>4, <3>6, <4>1, FailedRead
      <4>3. QED  BY <4>2
    <3>7. QED  BY <3>2, <3>5, <3>6
  <2>6. CASE f.seqno = q.next /\ f.good /\ rd_good_frame(e, q, f)
        BY <1>2, <2>1, <2>2, <2>6, AcceptedRead
  <2>7. QED  BY <2>3, <2>4, <2>5, <2>6
<1>8. CASE rd_discard_byte(e)
  <2> DEFINE r == IF s.st = "WAITSOH" THEN [s EXCEPT !.retrans = 0] ELSE s
  <2>1. /\ s.st # "EXIT" /\ l # <<>> /\ ReaderStep(e, r, Tail(l), <<>>) /\ StillReading
        /\ s.st = "WAITSOH" => Head(l).b # "SOH"
        BY <1>8 DEF rd_discard_byte
  <2>2. r \in Readers /\ r.no = s.no /\ r.next = s.next /\ r.buf = s.buf /\ r.readed = s.readed
        /\ r.st = s.st
    <3> HIDE DEF s
    <3>1. QED  BY <1>1, <1>3 DEF Readers
  <2> HIDE DEF r
  <2>3. Passes(s, l, Tail(l))  BY <2>1 DEF Passes
  <2>4. Continues(s, r, l, Tail(l), <<>>)  BY <2>1, <2>2, <2>3 DEF Continues
  <2>5. UNCHANGED <<turn, got>> /\ err' = err  BY <2>1 DEF StillReading
  <2>6. TypeOK' /\ \E t, h : ReaderMove(e, r, Tail(l), <<>>, t, h)
        BY <1>2, <1>4, <1>5, <2>1, <2>2, <2>4, <2>5, QuietRead
  <2>7. QED  BY <2>6
<1>9. CASE rd_quiet(e)
  <2> DEFINE r == [s EXCEPT !.st = "WAITSOH"]
             out == IF s.st = "DISCARDBYTES" THEN send_nack ELSE send_ack
  <2>1. s.st \in {"DISCARDBYTES", "DISCARDRETRANS"} /\ ReaderStep(e, r, l, out) /\ StillReading
        BY <1>9 DEF rd_quiet
  <2>2. r \in Readers /\ r.no = s.no /\ r.next = s.next /\ r.buf = s.buf /\ r.readed = s.readed
        /\ r.st = "WAITSOH"
    <3> HIDE DEF s
    <3>1. QED  BY <1>1 DEF Readers
  <2>3. /\ out \in Seq(Items)
        /\ \/ out = send_ack /\ s.st = "DISCARDRETRANS"
           \/ out = send_nack /\ s.st = "DISCARDBYTES"
        BY <1>4, <2>1
  <2> HIDE DEF r, out
  <2>4. Continues(s, r, l, l, out)  BY <2>1, <2>2, <2>3 DEF Continues
  <2>5. UNCHANGED <<turn, got>> /\ err' = err  BY <2>1 DEF StillReading
  <2>6. TypeOK' /\ \E t, h : ReaderMove(e, r, l, out, t, h)
        BY <1>1, <1>2, <2>1, <2>2, <2>3, <2>4, <2>5, QuietRead
  <2>7. QED  BY <2>6
<1>10. CASE rd_exit_rxuplayerto(e)
  <2> DEFINE r == [Returned(s) EXCEPT !.uplayerTO = FALSE]
  <2>1. s.st # "EXIT" /\ ReturnData(e, s, "RXUPLAYER_TO") /\ ReaderStep(e, r, l, <<>>)
        BY <1>10 DEF rd_exit_rxuplayerto
  <2>2. Takes(l, l)  BY DEF Takes
  <2>3. TypeOK' /\ \E t, h : ReaderMove(e, r, l, <<>>, t, h)
        BY <1>1, <2>1, <2>2, FailedRead
  <2>4. QED  BY <2>3
<1>11. QED  BY <1>6, <1>7, <1>8, <1>9, <1>10

-----------------------------------------------------------------------------
(* What the reader makes of a frame.                                         *)

\* The writer is less than a whole turn of the numbers ahead of the reader.
LEMMA LessThanATurn ==
    ASSUME Distinguishes, NEW w \in Writers, NEW r \in Readers, NEW k, NEW p, NEW n \in 0..MaxFaults,
           NEW lx \in Seq(Items), NEW ly \in Seq(Items), Exchanging(w, r, k, lx, ly, p, n)
    PROVE  Len(w.cuts) - r.no + 1 < SeqMod
<1>1. /\ Ahead(w, r, lx, ly, p) \in Int /\ Len(w.cuts) - r.no <= Ahead(w, r, lx, ly, p)
      /\ Len(w.cuts) \in Nat /\ r.no \in Nat
      BY AheadType
<1>2. n \in Nat /\ n <= MaxFaults  BY Constants
<1>3. Allowed(w, n) \in Nat /\ Allowed(w, n) <= MaxRetries - 1 + (IF "seqno" \in Damages THEN n ELSE 0)
      BY <1>2, AllowedType
<1>4. MaxRetries - 1 + (IF "seqno" \in Damages THEN n ELSE 0) + 1 < SeqMod
      BY <1>2, Constants DEF Distinguishes
<1>5. Ahead(w, r, lx, ly, p) <= Allowed(w, n)  BY DEF Exchanging
<1> DEFINE a == Len(w.cuts) - r.no
           b == Ahead(w, r, lx, ly, p)
           c == Allowed(w, n)
           d == MaxRetries - 1 + (IF "seqno" \in Damages THEN n ELSE 0)
<1>6. a \in Int /\ b \in Int /\ c \in Int /\ d \in Int /\ a <= b /\ b <= c /\ c <= d /\ d + 1 < SeqMod
      BY <1>1, <1>2, <1>3, <1>4, <1>5, Constants
<1> HIDE DEF a, b, c, d
<1>7. a + 1 < SeqMod  BY <1>6, Constants
<1>8. QED  BY <1>7 DEF a

\* A frame of the message with the number expected is the frame expected.
LEMMA ExpectedFrame ==
    ASSUME Distinguishes, NEW w \in Writers, NEW r \in Readers, NEW k \in Nat, NEW p \in Nat,
           NEW n \in 0..MaxFaults, NEW lx \in Seq(Items), NEW ly \in Seq(Items),
           Exchanging(w, r, k, lx, ly, p, n), r.next = r.no % SeqMod,
           ly # <<>>, Head(ly) \in After(p), Head(ly).good, Head(ly).seqno = r.next
    PROVE  /\ Head(ly).no = r.no /\ r.no <= Len(w.cuts)
           /\ Head(ly).first = k + 1 /\ Head(ly).first + Head(ly).len = Start(w, r.no + 1)
<1> DEFINE f == Head(ly)
<1>1. 1 \in 1..Len(ly) /\ ly[1] = f  OBVIOUS
<1>2. FrameOK(f, w, r.no)  BY <1>1 DEF Exchanging, FramesOK
<1>3. f \in Frames  BY ItemKinds
<1> HIDE DEF f
<1>4. f.no \in Nat \ {0} /\ r.no \in Nat \ {0} /\ Len(w.cuts) \in Nat  BY <1>3 DEF Frames, Readers, Writers
<1>5. f.no % SeqMod = r.no % SeqMod  BY <1>2 DEF FrameOK, f
<1>6. r.no - 1 <= f.no /\ f.no <= Len(w.cuts)  BY <1>2 DEF FrameOK
<1>7. Len(w.cuts) - r.no + 1 < SeqMod  BY LessThanATurn
<1>8. f.no = r.no
  <2>1. PICK m \in Nat, a \in Nat, c \in Nat, d \in Nat :
          m = SeqMod /\ m > 1 /\ a = f.no /\ c = r.no /\ d = Len(w.cuts)
        BY <1>4, Constants
  <2>2. /\ a \in Nat /\ c \in Nat /\ d \in Nat /\ m \in Nat /\ m > 1
        /\ c - 1 <= a /\ a <= d /\ d - c + 1 < m
        BY <1>6, <1>7, <2>1
  <2>3. a - c < m /\ c - a < m /\ m > 0  BY <2>2
  <2>4. a % m = c % m  BY <1>5, <2>1
  <2>5. a = c  BY <2>3, <2>4, ModSame
  <2>6. QED  BY <2>1, <2>5
<1>9. k + 1 = Start(w, r.no)  BY DEF Exchanging, InStep
<1>10. f.first = Start(w, r.no) /\ f.first + f.len = Start(w, r.no + 1)  BY <1>2, <1>8 DEF FrameOK
<1>11. QED  BY <1>6, <1>8, <1>9, <1>10 DEF f

\* A frame with the number before the one expected was sent again, or its
\* number was altered.
LEMMA RepeatedFrame ==
    ASSUME Distinguishes, NEW w \in Writers, NEW r \in Readers, NEW k \in Nat, NEW p \in Nat,
           NEW n \in 0..MaxFaults, NEW lx \in Seq(Items), NEW ly \in Seq(Items),
           Exchanging(w, r, k, lx, ly, p, n), r.next = r.no % SeqMod,
           ly # <<>>, Head(ly) \in After(p), IsRetrans(r, Head(ly))
    PROVE  Head(ly) \in Spurious(p)
<1> DEFINE f == Head(ly)
<1>1. 1 \in 1..Len(ly) /\ ly[1] = f  OBVIOUS
<1>2. FrameOK(f, w, r.no)  BY <1>1 DEF Exchanging, FramesOK
<1>3. f \in Frames /\ f.first > p  BY ItemKinds DEF After
<1>4. r.next # 0 /\ f.seqno = r.next - 1  BY DEF IsRetrans
<1> HIDE DEF f
<1>5. f.no \in Nat \ {0} /\ r.no \in Nat \ {0} /\ Len(w.cuts) \in Nat  BY <1>3 DEF Frames, Readers, Writers
<1>6. SUFFICES ASSUME ~f.again, f.seqno = f.no % SeqMod PROVE FALSE
      BY <1>3 DEF Spurious, f
<1>7. r.no <= f.no /\ f.no <= Len(w.cuts)  BY <1>2, <1>6 DEF FrameOK
<1>8. Len(w.cuts) - r.no + 1 < SeqMod  BY LessThanATurn
<1>9. PICK m \in Nat, a \in Nat \ {0}, c \in Nat \ {0}, d \in Nat :
        m = SeqMod /\ m > 1 /\ a = f.no /\ c = r.no /\ d = Len(w.cuts)
      BY <1>5, Constants
<1>10. /\ a \in Nat /\ c \in Nat /\ c > 0 /\ d \in Nat /\ m \in Nat /\ m > 1
       /\ c <= a /\ a <= d /\ d - c + 1 < m
       BY <1>7, <1>8, <1>9
<1>11. c % m # 0 /\ f.seqno = (c % m) - 1  BY <1>4, <1>9
<1>12. (c - 1) % m = (c % m) - 1  BY <1>9, <1>11, ModBefore
<1>13. a % m = (c - 1) % m  BY <1>6, <1>9, <1>11, <1>12
<1>14. c - 1 \in Nat /\ a - (c - 1) < m /\ (c - 1) - a < m /\ m > 0  BY <1>10
<1>15. a = c - 1  BY <1>13, <1>14, ModSame
<1>16. QED  BY <1>10, <1>15

\* The frame expected ends within the message.
LEMMA FrameWithin ==
    ASSUME NEW w \in Writers, NEW t, NEW last \in Nat, WriterOK(w, t, last),
           NEW n \in 1..Len(w.cuts)
    PROVE  Start(w, n + 1) <= last + 1
<1>1. w.pdata \in Nat /\ w.remain \in Nat /\ w.pdata + w.remain = last + 1  BY DEF Writers, WriterOK
<1>2. Lesser(w.remain, MaxData) \in Nat /\ Lesser(w.remain, MaxData) <= w.remain
      BY <1>1, Constants, LesserType
<1>3. Len(w.cuts) \in Nat \ {0} /\ Start(w, Len(w.cuts)) = w.pdata
      /\ Start(w, Len(w.cuts) + 1) = w.pdata + Lesser(w.remain, MaxData)
      /\ \A k \in 1..Len(w.cuts) + 1 : Start(w, k) \in Nat
      /\ \A i, j \in 1..Len(w.cuts) + 1 : i < j /\ j <= Len(w.cuts) => Start(w, i) < Start(w, j)
      BY StartIncreases
<1>4. CASE n = Len(w.cuts)  BY <1>1, <1>2, <1>3, <1>4
<1>5. CASE n + 1 = Len(w.cuts)
  <2>1. Start(w, n + 1) = w.pdata  BY <1>3, <1>5
  <2>2. QED  BY <1>1, <2>1
<1>6. CASE n + 1 < Len(w.cuts)
  <2>1. n + 1 \in 1..Len(w.cuts) + 1 /\ Len(w.cuts) \in 1..Len(w.cuts) + 1  BY <1>3, <1>6
  <2>2. Start(w, n + 1) < Start(w, Len(w.cuts))  BY <1>3, <1>6, <2>1
  <2>3. Start(w, n + 1) < w.pdata /\ Start(w, n + 1) \in Nat  BY <1>3, <2>1, <2>2
  <2>4. QED  BY <1>1, <2>3
<1>7. QED  BY <1>3, <1>4, <1>5, <1>6

\* What is ahead of a reader, in numbers.
Late(r) == IF r.st = "DISCARDRETRANS" THEN 1 ELSE 0

SumOf(w, r, lx, ly, p, a, c, d) ==
    /\ a = Len(w.cuts) - r.no /\ c = Count(lx, Acks) /\ d = Count(ly, Spurious(p))
    /\ Ahead(w, r, lx, ly, p) = a + c + Late(r) + d

LEMMA AheadSum ==
    ASSUME NEW w \in Writers, NEW r \in Readers, NEW lx \in Seq(Items), NEW ly \in Seq(Items), NEW p
    PROVE  \E a \in Int, c \in Nat, d \in Nat : SumOf(w, r, lx, ly, p, a, c, d)
<1>1. /\ Count(lx, Acks) \in Nat /\ Count(ly, Spurious(p)) \in Nat /\ Len(w.cuts) \in Nat
      /\ r.no \in Nat
      BY AheadType
<1>2. Len(w.cuts) - r.no \in Int  BY <1>1
<1>3. QED  BY <1>1, <1>2 DEF Ahead, Late, SumOf

\* A reader that takes what the line holds, but no frame of the exchange.
LEMMA ExchangeWaits ==
    ASSUME NEW w \in Writers, NEW r \in Readers, NEW s \in Readers, NEW k, NEW p \in Nat, NEW n \in Nat,
           NEW lx \in Seq(Items), NEW ly \in Seq(Items), Exchanging(w, r, k, lx, ly, p, n),
           NEW rest \in Seq(Items), Remains(rest, ly, FALSE),
           s.no = r.no, s.st = "DISCARDRETRANS" => r.st = "DISCARDRETRANS"
    PROVE  Exchanging(w, s, k, lx, rest, p, n)
<1>1. Exchanging(w, r, k, lx, rest, p, n)
  <2>1. Remains(lx, lx, FALSE)  BY RemainsTail
  <2>2. n >= n  OBVIOUS
  <2>3. QED  BY <2>1, <2>2, ExchangeRemains
<1>2. Ahead(w, s, lx, rest, p) <= Ahead(w, r, lx, rest, p)
  <2>1. PICK a \in Int, c \in Nat, d \in Nat :
          SumOf(w, r, lx, rest, p, a, c, d)
        BY AheadSum
  <2>2. PICK b \in Int, e \in Nat, f \in Nat :
          SumOf(w, s, lx, rest, p, b, e, f)
        BY AheadSum
  <2>3. Late(s) \in Nat /\ Late(r) \in Nat /\ Late(s) <= Late(r)  BY DEF Late
  <2>4. a = b /\ c = e /\ d = f  BY <2>1, <2>2 DEF SumOf
  <2>5. a + c + Late(s) + d <= a + c + Late(r) + d  BY <2>3
  <2>6. QED  BY <2>1, <2>2, <2>4, <2>5 DEF SumOf
<1>3. Ahead(w, s, lx, rest, p) \in Int /\ Ahead(w, r, lx, rest, p) \in Int /\ Allowed(w, n) \in Nat
      BY AheadType, AllowedType
<1>4. QED  BY <1>1, <1>2, <1>3 DEF Exchanging

\* A frame that counts as a repetition is put off until the line is quiet.
LEMMA ExchangeRepeat ==
    ASSUME NEW w \in Writers, NEW r \in Readers, NEW s \in Readers, NEW k, NEW p \in Nat, NEW n \in Nat,
           NEW lx \in Seq(Items), NEW ly \in Seq(Items), Exchanging(w, r, k, lx, ly, p, n),
           ly # <<>>, Head(ly) \in Spurious(p), s.no = r.no, r.st = "WAITSOH", s.st = "DISCARDRETRANS"
    PROVE  Exchanging(w, s, k, lx, Tail(ly), p, n)
<1>1. Tail(ly) \in Seq(Items) /\ Remains(Tail(ly), ly, FALSE)  BY RemainsTail
<1>2. InStep(w, s.no, k) /\ FramesOK(Tail(ly), w, s.no, p) /\ Ordered(Tail(ly), p)
      BY <1>1, FramesRemain DEF Exchanging
<1>3. Ahead(w, s, lx, Tail(ly), p) = Ahead(w, r, lx, ly, p)
  <2>1. PICK a \in Int, c \in Nat, d \in Nat :
          SumOf(w, r, lx, ly, p, a, c, d)
        BY AheadSum
  <2>2. PICK b \in Int, e \in Nat, f \in Nat :
          SumOf(w, s, lx, Tail(ly), p, b, e, f)
        BY <1>1, AheadSum
  <2>3. d = f + 1  BY <2>1, <2>2, CountTail DEF SumOf
  <2>4. a = b /\ c = e /\ Late(r) = 0 /\ Late(s) = 1  BY <2>1, <2>2 DEF Late, SumOf
  <2>5. a + c + 0 + d = b + e + 1 + f  BY <2>3, <2>4
  <2>6. QED  BY <2>1, <2>2, <2>4, <2>5 DEF SumOf
<1>4. QED  BY <1>2, <1>3 DEF Exchanging

\* The line is quiet: the answer put off is sent.
LEMMA ExchangeAnswer ==
    ASSUME NEW w \in Writers, NEW r \in Readers, NEW s \in Readers, NEW k, NEW p \in Nat, NEW n \in Nat,
           NEW lx \in Seq(Items), NEW ly \in Seq(Items), Exchanging(w, r, k, lx, ly, p, n),
           NEW out \in {send_ack, send_nack}, out = send_ack => r.st = "DISCARDRETRANS",
           s.no = r.no, s.st = "WAITSOH"
    PROVE  Exchanging(w, s, k, lx \o out, ly, p, n)
<1>1. out \in Seq(Items) /\ lx \o out \in Seq(Items)
      /\ Count(lx \o out, Acks) = Count(lx, Acks) + (IF out = send_ack THEN 1 ELSE 0)
  <2>1. out \in Seq(Items)  BY ReplyPair
  <2>2. lx \o out \in Seq(Items)  BY <2>1
  <2>3. QED  BY <2>1, <2>2, ReplyPair
<1>2. InStep(w, s.no, k) /\ FramesOK(ly, w, s.no, p) /\ Ordered(ly, p)  BY DEF Exchanging
<1>3. Ahead(w, s, lx \o out, ly, p) <= Ahead(w, r, lx, ly, p)
  <2>1. PICK a \in Int, c \in Nat, d \in Nat :
          SumOf(w, r, lx, ly, p, a, c, d)
        BY AheadSum
  <2>2. PICK b \in Int, e \in Nat, f \in Nat :
          SumOf(w, s, lx \o out, ly, p, b, e, f)
        BY <1>1, AheadSum
  <2>3. a = b /\ d = f /\ Late(s) = 0 /\ Late(r) \in Nat /\ e <= c + Late(r)
    <3>1. Late(s) = 0 /\ Late(r) \in Nat /\ (out = send_ack => Late(r) = 1)  BY DEF Late
    <3>2. a = b /\ d = f /\ e = c + (IF out = send_ack THEN 1 ELSE 0)  BY <1>1, <2>1, <2>2 DEF SumOf
    <3>3. CASE out = send_ack  BY <3>1, <3>2, <3>3
    <3>4. CASE out # send_ack  BY <3>1, <3>2, <3>4
    <3>5. QED  BY <3>3, <3>4
  <2>4. b + e + 0 + f <= a + c + Late(r) + d  BY <2>3
  <2>5. QED  BY <2>1, <2>2, <2>3, <2>4 DEF SumOf
<1>4. Ahead(w, s, lx \o out, ly, p) \in Int /\ Ahead(w, r, lx, ly, p) \in Int /\ Allowed(w, n) \in Nat
      BY <1>1, AheadType, AllowedType
<1>5. QED  BY <1>2, <1>3, <1>4 DEF Exchanging

\* The frame expected is acknowledged.
LEMMA ExchangeAccept ==
    ASSUME Distinguishes, NEW w \in Writers, NEW t, NEW last, WriterOK(w, t, last),
           NEW r \in Readers, NEW k \in Nat, NEW p \in Nat,
           NEW n \in 0..MaxFaults, NEW lx \in Seq(Items), NEW ly \in Seq(Items),
           Exchanging(w, r, k, lx, ly, p, n), r.next = r.no % SeqMod,
           ly # <<>>, Head(ly) \in After(p), Head(ly).good, Head(ly).seqno = r.next,
           r.st = "WAITSOH", NEW s \in Readers, s.no = r.no + 1, s.st \in {"WAITSOH", "EXIT"}
    PROVE  Exchanging(w, s, k + Head(ly).len, lx \o send_ack, Tail(ly), p, n)
<1> DEFINE f == Head(ly)
           q == Tail(ly)
<1>1. /\ f.no = r.no /\ r.no <= Len(w.cuts) /\ f.first = k + 1 /\ f.first + f.len = Start(w, r.no + 1)
      BY ExpectedFrame
<1>2. f \in Frames  BY ItemKinds
<1>3. n \in Nat  BY Constants
<1> HIDE DEF f
<1>4. f.no \in Nat \ {0} /\ f.len \in 1..MaxData /\ f.len \in Nat /\ f.first \in Nat
      /\ Len(w.cuts) \in Nat /\ w.remain \in Nat /\ r.no \in Nat \ {0}
  <2>1. f.no \in Nat \ {0} /\ f.len \in 1..MaxData /\ f.first \in Nat  BY <1>2 DEF Frames
  <2>2. f.len \in Nat  BY <2>1, Constants
  <2>3. Len(w.cuts) \in Nat /\ w.remain \in Nat /\ r.no \in Nat \ {0}  BY DEF Writers, Readers
  <2>4. QED  BY <2>1, <2>2, <2>3
<1>5. InStep(w, s.no, k + f.len)
  <2>1. k + f.len + 1 = Start(w, r.no + 1)
    <3>1. PICK i \in Nat, j \in Nat : i = f.first /\ j = f.len  BY <1>4
    <3>2. i = k + 1 /\ i + j = Start(w, r.no + 1)  BY <1>1, <3>1
    <3>3. i + j = k + j + 1  BY <3>2
    <3>4. QED  BY <3>1, <3>2, <3>3
  <2>2. r.no + 1 <= Len(w.cuts) + (IF w.remain > 0 THEN 1 ELSE 0)
    <3> DEFINE i == r.no
               j == Len(w.cuts)
               g == IF w.remain > 0 THEN 1 ELSE 0
    <3>4. i \in Nat /\ j \in Nat /\ g \in Nat /\ i <= j  BY <1>1, <1>4
    <3> HIDE DEF i, j, g
    <3>1. CASE i < j
      <4>1. i + 1 <= j + g  BY <3>1, <3>4
      <4>2. QED  BY <4>1 DEF i, j, g
    <3>2. CASE i = j
      <4>1. Start(w, r.no) = k + 1  BY DEF Exchanging, InStep
      <4>2. Start(w, r.no) = w.pdata /\ Start(w, r.no + 1) = w.pdata + Lesser(w.remain, MaxData)
            /\ w.pdata \in Nat
            BY <3>2, StartIncreases DEF Writers, i, j
      <4>3. Lesser(w.remain, MaxData) = f.len /\ f.len > 0
        <5>1. Lesser(w.remain, MaxData) \in Nat  BY <1>4, LesserType, Constants
        <5>2. w.pdata = k + 1 /\ w.pdata + Lesser(w.remain, MaxData) = k + f.len + 1
              BY <2>1, <4>1, <4>2
        <5>3. f.len > 0  BY <1>4
        <5>4. QED  BY <1>4, <4>2, <5>1, <5>2, <5>3
      <4>4. Lesser(w.remain, MaxData) <= w.remain  BY <1>4, LesserType, Constants
      <4>5. w.remain > 0  BY <1>4, <4>3, <4>4
      <4>6. g = 1  BY <4>5 DEF g
      <4>7. i + 1 <= j + g  BY <3>2, <3>4, <4>6
      <4>8. QED  BY <4>7 DEF i, j, g
    <3>3. i < j \/ i = j  BY <3>4
    <3>5. QED  BY <3>1, <3>2, <3>3
  <2>3. QED  BY <1>4, <2>1, <2>2 DEF InStep
<1>6. /\ q \in Seq(Items) /\ Len(ly) = Len(q) + 1 /\ ly[1] = f
      /\ \A i \in 1..Len(q) : q[i] = ly[i + 1] /\ i + 1 \in 1..Len(ly) /\ 1 < i + 1
      /\ 1 \in 1..Len(ly)
  <2>1. q \in Seq(Items) /\ Len(ly) = Len(q) + 1 /\ ly[1] = f /\ Len(q) \in Nat  BY DEF f
  <2>2. \A i \in 1..Len(q) : q[i] = ly[i + 1]  OBVIOUS
  <2>3. QED  BY <2>1, <2>2
<1>7. Remains(q, ly, FALSE)  BY RemainsTail
<1> HIDE DEF q
\* The frames behind it are further on, the repetitions of it one behind.
<1>8. FramesOK(q, w, r.no + 1, p) /\ Ordered(q, p)
  <2>1. FramesOK(q, w, r.no, p) /\ Ordered(q, p)  BY <1>4, <1>6, <1>7, FramesRemain DEF Exchanging
  <2>2. ASSUME NEW i \in 1..Len(q), q[i] \in After(p) PROVE FrameOK(q[i], w, r.no + 1)
    <3>1. FrameOK(q[i], w, r.no)  BY <2>1, <2>2 DEF FramesOK
    <3>2. f.no <= q[i].no /\ (~q[i].again => f.no < q[i].no)
      <4>1. ly[1] \in After(p) /\ ly[i + 1] \in After(p)  BY <1>6, <2>2 DEF f
      <4>2. Ordered(ly, p)  BY DEF Exchanging
      <4>3. ly[1].no <= ly[i + 1].no /\ (~ly[i + 1].again => ly[1].no < ly[i + 1].no)
            BY <1>6, <4>1, <4>2 DEF Ordered
      <4>4. QED  BY <1>6, <4>3
    <3>3. q[i].no \in Nat
      <4>1. q[i] \in Frames  BY <2>2, ItemKinds
      <4>2. QED  BY <4>1 DEF Frames
    <3>4. PICK m \in Nat : m = r.no + 1 /\ m - 1 = f.no  BY <1>1, <1>4
    <3> DEFINE g == q[i]
    <3>5. m - 1 <= g.no /\ (~g.again => m <= g.no)
      <4>1. PICK j \in Nat, h \in Nat : j = g.no /\ h = f.no  BY <1>4, <3>3
      <4>2. h <= j /\ (~g.again => h < j)  BY <3>2, <4>1
      <4>3. h < j => m <= j  BY <3>4, <4>1
      <4>4. QED  BY <3>4, <4>1, <4>2, <4>3
    <3> HIDE DEF g
    <3>6. FrameOK(g, w, r.no)  BY <3>1 DEF g
    <3>7. FrameOK(g, w, m)  BY <3>5, <3>6 DEF FrameOK
    <3>8. QED  BY <3>4, <3>7 DEF g
  <2>3. QED  BY <2>1, <2>2 DEF FramesOK
<1>9. send_ack \in Seq(Items) /\ lx \o send_ack \in Seq(Items)
      /\ Count(lx \o send_ack, Acks) = Count(lx, Acks) + 1
  <2>1. send_ack \in Seq(Items)  BY ReplyPair
  <2>2. lx \o send_ack \in Seq(Items)  BY <2>1
  <2>3. Count(lx \o send_ack, Acks) = Count(lx, Acks) + (IF send_ack = send_ack THEN 1 ELSE 0)
        BY ReplyPair
  <2>4. QED  BY <2>1, <2>2, <2>3
<1>10. Ahead(w, s, lx \o send_ack, q, p) <= Ahead(w, r, lx, ly, p)
  <2>1. PICK a \in Int, c \in Nat, d \in Nat :
          SumOf(w, r, lx, ly, p, a, c, d)
        BY AheadSum
  <2>2. PICK b \in Int, e \in Nat, g \in Nat :
          SumOf(w, s, lx \o send_ack, q, p, b, e, g)
        BY <1>6, <1>9, AheadSum
  <2>3. g <= d  BY <1>6, <1>7, <2>1, <2>2, ClosedSpurious, RemainsCount DEF SumOf
  <2>4. b = a - 1
    <3>1. PICK i \in Nat, j \in Nat : i = Len(w.cuts) /\ j = r.no  BY <1>4
    <3>2. a = i - j /\ b = i - (j + 1)  BY <2>1, <2>2, <3>1 DEF SumOf
    <3>3. QED  BY <3>2
  <2>5. e = c + 1 /\ Late(r) = 0 /\ Late(s) = 0  BY <1>9, <2>1, <2>2 DEF Late, SumOf
  <2>6. b + e + 0 + g <= a + c + 0 + d  BY <2>3, <2>4, <2>5
  <2>7. QED  BY <2>1, <2>2, <2>5, <2>6 DEF SumOf
<1>11. Ahead(w, s, lx \o send_ack, q, p) \in Int /\ Ahead(w, r, lx, ly, p) \in Int /\ Allowed(w, n) \in Nat
       BY <1>3, <1>6, <1>9, AheadType, AllowedType
<1>12. Ahead(w, s, lx \o send_ack, q, p) <= Allowed(w, n)  BY <1>10, <1>11 DEF Exchanging
<1>13. QED  BY <1>5, <1>8, <1>12 DEF Exchanging, f, q
-----------------------------------------------------------------------------
(* What the reader keeps and returns.                                        *)

\* The bytes of s are those after byte k.
Follows(s, k) == \A i \in 1..Len(s) : s[i] = k + i

LEMMA JoinFollows ==
    ASSUME NEW b \in Seq(Nat \ {0}), NEW c \in Seq(Nat \ {0}), NEW k \in Nat,
           Follows(b, k), Follows(c, k + Len(b))
    PROVE  /\ b \o c \in Seq(Nat \ {0}) /\ Len(b \o c) = Len(b) + Len(c)
           /\ Follows(b \o c, k)
<1>1. PICK n \in Nat, m \in Nat : n = Len(b) /\ m = Len(c)  OBVIOUS
<1> DEFINE u == b \o c
<1>2. u \in Seq(Nat \ {0}) /\ Len(u) = n + m
      /\ (\A i \in 1..n : u[i] = b[i]) /\ \A i \in 1..m : u[n + i] = c[i]
  <2>1. u \in Seq(Nat \ {0}) /\ Len(u) = Len(b) + Len(c)
        /\ \A i \in 1..Len(u) : u[i] = IF i <= Len(b) THEN b[i] ELSE c[i - Len(b)]
        OBVIOUS
  <2> HIDE DEF u
  <2>2. \A i \in 1..n : i \in 1..Len(u) /\ i <= Len(b)  BY <1>1, <2>1
  <2>3. \A i \in 1..m : n + i \in 1..Len(u) /\ ~(n + i <= n) /\ (n + i) - n = i  BY <1>1, <2>1
  <2>4. QED  BY <1>1, <2>1, <2>2, <2>3
<1> HIDE DEF u
<1>3. \A i \in 1..n : u[i] = k + i  BY <1>1, <1>2 DEF Follows
<1>4. \A i \in 1..m : u[n + i] = k + n + i  BY <1>1, <1>2 DEF Follows
<1>5. ASSUME NEW i \in 1..n + m PROVE u[i] = k + i
  <2>1. CASE i <= n  BY <1>3, <2>1
  <2>2. CASE i > n
    <3>1. PICK j \in 1..m : i = n + j
      <4>1. i - n \in 1..m /\ i = n + (i - n)  BY <2>2
      <4>2. QED  BY <4>1
    <3>2. u[n + j] = k + n + j  BY <1>4
    <3>3. k + n + j = k + i  BY <3>1
    <3>4. QED  BY <3>1, <3>2, <3>3
  <2>3. QED  BY <2>1, <2>2
<1>6. QED  BY <1>1, <1>2, <1>5 DEF Follows, u

\* The bytes of a frame follow those of the buffer.
LEMMA BufferedBytes ==
    ASSUME NEW s \in Readers, NEW f \in Frames, NEW k \in Nat,
           Len(s.buf) + f.len <= BufSize, f.first = k + Len(s.buf) + 1, Follows(s.buf, k)
    PROVE  /\ Buffered(s, f) \in Seq(Nat \ {0}) /\ Len(Buffered(s, f)) = Len(s.buf) + f.len
           /\ Follows(Buffered(s, f), k)
<1> DEFINE b == s.buf
<1>1. b \in Seq(Nat \ {0})  BY DEF Readers
<1>2. PICK n \in Nat, m \in Nat, a \in Nat, z \in Nat :
          n = Len(b) /\ m = f.len /\ a = f.first /\ m > 0 /\ z = BufSize
  <2>1. f.len \in 1..MaxData /\ f.first \in Nat  BY DEF Frames
  <2>2. f.len \in Nat /\ f.len > 0  BY <2>1, Constants
  <2>3. QED  BY <1>1, <2>1, <2>2, Constants
<1>3. n + m <= z /\ a = k + n + 1  BY <1>2
<1> DEFINE c == [i \in 1..m |-> a + i - 1]
<1>4. Lesser(f.len, BufSize - Len(b)) = m
  <2>1. m <= z - n \/ m = z - n  BY <1>3
  <2>2. Lesser(m, z - n) = m  BY <1>3 DEF Lesser
  <2>3. QED  BY <1>2, <2>2
<1>5. Buffered(s, f) = b \o c  BY <1>2, <1>4 DEF Buffered
<1>6. \A i \in 1..m : a + i - 1 \in Nat \ {0} /\ a + i - 1 = (k + n) + i  BY <1>3
<1>7. c \in Seq(Nat \ {0}) /\ Len(c) = m /\ \A i \in 1..m : c[i] = a + i - 1
  <2>1. c \in [1..m -> Nat \ {0}]  BY <1>6
  <2>2. QED  BY <2>1
<1> HIDE DEF c
<1>8. Follows(c, k + Len(b))  BY <1>2, <1>6, <1>7 DEF Follows
<1>9. Follows(b, k)  OBVIOUS
<1> HIDE DEF b
<1>10. b \o c \in Seq(Nat \ {0}) /\ Len(b \o c) = Len(b) + Len(c) /\ Follows(b \o c, k)
       BY <1>1, <1>7, <1>8, <1>9, JoinFollows
<1>11. QED  BY <1>2, <1>5, <1>7, <1>10 DEF b

\* What becomes of an accepted frame; the turn only ends with the last byte.
Stored(s, r, f, g, t, h, last) == Keeps(s, r, f, g, t, h) \/ Returns(s, r, f, g, t, h, last)
WholeAt(t, n, last) == t = "write" => n = last

\* An accepted frame leaves the reader consistent, and only a whole message
\* ends its turn.
LEMMA AcceptedData ==
    ASSUME NEW s \in Readers, NEW g \in Seq(Nat \ {0}), ReaderOK(s, "read", g), s.st = "WAITSOH",
           NEW f \in Frames, f.first = Len(g) + Len(s.buf) + 1, Len(s.buf) + f.len <= BufSize,
           NEW r \in Readers, r.no = s.no + 1, r.next = (s.next + 1) % SeqMod,
           NEW t, NEW h, NEW last, Stored(s, r, f, g, t, h, last)
    PROVE  /\ ReaderOK(r, t, h) /\ r.st \in {"WAITSOH", "EXIT"} /\ t \in {"read", "write"}
           /\ Len(h) + Len(r.buf) = Len(g) + Len(s.buf) + f.len /\ Len(h) >= Len(g) /\ Len(h) \in Nat
           /\ WholeAt(t, Len(h) + Len(r.buf), last)
<1>1. PICK n \in Nat, k \in Nat, m \in Nat : n = Len(s.buf) /\ k = Len(g) /\ m = f.len /\ m > 0
  <2>1. f.len \in 1..MaxData /\ s.buf \in Seq(Nat \ {0})  BY DEF Frames, Readers
  <2>2. f.len \in Nat /\ f.len > 0 /\ Len(s.buf) \in Nat /\ Len(g) \in Nat  BY <2>1, Constants
  <2>3. QED  BY <2>2
<1>2. /\ s.readed = n /\ s.next = s.no % SeqMod /\ Follows(s.buf, k) /\ (\A i \in 1..k : g[i] = i)
      BY <1>1 DEF ReaderOK, Follows
<1> DEFINE b == Buffered(s, f)
<1>3. b \in Seq(Nat \ {0}) /\ Len(b) = n + m /\ Follows(b, k)
  <2>1. Len(s.buf) + f.len <= BufSize /\ f.first = k + Len(s.buf) + 1  BY <1>1
  <2>2. b \in Seq(Nat \ {0}) /\ Len(b) = Len(s.buf) + f.len /\ Follows(b, k)
        BY <1>1, <1>2, <2>1, BufferedBytes
  <2>3. QED  BY <1>1, <2>2
<1> HIDE DEF b
<1>4. r.next = r.no % SeqMod
  <2>1. s.no \in Nat /\ SeqMod \in Nat /\ SeqMod > 1  BY Constants DEF Readers
  <2>2. (s.no + 1) % SeqMod = ((s.no % SeqMod) + 1) % SeqMod  BY <2>1, ModNext
  <2>3. QED  BY <1>2, <2>2
<1>5. CASE Keeps(s, r, f, g, t, h)
  <2>1. r.st = "WAITSOH" /\ r.buf = b /\ r.readed = n + m /\ t = "read" /\ h = g
        BY <1>1, <1>2, <1>5 DEF Keeps, b
  <2>2. ReaderOK(r, t, h)  BY <1>1, <1>2, <1>3, <1>4, <2>1 DEF ReaderOK, Follows
  <2>3. Len(h) = k /\ Len(r.buf) = n + m  BY <1>1, <1>3, <2>1
  <2>4. Len(h) + Len(r.buf) = k + n + m  BY <2>3
  <2>5. QED  BY <1>1, <2>1, <2>2, <2>3, <2>4 DEF WholeAt
<1>6. CASE Returns(s, r, f, g, t, h, last)
  <2>1. Lesser(s.readed + f.len, Len(b)) = Len(b)  BY <1>1, <1>2, <1>3 DEF Lesser
  <2>2. SubSeq(b, 1, Len(b)) = b /\ SubSeq(b, Len(b) + 1, Len(b)) = <<>>  BY <1>3, SubSeqWhole
  <2>3. /\ r.st = "EXIT" /\ r.buf = <<>> /\ h = g \o b
        /\ t = IF h # <<>> /\ h[Len(h)] = last THEN "write" ELSE "read"
        BY <1>6, <2>1, <2>2 DEF Returns, b
  <2>4. h \in Seq(Nat \ {0}) /\ Len(h) = Len(g) + Len(b) /\ Follows(h, 0)
    <3>1. Follows(g, 0)  BY <1>1, <1>2 DEF Follows
    <3>2. Follows(b, 0 + Len(g))
      <4>1. 0 + Len(g) = k  BY <1>1
      <4>2. QED  BY <1>3, <4>1
    <3>3. g \o b \in Seq(Nat \ {0}) /\ Len(g \o b) = Len(g) + Len(b) /\ Follows(g \o b, 0)
          BY <1>3, <3>1, <3>2, JoinFollows, 0 \in Nat
    <3>4. QED  BY <2>3, <3>3
  <2>5. PICK j \in Nat : j = Len(h) /\ j = k + (n + m) /\ j > 0  BY <1>1, <1>3, <2>4
  <2>6. \A i \in 1..j : h[i] = i  BY <2>4, <2>5 DEF Follows
  <2>7. Len(r.buf) = 0 /\ \A i \in 1..Len(r.buf) : r.buf[i] = Len(h) + i  BY <2>3
  <2>8. ReaderOK(r, t, h)
    <3>1. r.st = "EXIT" /\ r.buf = <<>> /\ t \in {"write", "read"}  BY <2>3
    <3>2. QED  BY <1>4, <2>5, <2>6, <2>7, <3>1 DEF ReaderOK
  <2>9. t = "write" => j = last
    <3>1. h[j] = j  BY <2>5, <2>6
    <3>2. QED  BY <2>3, <2>5, <3>1
  <2>10. j + 0 = k + n + m /\ j >= k  BY <2>5
  <2>11. Len(h) + Len(r.buf) = j + 0 /\ j + 0 = j  BY <2>5, <2>7
  <2>12. QED  BY <1>1, <2>3, <2>5, <2>8, <2>9, <2>10, <2>11 DEF WholeAt
<1>7. QED  BY <1>5, <1>6 DEF Stored

\* A step of the reader that returns nothing to its application.
Silent(s, r, l, rest, out) == Opens(s, r, l, rest, out) \/ Continues(s, r, l, rest, out)

\* A reader that goes on with what it has.
LEMMA QuietReader ==
    ASSUME NEW s \in Readers, NEW g, ReaderOK(s, "read", g), NEW r \in Readers, NEW t, NEW h,
           Stays(s, r, g, t, h), NEW l, NEW rest, NEW out,
           Opens(s, r, l, rest, out) \/ Continues(s, r, l, rest, out)
    PROVE  ReaderOK(r, t, h) /\ h = g /\ r.buf = s.buf /\ r.no = s.no /\ t = "read"
<1>1. r.no = s.no /\ r.next = s.next /\ t = "read" /\ h = g  BY DEF Stays
<1>2. r.buf = s.buf /\ r.st # "EXIT" /\ r.readed = Len(r.buf)
  <2>1. CASE Opens(s, r, l, rest, out)  BY <2>1 DEF Opens, ReaderOK
  <2>2. CASE Continues(s, r, l, rest, out)  BY <2>2 DEF Continues, ReaderOK
  <2>3. QED  BY <2>1, <2>2
<1>3. QED  BY <1>1, <1>2 DEF ReaderOK

\* The head of a line that starts a frame is one of the message being written,
\* once those before are gone.
LEMMA HeadFrame ==
    ASSUME NEW l \in Seq(Items), l # <<>>, Head(l).b = "SOH", NEW p \in Nat, ~Has(l, UpTo(p))
    PROVE  Head(l) \in After(p) /\ Head(l) \in Frames
<1>1. Head(l) \in Items  BY RemainsTail
<1>2. Head(l) \notin Replies  BY DEF Replies, AckBytes
<1>3. Head(l) \in Frames  BY <1>1, <1>2, ItemKinds
<1>4. Head(l) \notin UpTo(p)  BY HeadHas
<1>5. QED  BY <1>3, <1>4, ItemKinds

Answers(out) == out \in {<<>>, send_ack, send_nack}

LEMMA AnswerItems ==
    ASSUME NEW out, Answers(out)
    PROVE  out \in Seq(Items) /\ ~Has(out, Frames) /\ ~Before(out, Replies, Frames)
<1>1. CASE out = <<>>  BY <1>1, NoItem
<1>2. CASE out \in {send_ack, send_nack}  BY <1>2, ReplyPair
<1>3. QED  BY <1>1, <1>2 DEF Answers

LEMMA TakesRemains ==
    ASSUME NEW l \in Seq(Items), NEW rest, Takes(l, rest)
    PROVE  rest \in Seq(Items) /\ Remains(rest, l, FALSE)
BY RemainsTail DEF Takes

\* The exchange after a step of the reader that returns nothing.
LEMMA ReaderWaits ==
    ASSUME Distinguishes, NEW w \in Writers, NEW s \in Readers, s.next = s.no % SeqMod,
           NEW k \in Nat, NEW p \in Nat, NEW n \in 0..MaxFaults,
           NEW lx \in Seq(Items), NEW ly \in Seq(Items), ~Has(ly, UpTo(p)),
           Exchanging(w, s, k, lx, ly, p, n),
           NEW r \in Readers, r.no = s.no, NEW rest, NEW out, Silent(s, r, ly, rest, out)
    PROVE  /\ Exchanging(w, r, k, lx \o out, rest, p, n)
           /\ rest \in Seq(Items) /\ Remains(rest, ly, FALSE) /\ Answers(out)
<1>1. n \in Nat /\ lx \o <<>> = lx  BY Constants
<1>2. CASE out = <<>> /\ (r.st = "DISCARDRETRANS" => s.st = "DISCARDRETRANS") /\ Takes(ly, rest)
  <2>1. rest \in Seq(Items) /\ Remains(rest, ly, FALSE)  BY <1>2, TakesRemains
  <2>2. Exchanging(w, r, k, lx, rest, p, n)  BY <1>1, <1>2, <2>1, ExchangeWaits
  <2>3. QED  BY <1>1, <1>2, <2>1, <2>2 DEF Answers
<1>3. CASE out \in {send_ack, send_nack} /\ rest = ly /\ r.st = "WAITSOH"
           /\ (out = send_ack => s.st = "DISCARDRETRANS")
  <2>1. Exchanging(w, r, k, lx \o out, ly, p, n)  BY <1>1, <1>3, ExchangeAnswer
  <2>2. QED  BY <1>3, <2>1, RemainsTail DEF Answers
<1>4. CASE Repeats(s, r, ly, rest, out)
  <2>1. /\ s.st = "WAITSOH" /\ r.st = "DISCARDRETRANS" /\ ly # <<>> /\ Head(ly).b = "SOH"
        /\ IsRetrans(s, Head(ly)) /\ rest = Tail(ly) /\ out = <<>>
        BY <1>4 DEF Repeats
  <2>2. Head(ly) \in After(p)  BY <2>1, HeadFrame
  <2>3. Head(ly) \in Spurious(p)  BY <2>1, <2>2, RepeatedFrame
  <2>4. Exchanging(w, r, k, lx, Tail(ly), p, n)  BY <1>1, <2>1, <2>3, ExchangeRepeat
  <2>5. QED  BY <1>1, <2>1, <2>4, RemainsTail DEF Answers
<1>5. CASE Opens(s, r, ly, rest, out)
  <2>1. out = <<>> /\ r.st # "DISCARDRETRANS" /\ Takes(ly, rest)  BY <1>5 DEF Opens, Takes
  <2>2. QED  BY <1>2, <2>1
<1>6. CASE Continues(s, r, ly, rest, out)
  <2>1. send_ack # send_nack  BY DEF send_ack, send_nack, Byte
  <2>2. QED  BY <1>2, <1>3, <1>4, <1>6, <2>1 DEF Continues, Refuses, Passes, Takes
<1>7. QED  BY <1>5, <1>6 DEF Silent

\* The turn of the application passes when the message is whole, with its last
\* frame taken from the line.
WholeTaken(t, h, r, l, rest, p, last) ==
    t = "write" => /\ Len(h) + Len(r.buf) = last
                   /\ l # <<>> /\ rest = Tail(l) /\ Head(l) \in After(p)

\* What was received is given to the application or in the buffer, and the
\* message, which begins after byte p, has room there.
Within(k, g, s, last, p) == k = Len(g) + Len(s.buf) /\ last <= p + BufSize /\ p <= Len(g)
Grows(g, h) == Len(h) \in Nat /\ Len(h) >= Len(g)

\* The other's step, all that concerns the exchange and its reader.
LEMMA OtherReads ==
    ASSUME Distinguishes, NEW w \in Writers, NEW u, NEW last \in Nat, WriterOK(w, u, last),
           NEW s \in Readers, NEW g \in Seq(Nat \ {0}), ReaderOK(s, "read", g),
           NEW k \in Nat, NEW p \in Nat, Within(k, g, s, last, p), NEW n \in 0..MaxFaults,
           NEW lx \in Seq(Items), NEW ly \in Seq(Items), ~Has(ly, UpTo(p)),
           Exchanging(w, s, k, lx, ly, p, n),
           NEW r \in Readers, NEW rest, NEW out, NEW t, NEW h,
           ReadResult(s, r, ly, rest, out, g, t, h, last)
    PROVE  /\ ReaderOK(r, t, h) /\ Grows(g, h)
           /\ Exchanging(w, r, Len(h) + Len(r.buf), lx \o out, rest, p, n)
           /\ rest \in Seq(Items) /\ Remains(rest, ly, FALSE) /\ Answers(out)
           /\ WholeTaken(t, h, r, ly, rest, p, last)
<1>1. n \in Nat /\ lx \o <<>> = lx /\ s.next = s.no % SeqMod /\ k = Len(g) + Len(s.buf)
      BY Constants DEF ReaderOK, Within
<1>2. CASE Stays(s, r, g, t, h) /\ (Opens(s, r, ly, rest, out) \/ Continues(s, r, ly, rest, out))
  <2>1. ReaderOK(r, t, h) /\ h = g /\ r.buf = s.buf /\ r.no = s.no /\ t = "read"
        BY <1>2, QuietReader
  <2>2. /\ Exchanging(w, r, k, lx \o out, rest, p, n)
        /\ rest \in Seq(Items) /\ Remains(rest, ly, FALSE) /\ Answers(out)
    <3>1. /\ Distinguishes /\ s.next = s.no % SeqMod /\ ~Has(ly, UpTo(p))
          /\ Exchanging(w, s, k, lx, ly, p, n) /\ r.no = s.no
          /\ Silent(s, r, ly, rest, out)
          BY <1>1, <1>2, <2>1 DEF Silent
    <3>2. QED  BY <3>1, ReaderWaits
  <2>3. Len(g) \in Nat /\ Len(g) >= Len(g)  OBVIOUS
  <2>4. QED  BY <1>1, <2>1, <2>2, <2>3 DEF Grows, WholeTaken
<1>3. CASE r.no = s.no /\ r.next = s.next /\ t = "closed" /\ Fails(s, r, ly, rest, out, g, h)
  <2>1. r.st = "EXIT" /\ r.buf = <<>> /\ h = g \o s.buf /\ Takes(ly, rest) /\ out = <<>>
        BY <1>3 DEF Fails
  <2>2. s.buf \in Seq(Nat \ {0}) /\ Follows(g, 0) /\ Follows(s.buf, 0 + Len(g))
    <3>1. \A i \in 1..Len(g) : g[i] = 0 + i  BY DEF ReaderOK
    <3>2. \A i \in 1..Len(s.buf) : s.buf[i] = (0 + Len(g)) + i  BY DEF ReaderOK
    <3>3. QED  BY <3>1, <3>2 DEF Follows, Readers
  <2>3. h \in Seq(Nat \ {0}) /\ Len(h) = Len(g) + Len(s.buf) /\ Follows(h, 0)
        BY <2>1, <2>2, JoinFollows, 0 \in Nat
  <2>4. Len(h) = k /\ Len(h) \in Nat /\ Len(h) >= Len(g)
    <3>1. Len(g) \in Nat /\ Len(s.buf) \in Nat  BY <2>2
    <3>2. QED  BY <1>1, <2>3, <3>1
  <2>5. ReaderOK(r, t, h)
    <3>1. \A i \in 1..Len(h) : h[i] = i  BY <2>3, <2>4 DEF Follows
    <3>2. \A i \in 1..Len(r.buf) : r.buf[i] = Len(h) + i  BY <2>1
    <3>3. QED  BY <1>1, <1>3, <2>1, <3>1, <3>2 DEF ReaderOK
  <2>6. rest \in Seq(Items) /\ Remains(rest, ly, FALSE)  BY <2>1, TakesRemains
  <2>7. Exchanging(w, r, k, lx, rest, p, n)  BY <1>1, <1>3, <2>1, <2>6, ExchangeWaits
  <2>8. Len(h) + Len(r.buf) = k  BY <2>1, <2>4
  <2>9. QED  BY <1>1, <1>3, <2>1, <2>4, <2>5, <2>6, <2>7, <2>8 DEF Answers, Grows, WholeTaken
<1>4. CASE Accepts(s, r, ly, rest, out, g, t, h, last)
  <2> DEFINE f == Head(ly)
  <2>1. /\ s.st = "WAITSOH" /\ ly # <<>> /\ f.b = "SOH" /\ f.good /\ f.seqno = s.next
        /\ rest = Tail(ly) /\ out = send_ack /\ r.no = s.no + 1 /\ r.next = (s.next + 1) % SeqMod
        /\ Keeps(s, r, f, g, t, h) \/ Returns(s, r, f, g, t, h, last)
        BY <1>4 DEF Accepts
  <2>2. f \in After(p) /\ f \in Frames  BY <2>1, HeadFrame
  <2>3. f.no = s.no /\ s.no <= Len(w.cuts) /\ f.first = k + 1 /\ f.first + f.len = Start(w, s.no + 1)
        BY <1>1, <2>1, <2>2, ExpectedFrame
  <2>4. Start(w, s.no + 1) <= last + 1
    <3>1. s.no \in 1..Len(w.cuts)
      <4>1. s.no \in Nat \ {0} /\ Len(w.cuts) \in Nat  BY DEF Readers, Writers
      <4>2. QED  BY <2>3, <4>1
    <3>2. QED  BY <3>1, FrameWithin
  <2>5. PICK i \in Nat, j \in Nat, m \in Nat, z \in Nat, a \in Nat :
            i = Len(g) /\ j = Len(s.buf) /\ m = f.len /\ z = BufSize /\ a = f.first
    <3> HIDE DEF f
    <3>1. f.len \in 1..MaxData /\ f.first \in Nat \ {0} /\ s.buf \in Seq(Nat \ {0})
          BY <2>2 DEF Frames, Readers
    <3>2. f.len \in Nat /\ f.first \in Nat /\ BufSize \in Nat  BY <3>1, Constants
    <3>3. Len(g) \in Nat /\ Len(s.buf) \in Nat  BY <3>1
    <3>4. QED  BY <3>2, <3>3
  <2>6. j + m <= z /\ a = i + j + 1 /\ k = i + j
    <3>1. a + m <= last + 1 /\ a = k + 1 /\ k = i + j /\ last <= p + z /\ p <= i
          BY <2>3, <2>4, <2>5 DEF Within
    <3>2. QED  BY <3>1
  <2> HIDE DEF f
  <2>7. f.first = Len(g) + Len(s.buf) + 1 /\ Len(s.buf) + f.len <= BufSize  BY <2>5, <2>6
  <2>8. /\ ReaderOK(r, t, h) /\ r.st \in {"WAITSOH", "EXIT"} /\ t \in {"read", "write"}
        /\ Len(h) + Len(r.buf) = Len(g) + Len(s.buf) + f.len /\ Len(h) >= Len(g) /\ Len(h) \in Nat
        /\ t = "write" => Len(h) + Len(r.buf) = last
    <3> HIDE DEF f
    <3>1. /\ ReaderOK(s, "read", g) /\ s.st = "WAITSOH" /\ f \in Frames
          /\ f.first = Len(g) + Len(s.buf) + 1 /\ Len(s.buf) + f.len <= BufSize
          /\ r.no = s.no + 1 /\ r.next = (s.next + 1) % SeqMod
          /\ Stored(s, r, f, g, t, h, last)
          BY <2>1, <2>2, <2>7 DEF f, Stored
    <3>2. /\ ReaderOK(r, t, h) /\ r.st \in {"WAITSOH", "EXIT"} /\ t \in {"read", "write"}
          /\ Len(h) + Len(r.buf) = Len(g) + Len(s.buf) + f.len /\ Len(h) >= Len(g) /\ Len(h) \in Nat
          /\ WholeAt(t, Len(h) + Len(r.buf), last)
          BY <3>1, AcceptedData
    <3>3. QED  BY <3>2 DEF WholeAt
  <2>9. Exchanging(w, r, k + f.len, lx \o send_ack, Tail(ly), p, n)
        BY <1>1, <2>1, <2>2, <2>8, ExchangeAccept DEF f
  <2>10. Len(h) + Len(r.buf) = k + f.len
    <3>1. Len(g) + Len(s.buf) + f.len = k + f.len  BY <1>1
    <3>2. QED  BY <2>8, <3>1
  <2>11. rest \in Seq(Items) /\ Remains(rest, ly, FALSE)  BY <2>1, RemainsTail
  <2>12. QED  BY <2>1, <2>2, <2>8, <2>9, <2>10, <2>11 DEF Answers, Grows, WholeTaken, f
<1>5. QED  BY <1>2, <1>3, <1>4 DEF ReadResult

\* The ends after a step of the reader of one of them.
LEMMA ReaderEnds ==
    ASSUME TypeOK, EndsOK, NEW e \in Ends, NEW r, NEW rest, NEW out, NEW t, NEW h,
           ReaderMove(e, r, rest, out, t, h), ReaderOK(r, t, h), Remains(rest, line[e], FALSE),
           Answers(out)
    PROVE  EndsOK'
<1> DEFINE d == Peer(e)
<1>1. d \in Ends /\ d # e /\ Peer(d) = e /\ \A z \in Ends : z = e \/ z = d  BY Two
<1> HIDE DEF d
<1>2. /\ turn[e] = "read" /\ rest \in Seq(Items)
      /\ rd'[e] = r /\ rd'[d] = rd[d] /\ line'[e] = rest /\ line'[d] = line[d] \o out
      /\ turn'[e] = t /\ turn'[d] = turn[d] /\ got'[e] = h /\ got'[d] = got[d]
      /\ wr' = wr /\ ends' = ends
      BY DEF ReaderMove, d
<1>3. LastByte(e)' = LastByte(e) /\ LastByte(d)' = LastByte(d)  BY <1>2 DEF LastByte
<1>4. /\ WriterOK(wr[e], "read", LastByte(e)) /\ WriterOK(wr[d], turn[d], LastByte(d))
      /\ ReaderOK(rd[d], turn[d], got[d])
      /\ ~Has(line[d], After(LastByte(e))) /\ ~Has(line[e], After(LastByte(d)))
  <2>1. \A z \in Ends : /\ WriterOK(wr[z], turn[z], LastByte(z)) /\ ReaderOK(rd[z], turn[z], got[z])
                         /\ ~Has(line[Peer(z)], After(LastByte(z)))
        BY DEF EndsOK
  <2>2. WriterOK(wr[e], turn[e], LastByte(e)) /\ ~Has(line[Peer(e)], After(LastByte(e)))  BY <2>1
  <2>3. /\ WriterOK(wr[d], turn[d], LastByte(d)) /\ ReaderOK(rd[d], turn[d], got[d])
        /\ ~Has(line[Peer(d)], After(LastByte(d)))
        BY <1>1, <2>1
  <2>4. QED  BY <1>1, <1>2, <2>2, <2>3 DEF d
<1>5. WriterOK(wr[e], t, LastByte(e))  BY <1>4 DEF WriterOK
<1>6. /\ LastByte(e) \in Nat /\ LastByte(d) \in Nat /\ line[d] \in Seq(Items) /\ line[e] \in Seq(Items)
      BY <1>1, ByteTypes DEF TypeOK
<1>7. out \in Seq(Items) /\ ~Has(out, Frames)  BY AnswerItems
<1>8. ~Has(line[d] \o out, After(LastByte(e)))
  <2>1. After(LastByte(e)) \subseteq Frames  BY DEF After
  <2>2. ~Has(out, After(LastByte(e)))  BY <1>7, <2>1 DEF Has
  <2>3. QED  BY <1>4, <1>6, <1>7, <2>2, HasJoin
<1>9. ~Has(rest, After(LastByte(d)))
  <2>1. Closed(After(LastByte(d)), FALSE)  BY <1>6, ClosedSets
  <2>2. QED  BY <1>2, <1>4, <1>6, <2>1, RemainsHas
<1>10. /\ WriterOK(wr'[e], turn'[e], LastByte(e)') /\ ReaderOK(rd'[e], turn'[e], got'[e])
       /\ ~Has(line'[d], After(LastByte(e)'))
       BY <1>2, <1>3, <1>5, <1>8
<1>11. /\ WriterOK(wr'[d], turn'[d], LastByte(d)') /\ ReaderOK(rd'[d], turn'[d], got'[d])
       /\ ~Has(line'[e], After(LastByte(d)'))
       BY <1>2, <1>3, <1>4, <1>9
<1>12. EndsOK' <=> \A z \in Ends : /\ WriterOK(wr'[z], turn'[z], LastByte(z)')
                                   /\ ReaderOK(rd'[z], turn'[z], got'[z])
                                   /\ ~Has(line'[Peer(z)], After(LastByte(z)'))
       BY DEF EndsOK, WriterOK, ReaderOK, Has, After
<1>13. QED  BY <1>1, <1>10, <1>11, <1>12 DEF d

\* The link after a step of the other's reader.
LEMMA ReaderOther ==
    ASSUME Distinguishes, TypeOK, EndsOK, NEW x \in Ends, LinkAt(x, Peer(x)),
           NEW r, NEW rest, NEW out, NEW t, NEW h, ReaderMove(Peer(x), r, rest, out, t, h)
    PROVE  EndsOK' /\ LinkAt(x, Peer(x))'
<1> DEFINE y == Peer(x)
<1>1. y \in Ends /\ y # x /\ Peer(y) = x  BY Two
<1> HIDE DEF y
<1>2. LinkAt(x, y) /\ ReaderMove(y, r, rest, out, t, h)  BY DEF y
<1>3. /\ wr[x] \in Writers /\ rd[y] \in Readers
      /\ line[x] \in Seq(Items) /\ line[y] \in Seq(Items) /\ faults \in 0..MaxFaults
      /\ LastByte(x) \in Nat /\ Prev(x) \in Nat /\ Received(y) \in Nat /\ got[y] \in Seq(Nat \ {0})
      BY <1>1, ByteTypes DEF TypeOK
<1>4. /\ turn[y] = "read" /\ ReadResult(rd[y], r, line[y], rest, out, got[y], t, h, LastByte(x))
      /\ r \in Readers
      /\ rd'[y] = r /\ rd'[x] = rd[x] /\ line'[y] = rest /\ line'[x] = line[x] \o out
      /\ turn'[y] = t /\ turn'[x] = turn[x] /\ got'[y] = h /\ got'[x] = got[x]
      /\ wr' = wr /\ ends' = ends /\ faults' = faults
      BY <1>1, <1>2 DEF ReaderMove
<1>5. /\ LastByte(x)' = LastByte(x) /\ LastByte(y)' = LastByte(y) /\ Prev(x)' = Prev(x)
      /\ Received(x)' = Received(x) /\ Received(y)' = Len(h) + Len(r.buf)
      BY <1>4 DEF LastByte, Prev, Received
<1>6. /\ Modes(x, y) /\ Room(x, y) /\ Answered(x, y) /\ Exchange(x, y)
      /\ Lines(turn[x], turn[y], Writing(y), Idle(y), line[x], line[y], Prev(x))
      BY <1>2 DEF LinkAt
<1>7. /\ WriterOK(wr[x], turn[x], LastByte(x)) /\ ReaderOK(rd[y], "read", got[y])
      /\ wr[y].st = "EXIT"
      BY <1>1, <1>4 DEF EndsOK, WriterOK
<1>8. /\ ReaderOK(r, t, h) /\ Len(h) \in Nat /\ Len(h) >= Len(got[y])
      /\ Exchanging(wr[x], r, Len(h) + Len(r.buf), line[x] \o out, rest, Prev(x), faults)
      /\ rest \in Seq(Items) /\ Remains(rest, line[y], FALSE) /\ Answers(out)
      /\ t = "write" => /\ Len(h) + Len(r.buf) = LastByte(x)
                        /\ line[y] # <<>> /\ rest = Tail(line[y]) /\ Head(line[y]) \in After(Prev(x))
  <2>1. Exchanging(wr[x], rd[y], Received(y), line[x], line[y], Prev(x), faults)
        BY <1>6 DEF Exchange
  <2>2. LastByte(x) <= Prev(x) + BufSize /\ Prev(x) <= Len(got[y]) /\ ~Has(line[y], UpTo(Prev(x)))
        BY <1>4, <1>6 DEF Room, Lines
  <2>3. Received(y) = Len(got[y]) + Len(rd[y].buf)  BY DEF Received
  <2>4. PICK last \in Nat, p \in Nat, k \in Nat, n \in 0..MaxFaults :
            last = LastByte(x) /\ p = Prev(x) /\ k = Received(y) /\ n = faults
        BY <1>3
  <2>5. /\ Distinguishes /\ WriterOK(wr[x], turn[x], last) /\ ReaderOK(rd[y], "read", got[y])
        /\ Within(k, got[y], rd[y], last, p)
        /\ ~Has(line[y], UpTo(p)) /\ Exchanging(wr[x], rd[y], k, line[x], line[y], p, n)
        /\ ReadResult(rd[y], r, line[y], rest, out, got[y], t, h, last)
        /\ wr[x] \in Writers /\ rd[y] \in Readers /\ got[y] \in Seq(Nat \ {0})
        /\ line[x] \in Seq(Items) /\ line[y] \in Seq(Items) /\ r \in Readers
        BY <1>3, <1>4, <1>7, <2>1, <2>2, <2>3, <2>4 DEF Within
  <2>6. /\ ReaderOK(r, t, h) /\ Grows(got[y], h)
        /\ Exchanging(wr[x], r, Len(h) + Len(r.buf), line[x] \o out, rest, p, n)
        /\ rest \in Seq(Items) /\ Remains(rest, line[y], FALSE) /\ Answers(out)
        /\ WholeTaken(t, h, r, line[y], rest, p, last)
        BY <2>5, OtherReads
  <2>7. QED  BY <2>4, <2>6 DEF Grows, WholeTaken
<1>9. EndsOK'  BY <1>1, <1>2, <1>8, ReaderEnds
<1>10. out \in Seq(Items) /\ ~Has(out, Frames) /\ ~Before(out, Replies, Frames)
       BY <1>8, AnswerItems
<1>11. Exchange(x, y)'  BY <1>4, <1>5, <1>8 DEF Exchange
<1>12. ~Writing(y)' /\ ~Writing(y) /\ (Idle(y)' <=> t = "write")  BY <1>4, <1>7 DEF Writing, Idle
<1>13. Modes(x, y)'  BY <1>4, <1>5, <1>6, <1>8, <1>12 DEF Modes
<1>14. Room(x, y)'
  <2>1. Prev(x) <= Len(h)
    <3>1. Len(got[y]) \in Nat /\ Prev(x) <= Len(got[y])  BY <1>3, <1>6 DEF Room
    <3>2. QED  BY <1>3, <1>8, <3>1
  <2>2. QED  BY <1>4, <1>5, <1>6, <2>1 DEF Room
<1>15. Answered(x, y)'
  <2>1. Received(x) = LastByte(y) /\ rd[x].no = Len(wr[y].cuts)
        BY <1>4, <1>6, <1>12 DEF Answered
  <2>2. Len(wr[y].cuts) = Len(wr[y].cuts) + 0
    <3>1. wr[y] \in Writers  BY <1>1 DEF TypeOK
    <3>2. wr[y].cuts \in Seq(Nat \ {0})  BY <3>1 DEF Writers
    <3>3. QED  BY <3>2
  <2>3. QED  BY <1>4, <1>5, <1>12, <2>1, <2>2 DEF Answered
<1>16. ASSUME NEW iy \in BOOLEAN, iy <=> t = "write"
       PROVE  Lines(turn[x], t, FALSE, iy, line[x] \o out, rest, Prev(x))
  <2>1. rest \o <<>> = rest /\ <<>> \in Seq(Items)  BY <1>8
  <2>2. ~Has(<<>>, Replies) /\ ~Has(<<>>, UpTo(Prev(x)))  BY NoItem
  <2>3. Remains(line[x], line[x], FALSE)  BY <1>3, RemainsTail
  <2>4. turn[x] = "read" => ~Has(line[x], Frames)  BY <1>6 DEF Lines
  <2>5. ~Has(rest, UpTo(Prev(x)))
    <3>1. Closed(UpTo(Prev(x)), FALSE)  BY <1>3, ClosedSets
    <3>2. ~Has(line[y], UpTo(Prev(x)))  BY <1>4, <1>6 DEF Lines
    <3>3. QED  BY <1>3, <1>8, <3>1, <3>2, RemainsHas
  <2>6. iy => ~Has(rest, Replies)  BY <1>3, <1>6, <1>8, <1>16, HeadBefore DEF Lines
  <2>7. LinesAllow(turn[x], t, FALSE, iy, line[x], rest, out, Prev(x))
        BY <1>10, <2>4, <2>5, <2>6 DEF LinesAllow
  <2> DEFINE uy == Writing(y)
             jy == Idle(y)
  <2>8. Lines(turn[x], turn[y], uy, jy, line[x], line[y], Prev(x))  BY <1>6
  <2> HIDE DEF uy, jy
  <2>9. /\ line[x] \in Seq(Items) /\ line[y] \in Seq(Items) /\ Prev(x) \in Nat /\ rest \in Seq(Items)
        /\ Remains(rest, line[y], FALSE) /\ Remains(line[x], line[x], FALSE)
        /\ <<>> \in Seq(Items) /\ out \in Seq(Items)
        /\ ~Has(<<>>, Replies) /\ ~Has(<<>>, UpTo(Prev(x))) /\ ~Before(out, Replies, Frames)
        /\ ~Has(out, Frames) \/ ~Has(line[x], Replies)
        BY <1>3, <1>8, <1>10, <2>1, <2>2, <2>3
  <2>10. Lines(turn[x], t, FALSE, iy, line[x] \o out, rest \o <<>>, Prev(x))
         BY <2>7, <2>8, <2>9, LinesStep
  <2>11. QED  BY <2>1, <2>10
<1>17. Lines(turn[x], turn[y], Writing(y), Idle(y), line[x], line[y], Prev(x))'
  <2> DEFINE j == t = "write"
  <2>1. j \in BOOLEAN  OBVIOUS
  <2>2. Lines(turn[x], t, FALSE, j, line[x] \o out, rest, Prev(x))  BY <1>16, <2>1
  <2>3. QED  BY <1>4, <1>5, <1>12, <2>2 DEF Lines
<1>18. LinkAt(x, y)'  BY <1>11, <1>13, <1>14, <1>15, <1>17 DEF LinkAt
<1>19. QED  BY <1>9, <1>18 DEF y

\* The owner's reader has nothing to answer: no frame is on its way.
LEMMA OwnerReads ==
    ASSUME NEW s \in Readers, s.st \in {"EXIT", "WAITSOH"}, s.buf = <<>>,
           NEW g \in Seq(Nat \ {0}), ReaderOK(s, "read", g), NEW l \in Seq(Items), ~Has(l, Frames),
           NEW r \in Readers, NEW rest, NEW out, NEW t, NEW h, NEW last,
           ReadResult(s, r, l, rest, out, g, t, h, last)
    PROVE  /\ ReaderOK(r, t, h) /\ r.no = s.no /\ r.buf = <<>> /\ h = g /\ out = <<>>
           /\ r.st \in {"EXIT", "WAITSOH"} /\ t \in {"read", "closed"}
           /\ rest \in Seq(Items) /\ Remains(rest, l, FALSE)
<1>1. ASSUME l # <<>>, Head(l).b = "SOH" PROVE FALSE
  <2>1. ~Has(l, UpTo(0))  BY DEF Has, UpTo
  <2>2. Head(l) \in Frames  BY <1>1, <2>1, HeadFrame, 0 \in Nat
  <2>3. QED  BY <1>1, <2>2, HeadHas
<1>2. CASE Stays(s, r, g, t, h) /\ (Opens(s, r, l, rest, out) \/ Continues(s, r, l, rest, out))
  <2>1. ReaderOK(r, t, h) /\ h = g /\ r.buf = s.buf /\ r.no = s.no /\ t = "read"
        BY <1>2, QuietReader
  <2>2. out = <<>> /\ r.st \in {"EXIT", "WAITSOH"} /\ Takes(l, rest)
    <3>1. CASE Opens(s, r, l, rest, out)  BY <3>1 DEF Opens, Takes
    <3>2. CASE Continues(s, r, l, rest, out)  BY <1>1, <3>2 DEF Continues, Repeats, Refuses, Passes, Takes
    <3>3. QED  BY <1>2, <3>1, <3>2
  <2>3. QED  BY <2>1, <2>2, TakesRemains
<1>3. CASE r.no = s.no /\ r.next = s.next /\ t = "closed" /\ Fails(s, r, l, rest, out, g, h)
  <2>1. r.st = "EXIT" /\ r.buf = <<>> /\ h = g \o <<>> /\ Takes(l, rest) /\ out = <<>>
        BY <1>3 DEF Fails
  <2>2. h = g  BY <2>1
  <2>3. ReaderOK(r, t, h)  BY <1>3, <2>1, <2>2 DEF ReaderOK
  <2>4. QED  BY <1>3, <2>1, <2>2, <2>3, TakesRemains
<1>4. CASE Accepts(s, r, l, rest, out, g, t, h, last)  BY <1>1, <1>4 DEF Accepts
<1>5. QED  BY <1>2, <1>3, <1>4 DEF ReadResult

\* The link after a step of the owner's reader.
LEMMA ReaderOwner ==
    ASSUME TypeOK, EndsOK, NEW x \in Ends, LinkAt(x, Peer(x)),
           NEW r, NEW rest, NEW out, NEW t, NEW h, ReaderMove(x, r, rest, out, t, h)
    PROVE  EndsOK' /\ LinkAt(x, Peer(x))'
<1> DEFINE y == Peer(x)
<1>1. y \in Ends /\ y # x /\ Peer(y) = x  BY Two
<1> HIDE DEF y
<1>2. LinkAt(x, y)  BY DEF y
<1>3. /\ wr[x] \in Writers /\ rd[x] \in Readers /\ rd[y] \in Readers
      /\ line[x] \in Seq(Items) /\ line[y] \in Seq(Items) /\ faults \in Nat
      /\ Prev(x) \in Nat /\ Received(y) \in Nat /\ got[x] \in Seq(Nat \ {0})
      BY <1>1, ByteTypes, Constants DEF TypeOK
<1>4. /\ turn[x] = "read" /\ ReadResult(rd[x], r, line[x], rest, out, got[x], t, h, LastByte(y))
      /\ r \in Readers
      /\ rd'[x] = r /\ rd'[y] = rd[y] /\ line'[x] = rest /\ line'[y] = line[y] \o out
      /\ turn'[x] = t /\ turn'[y] = turn[y] /\ got'[x] = h /\ got'[y] = got[y]
      /\ wr' = wr /\ ends' = ends /\ faults' = faults
      BY <1>1 DEF ReaderMove, y
<1>5. /\ Modes(x, y) /\ Room(x, y) /\ Answered(x, y) /\ Exchange(x, y)
      /\ Lines(turn[x], turn[y], Writing(y), Idle(y), line[x], line[y], Prev(x))
      BY <1>2 DEF LinkAt
<1>6. /\ ReaderOK(r, t, h) /\ r.no = rd[x].no /\ r.buf = <<>> /\ h = got[x] /\ out = <<>>
      /\ r.st \in {"EXIT", "WAITSOH"} /\ t \in {"read", "closed"}
      /\ rest \in Seq(Items) /\ Remains(rest, line[x], FALSE)
  <2>1. ReaderOK(rd[x], "read", got[x])  BY <1>4 DEF EndsOK
  <2>2. rd[x].st \in {"EXIT", "WAITSOH"} /\ rd[x].buf = <<>> /\ ~Has(line[x], Frames)
        BY <1>4, <1>5 DEF Modes, Lines
  <2>3. PICK last : last = LastByte(y)  OBVIOUS
  <2>4. /\ rd[x] \in Readers /\ rd[x].st \in {"EXIT", "WAITSOH"} /\ rd[x].buf = <<>>
        /\ got[x] \in Seq(Nat \ {0}) /\ ReaderOK(rd[x], "read", got[x])
        /\ line[x] \in Seq(Items) /\ ~Has(line[x], Frames) /\ r \in Readers
        /\ ReadResult(rd[x], r, line[x], rest, out, got[x], t, h, last)
        BY <1>3, <1>4, <2>1, <2>2, <2>3
  <2>5. QED  BY <2>4, OwnerReads
<1>7. EndsOK'  BY <1>6, ReaderEnds DEF Answers
<1>8. /\ LastByte(x)' = LastByte(x) /\ LastByte(y)' = LastByte(y) /\ Prev(x)' = Prev(x)
      /\ Received(x)' = Received(x) /\ Received(y)' = Received(y)
  <2>1. Received(x) = Len(got[x]) + Len(rd[x].buf) /\ rd[x].buf = <<>>  BY <1>5 DEF Received, Modes
  <2>2. QED  BY <1>4, <1>6, <2>1 DEF LastByte, Prev, Received
<1>9. line[y] \o out = line[y]  BY <1>3, <1>6
<1>10. Writing(y)' = Writing(y) /\ Idle(y)' = Idle(y)  BY <1>4 DEF Writing, Idle
<1>11. Modes(x, y)'  BY <1>4, <1>5, <1>6, <1>8, <1>10 DEF Modes
<1>12. Room(x, y)'  BY <1>4, <1>5, <1>8 DEF Room
<1>13. Answered(x, y)'  BY <1>4, <1>5, <1>6, <1>8, <1>10 DEF Answered
<1>14. Exchange(x, y)'
  <2>1. Exchanging(wr[x], rd[y], Received(y), line[x], line[y], Prev(x), faults)
        BY <1>5 DEF Exchange
  <2>2. Remains(line[y], line[y], FALSE)  BY <1>3, RemainsTail
  <2>3. PICK p \in Nat, k \in Nat, n \in Nat : p = Prev(x) /\ k = Received(y) /\ n = faults  BY <1>3
  <2>4. n >= n  OBVIOUS
  <2>5. Exchanging(wr[x], rd[y], k, line[x], line[y], p, n)  BY <2>1, <2>3
  <2>6. Exchanging(wr[x], rd[y], k, rest, line[y], p, n)
        BY <1>3, <1>6, <2>2, <2>4, <2>5, ExchangeRemains
  <2>7. QED  BY <1>4, <1>8, <1>9, <2>3, <2>6 DEF Exchange
<1>15. ASSUME NEW wy \in BOOLEAN, NEW iy \in BOOLEAN,
              Lines(turn[x], turn[y], wy, iy, line[x], line[y], Prev(x))
       PROVE  Lines(t, turn[y], wy, iy, rest, line[y], Prev(x))
  <2>1. rest \o <<>> = rest /\ <<>> \in Seq(Items) /\ line[y] \o <<>> = line[y]  BY <1>3, <1>6
  <2>2. /\ ~Has(<<>>, Replies) /\ ~Has(<<>>, UpTo(Prev(x))) /\ ~Has(<<>>, Frames)
        /\ ~Before(<<>>, Replies, Frames)
        BY NoItem
  <2>3. Remains(line[y], line[y], FALSE)  BY <1>3, RemainsTail
  <2>4. ~Has(rest, Frames)
    <3>1. Closed(Frames, FALSE)  BY <1>3, ClosedSets
    <3>2. ~Has(line[x], Frames)  BY <1>4, <1>5 DEF Lines
    <3>3. QED  BY <1>3, <1>6, <3>1, <3>2, RemainsHas
  <2>5. wy => ~Has(rest, Replies)
    <3>1. Closed(Replies, FALSE)  BY <1>3, ClosedSets
    <3>2. wy => ~Has(line[x], Replies)  BY <1>15 DEF Lines
    <3>3. QED  BY <1>3, <1>6, <3>1, <3>2, RemainsHas
  <2>6. (turn[y] = "read" => ~Has(line[y], UpTo(Prev(x)))) /\ (iy => ~Has(line[y], Replies))
        BY <1>15 DEF Lines
  <2>7. LinesAllow(t, turn[y], wy, iy, rest, line[y], <<>>, Prev(x))
        BY <2>2, <2>4, <2>5, <2>6 DEF LinesAllow
  <2>8. /\ line[x] \in Seq(Items) /\ line[y] \in Seq(Items) /\ Prev(x) \in Nat /\ rest \in Seq(Items)
        /\ Remains(line[y], line[y], FALSE) /\ Remains(rest, line[x], FALSE)
        /\ <<>> \in Seq(Items)
        /\ ~Has(<<>>, Replies) /\ ~Has(<<>>, UpTo(Prev(x))) /\ ~Before(<<>>, Replies, Frames)
        /\ ~Has(<<>>, Frames) \/ ~Has(rest, Replies)
        BY <1>3, <1>6, <2>1, <2>2, <2>3
  <2>9. Lines(t, turn[y], wy, iy, rest \o <<>>, line[y] \o <<>>, Prev(x))
        BY <1>15, <2>7, <2>8, LinesStep
  <2>10. QED  BY <2>1, <2>9
<1>16. Lines(turn[x], turn[y], Writing(y), Idle(y), line[x], line[y], Prev(x))'
  <2> DEFINE wy == Writing(y)
             iy == Idle(y)
  <2>1. wy \in BOOLEAN /\ iy \in BOOLEAN  BY DEF Writing, Idle
  <2>2. Lines(turn[x], turn[y], wy, iy, line[x], line[y], Prev(x))  BY <1>5
  <2>3. Lines(t, turn[y], wy, iy, rest, line[y], Prev(x))  BY <1>15, <2>1, <2>2
  <2>4. QED  BY <1>4, <1>8, <1>9, <1>10, <2>3 DEF Lines
<1>17. LinkAt(x, y)'  BY <1>11, <1>12, <1>13, <1>14, <1>16 DEF LinkAt
<1>18. QED  BY <1>7, <1>17 DEF y

-----------------------------------------------------------------------------
(* A new write: the other becomes the owner.                                 *)

\* The reader that has received the whole message expects the frame after it.
LEMMA WholeReceived ==
    ASSUME NEW w \in Writers, NEW t, NEW last \in Nat, WriterOK(w, t, last),
           NEW m \in Nat \ {0}, InStep(w, m, last)
    PROVE  /\ w.remain > 0 => m = Len(w.cuts) + 1 /\ w.remain <= MaxData
           /\ w.remain = 0 => m = Len(w.cuts)
<1>1. PICK n \in Nat, d \in Nat, q \in Nat : n = Len(w.cuts) /\ d = w.pdata /\ q = w.remain
  <2>1. Len(w.cuts) \in Nat /\ w.pdata \in Nat /\ w.remain \in Nat  BY DEF Writers
  <2>2. QED  BY <2>1
<1>2. d + q = last + 1  BY <1>1 DEF WriterOK
<1>3. /\ n > 0 /\ Start(w, n) = d /\ Start(w, n + 1) = d + Lesser(q, MaxData)
      /\ \A i \in 1..n + 1 : Start(w, i) \in Nat
      /\ \A i, j \in 1..n + 1 : i < j /\ (q > 0 \/ j <= n) => Start(w, i) < Start(w, j)
  <2>1. Len(w.cuts) \in Nat \ {0}  BY StartIncreases
  <2>2. QED  BY <1>1, <2>1, StartIncreases
<1>4. m <= n + (IF q > 0 THEN 1 ELSE 0) /\ last + 1 = Start(w, m)  BY <1>1 DEF InStep
<1>5. CASE q = 0
  <2>1. m <= n /\ last + 1 = d  BY <1>2, <1>4, <1>5
  <2>2. ASSUME m < n PROVE FALSE
    <3>1. m \in 1..n + 1 /\ n \in 1..n + 1  BY <1>3, <2>2
    <3>2. Start(w, m) < Start(w, n)  BY <1>3, <2>2, <3>1
    <3>3. QED  BY <1>3, <1>4, <2>1, <3>2
  <2>3. m = n  BY <2>1, <2>2
  <2>4. QED  BY <1>1, <1>5, <2>3
<1>6. CASE q > 0
  <2>1. m <= n + 1 /\ last + 1 > d  BY <1>2, <1>4, <1>6
  <2>2. ASSUME m <= n PROVE FALSE
    <3>1. CASE m = n  BY <1>3, <1>4, <2>1, <3>1
    <3>2. CASE m < n
      <4>1. m \in 1..n + 1 /\ n \in 1..n + 1  BY <1>3, <3>2
      <4>2. Start(w, m) < Start(w, n)  BY <1>3, <3>2, <4>1
      <4>3. QED  BY <1>3, <1>4, <2>1, <4>2
    <3>3. QED  BY <2>2, <3>1, <3>2
  <2>3. m = n + 1  BY <2>1, <2>2
  <2>4. d + Lesser(q, MaxData) = d + q  BY <1>2, <1>3, <1>4, <2>3
  <2>5. q <= MaxData  BY <2>4, Constants DEF Lesser
  <2>6. QED  BY <1>1, <1>6, <2>3, <2>5
<1>7. QED  BY <1>5, <1>6

\* A write begins with nothing of it on the lines.
LEMMA NewExchange ==
    ASSUME NEW w \in Writers, NEW last \in Nat, WriterOK(w, "write", last), w.remain > 0,
           NEW r \in Readers, r.no = Len(w.cuts), r.st \in {"EXIT", "WAITSOH"},
           NEW k \in Nat, k + 1 = w.pdata, NEW p \in Nat, p < w.pdata, NEW n \in Nat,
           NEW lx \in Seq(Items), ~Has(lx, Replies), NEW ly \in Seq(Items), ~Has(ly, After(p))
    PROVE  /\ Exchanging(w, r, k, lx, ly, p, n)
           /\ Exchanging(w, r, k, lx, ly \o <<make_dmframe(w, FALSE)>>, p, n)
<1> DEFINE f == make_dmframe(w, FALSE)
<1>1. /\ f \in Frames /\ f.no = Len(w.cuts) /\ f.again = FALSE /\ f.good
      /\ f.first = w.pdata /\ f.seqno = f.no % SeqMod
      /\ \A i \in Nat : (i <= f.no + 1 /\ (~FALSE => i <= f.no)) => FrameOK(f, w, i)
      BY SentFrame
<1> HIDE DEF f
<1>2. Len(w.cuts) \in Nat \ {0} /\ Start(w, Len(w.cuts)) = w.pdata  BY StartIncreases
<1>3. InStep(w, r.no, k)
  <2>1. Len(w.cuts) <= Len(w.cuts) + 1  BY <1>2
  <2>2. QED  BY <1>2, <2>1 DEF InStep
<1>4. FrameOK(f, w, r.no)
  <2>1. r.no \in Nat /\ r.no <= f.no + 1 /\ r.no <= f.no  BY <1>1, <1>2
  <2>2. QED  BY <1>1, <2>1
<1>5. FramesOK(ly, w, r.no, p) /\ Ordered(ly, p)  BY DEF FramesOK, Ordered, Has
<1>6. Count(lx, Acks) = 0 /\ Count(ly, Spurious(p)) = 0
  <2>1. Acks \subseteq Replies /\ Spurious(p) \subseteq After(p)  BY ItemKinds
  <2>2. ~Has(lx, Acks) /\ ~Has(ly, Spurious(p))  BY <2>1 DEF Has
  <2>3. Len(lx) \in Nat /\ Len(ly) \in Nat  OBVIOUS
  <2>4. QED  BY <2>2, <2>3, CountNone
<1>7. Ahead(w, r, lx, ly, p) = 0
  <2>1. Ahead(w, r, lx, ly, p) = (Len(w.cuts) - Len(w.cuts)) + 0 + 0 + 0  BY <1>6 DEF Ahead
  <2>2. QED  BY <1>2, <2>1
<1>8. Allowed(w, n) \in Nat  BY AllowedType
<1>9. Ahead(w, r, lx, ly, p) <= Allowed(w, n)  BY <1>7, <1>8
<1>10. f \notin Spurious(p)  BY <1>1 DEF Spurious
<1>11. Ahead(w, r, lx, ly, p) + (IF f \in Spurious(p) THEN 1 ELSE 0) <= Allowed(w, n)
       BY <1>7, <1>8, <1>10
<1>12. f.first > p  BY <1>1
<1>13. ~f.again => \A i \in 1..Len(ly) : ly[i] \in After(p) => ly[i].no < f.no  BY DEF Has
<1>14. Exchanging(w, r, k, lx, ly \o <<f>>, p, n)
       BY <1>1, <1>3, <1>4, <1>5, <1>11, <1>12, <1>13, ExchangeSend
<1>15. QED  BY <1>3, <1>5, <1>9, <1>14 DEF Exchanging, f

\* The first frame of a write, whose failure is not reported.
LEMMA FirstFrame ==
    ASSUME NEW w \in Writers, NEW o \in wr_send_frame(w, "first")
    PROVE  /\ o.w \in Writers /\ SameNumbers(o.w, w) /\ o.w.retrans = w.retrans
           /\ o.w.st = "FRAMESENDED" /\ o.w.frameTO = w.frameTO
           /\ \/ o.out = <<make_dmframe(o.w, FALSE)>> /\ o.error = "NOERROR" /\ o.fault = 0
              \/ o.out = <<>> /\ o.error = "FATAL" /\ o.fault = 1
<1> DEFINE waiting == [w EXCEPT !.st = "FRAMESENDED", !.timer = TRUE]
<1>1. \/ o = Outcome(waiting, <<make_dmframe(w, "first" = "again")>>, "NOERROR", 0)
      \/ o = Outcome(waiting, <<>>, "FATAL", 1)
      BY DEF wr_send_frame
<1>2. /\ waiting \in Writers /\ SameNumbers(waiting, w) /\ waiting.st = "FRAMESENDED"
      /\ waiting.retrans = w.retrans /\ waiting.frameTO = w.frameTO
      BY DEF Writers, SameNumbers
<1> HIDE DEF waiting
<1>3. make_dmframe(w, FALSE) = make_dmframe(waiting, FALSE)  BY <1>2 DEF make_dmframe, SameNumbers
<1>4. o.w = waiting  BY <1>1 DEF Outcome
<1>5. \/ o.out = <<make_dmframe(w, FALSE)>> /\ o.error = "NOERROR" /\ o.fault = 0
      \/ o.out = <<>> /\ o.error = "FATAL" /\ o.fault = 1
  <2> DEFINE h == make_dmframe(w, "first" = "again")
             b == "first" = "again"
  <2>1. b = FALSE  OBVIOUS
  <2> HIDE DEF b
  <2>2. make_dmframe(w, b) = make_dmframe(w, FALSE)  BY <2>1
  <2>3. h = make_dmframe(w, FALSE)  BY <2>2 DEF b
  <2> HIDE DEF h
  <2>4. CASE o = Outcome(waiting, <<h>>, "NOERROR", 0)
    <3>1. o.out = <<h>> /\ o.error = "NOERROR" /\ o.fault = 0  BY <2>4 DEF Outcome
    <3>2. QED  BY <2>3, <3>1
  <2>5. CASE o = Outcome(waiting, <<>>, "FATAL", 1)  BY <2>5 DEF Outcome
  <2>6. QED  BY <1>1, <2>4, <2>5 DEF h
<1>6. QED  BY <1>2, <1>3, <1>4, <1>5

\* What a write of n bytes leaves at end e.
WriteMove(e, n, o) ==
    /\ n \in Sizes /\ turn[e] = "write" /\ wr[e].st = "EXIT"
    /\ o.w \in Writers /\ o.w.st = "FRAMESENDED" /\ o.w.retrans = 0 /\ o.w.remain = n
    /\ ~o.w.frameTO /\ (o.out = <<>> => faults' > 0)
    /\ o.w.pdata = wr[e].pdata /\ o.w.seqno = wr[e].seqno /\ o.w.cuts = wr[e].cuts
    /\ o.out = <<>> \/ o.out = <<make_dmframe(o.w, FALSE)>>
    /\ wr'[e] = o.w /\ wr'[Peer(e)] = wr[Peer(e)]
    /\ line'[e] = line[e] /\ line'[Peer(e)] = line[Peer(e)] \o o.out
    /\ turn'[e] = "write" /\ turn'[Peer(e)] = turn[Peer(e)]
    /\ faults' \in Nat /\ rd' = rd /\ got' = got /\ garbled' = garbled /\ late' = late
    /\ ends'[e] = Append(ends[e], LastByte(e) + n) /\ ends'[Peer(e)] = ends[Peer(e)]

LEMMA WriteMoves ==
    ASSUME TypeOK, EndsOK, NEW e \in Ends, dmodem_write(e)
    PROVE  TypeOK' /\ \E n, o : WriteMove(e, n, o)
<1>1. /\ wr[e] \in Writers /\ line[e] \in Seq(Items) /\ WriterOK(wr[e], turn[e], LastByte(e))
      /\ LastByte(e) \in Nat /\ ends \in [Ends -> Seq(Nat \ {0})] /\ turn[e] = "write"
      /\ wr[e].st = "EXIT" /\ faults \in Nat
      BY ByteTypes, Constants DEF TypeOK, EndsOK, dmodem_write
<1>2. PICK n \in Sizes :
        /\ ends' = [ends EXCEPT ![e] = Append(@, LastByte(e) + n)]
        /\ WriterStep(e, wr_send_frame([wr[e] EXCEPT !.retrans = 0, !.remain = n,
                           !.frameTO = FALSE, !.uplayerTO = FALSE], "first"), line[e])
      BY DEF dmodem_write
<1> DEFINE w == [wr[e] EXCEPT !.retrans = 0, !.remain = n, !.frameTO = FALSE, !.uplayerTO = FALSE]
<1>3. n \in Nat /\ n > 0 /\ 0 \in 0..MaxRetries  BY Constants
<1>4. /\ w \in Writers /\ w.retrans = 0 /\ w.remain = n /\ w.pdata = wr[e].pdata
      /\ w.seqno = wr[e].seqno /\ w.cuts = wr[e].cuts /\ ~w.frameTO
  <2> DEFINE v == wr[e]
  <2>1. v \in Writers  BY <1>1
  <2> HIDE DEF v
  <2>2. QED  BY <1>3, <2>1 DEF Writers, v
<1> HIDE DEF w
<1>5. PICK o \in wr_send_frame(w, "first") : WriterStep(e, {o}, line[e])
      BY <1>2 DEF WriterStep, w
<1>6. /\ o.w \in Writers /\ SameNumbers(o.w, w) /\ o.w.retrans = w.retrans
      /\ o.w.st = "FRAMESENDED" /\ o.w.frameTO = w.frameTO
      /\ \/ o.out = <<make_dmframe(o.w, FALSE)>> /\ o.error = "NOERROR" /\ o.fault = 0
         \/ o.out = <<>> /\ o.error = "FATAL" /\ o.fault = 1
      BY <1>4, FirstFrame
<1>7. o.error \in Errors \cup {"NOERROR"} /\ o.fault \in {0, 1} /\ (o.out = <<>> \/ o.out = <<make_dmframe(o.w, FALSE)>>)
      BY <1>6 DEF Errors
<1>8. /\ o.w.remain = n /\ o.w.pdata = wr[e].pdata /\ o.w.seqno = wr[e].seqno /\ o.w.cuts = wr[e].cuts
      BY <1>4, <1>6 DEF SameNumbers
<1>9. WriterOK(o.w, "write", LastByte(e) + n)
  <2>1. wr[e].remain = 0 /\ wr[e].pdata + wr[e].remain = LastByte(e) + 1  BY <1>1 DEF WriterOK
  <2>2. PICK i \in Nat, j \in Nat : i = wr[e].pdata /\ j = LastByte(e)  BY <1>1 DEF Writers
  <2>3. i + n = (j + n) + 1  BY <1>3, <2>1, <2>2
  <2>4. o.w.pdata + o.w.remain = (LastByte(e) + n) + 1  BY <1>8, <2>2, <2>3
  <2>5. o.w.remain > 0 /\ o.w.retrans < MaxRetries  BY <1>3, <1>4, <1>6, <1>8, Constants
  <2>6. QED  BY <1>1, <1>6, <1>8, <2>4, <2>5 DEF WriterOK
<1>10. o.out \in Seq(Items)
  <2>1. CASE o.out = <<>>  BY <2>1
  <2>2. CASE o.out = <<make_dmframe(o.w, FALSE)>>
    <3>1. LastByte(e) + n \in Nat /\ o.w.remain > 0  BY <1>1, <1>3, <1>8
    <3>2. make_dmframe(o.w, FALSE) \in Frames  BY <1>6, <1>9, <3>1, SentFrame
    <3>3. PICK f \in Items : o.out = <<f>>  BY <2>2, <3>2 DEF Items
    <3>4. QED  BY <3>3
  <2>3. QED  BY <1>7, <2>1, <2>2
<1>11. /\ ends' \in [Ends -> Seq(Nat \ {0})] /\ ends'[e] = Append(ends[e], LastByte(e) + n)
       /\ ends'[Peer(e)] = ends[Peer(e)]
  <2>1. LastByte(e) + n \in Nat \ {0}  BY <1>1, <1>3
  <2>2. Append(ends[e], LastByte(e) + n) \in Seq(Nat \ {0})  BY <1>1, <2>1
  <2>3. QED  BY <1>1, <1>2, <2>2, Two
<1>12. /\ TypeOK'
       /\ wr'[e] = o.w /\ wr'[Peer(e)] = wr[Peer(e)]
       /\ line'[e] = line[e] /\ line'[Peer(e)] = line[Peer(e)] \o o.out
       /\ turn'[e] = TurnAfter(o) /\ turn'[Peer(e)] = turn[Peer(e)]
       /\ faults' = faults + o.fault
       /\ rd' = rd /\ got' = got /\ garbled' = garbled /\ late' = late
       BY <1>1, <1>5, <1>6, <1>7, <1>10, <1>11, WriterEffect
<1>13. TurnAfter(o) = "write"  BY <1>6, TurnAfterFacts
<1>14. faults' \in Nat /\ (o.out = <<>> => faults' > 0)
  <2>1. o.out = <<>> => o.fault = 1  BY <1>6
  <2>2. QED  BY <1>1, <1>7, <1>12, <2>1
<1>15. WriteMove(e, n, o)
       BY <1>1, <1>2, <1>4, <1>6, <1>7, <1>8, <1>11, <1>12, <1>13, <1>14 DEF WriteMove
<1>16. QED  BY <1>12, <1>15

\* The last bytes of messages after a write.
LEMMA WriteBytes ==
    ASSUME TypeOK, NEW x \in Ends, NEW y \in Ends, y # x, NEW n \in Nat,
           ends'[y] = Append(ends[y], LastByte(y) + n), ends'[x] = ends[x]
    PROVE  /\ LastByte(y)' = LastByte(y) + n /\ Prev(y)' = LastByte(y)
           /\ LastByte(x)' = LastByte(x) /\ Prev(x)' = Prev(x)
<1> DEFINE s == ends[y]
           b == LastByte(y) + n
           u == Append(s, b)
<1>1. s \in Seq(Nat \ {0})  BY DEF TypeOK
<1> HIDE DEF s, b
<1>2. u # <<>> /\ Len(u) = Len(s) + 1 /\ u[Len(u)] = b /\ Len(s) \in Nat
      /\ (Len(s) >= 1 => u[Len(u) - 1] = s[Len(s)]) /\ (s # <<>> <=> Len(s) >= 1)
      BY <1>1
<1>3. ends'[y] = u  BY DEF s, b
<1> HIDE DEF u
<1>4. LastByte(y)' = b  BY <1>2, <1>3 DEF LastByte
<1>5. Prev(y)' = IF Len(u) < 2 THEN 0 ELSE u[Len(u) - 1]  BY <1>3 DEF Prev
<1>6. LastByte(y) = IF s = <<>> THEN 0 ELSE s[Len(s)]  BY DEF LastByte, s
<1>7. Prev(y)' = LastByte(y)  BY <1>2, <1>5, <1>6
<1>8. QED  BY <1>4, <1>7 DEF LastByte, Prev, b

\* The line to the reader of a new write, whose first frame comes after what
\* the owner before sent.
LEMMA NewLines ==
    ASSUME NEW lx \in Seq(Items), NEW ly \in Seq(Items), NEW p \in Nat, NEW tx, NEW wx, NEW ty, NEW q,
           Lines(tx, ty, FALSE, TRUE, lx, ly, q), ~Has(lx, After(p)),
           NEW out \in Seq(Items), ~Has(out, Replies), ~Has(out, UpTo(p))
    PROVE  Lines("write", tx, wx, FALSE, ly, lx \o out, p)
<1>1. ~Has(ly, Replies) /\ ~Before(lx, Replies, Frames) /\ (tx = "read" => ~Has(lx, Frames))
      BY DEF Lines
<1>2. UpTo(p) \subseteq Frames  BY DEF UpTo
<1>3. ~Before(lx, Replies, UpTo(p)) /\ (tx = "read" => ~Has(lx, UpTo(p)))
      BY <1>1, <1>2 DEF Has, Before
<1>4. ~Before(lx, After(p), Replies) /\ ~Before(ly, Replies, Frames)  BY <1>1 DEF Has, Before
<1>5. ~Before(out, After(p), Replies) /\ ~Before(out, Replies, UpTo(p))  BY DEF Has, Before
<1>6. ~Before(lx \o out, After(p), Replies)  BY <1>4, <1>5, BeforeJoin
<1>7. ~Before(lx \o out, Replies, UpTo(p))  BY <1>3, <1>5, BeforeJoin
<1>8. tx = "read" => ~Has(lx \o out, UpTo(p))  BY <1>3, HasJoin
<1>9. QED  BY <1>1, <1>4, <1>6, <1>7, <1>8 DEF Lines

\* The ends and the link after a write.
LEMMA WriteLink ==
    ASSUME MessagesFit, TypeOK, EndsOK, NEW x \in Ends, LinkAt(x, Peer(x)),
           NEW e \in Ends, NEW n, NEW o, WriteMove(e, n, o)
    PROVE  EndsOK' /\ e = Peer(x) /\ LinkAt(Peer(x), x)'
<1> DEFINE y == Peer(x)
<1>1. y \in Ends /\ y # x /\ Peer(y) = x /\ \A z \in Ends : z = x \/ z = y  BY Two
<1> HIDE DEF y
<1>2. /\ Modes(x, y) /\ Room(x, y) /\ Answered(x, y) /\ Exchange(x, y)
      /\ Lines(turn[x], turn[y], Writing(y), Idle(y), line[x], line[y], Prev(x))
      BY DEF LinkAt, y
<1>3. e = y
  <2>1. turn[e] = "write" /\ wr[e].st = "EXIT"  BY DEF WriteMove
  <2>2. QED  BY <1>1, <1>2, <2>1 DEF Modes
<1>4. /\ n \in Sizes /\ turn[y] = "write" /\ wr[y].st = "EXIT"
      /\ o.w \in Writers /\ o.w.st = "FRAMESENDED" /\ o.w.retrans = 0 /\ o.w.remain = n
      /\ o.w.pdata = wr[y].pdata /\ o.w.seqno = wr[y].seqno /\ o.w.cuts = wr[y].cuts
      /\ o.out = <<>> \/ o.out = <<make_dmframe(o.w, FALSE)>>
      /\ wr'[y] = o.w /\ wr'[x] = wr[x]
      /\ line'[y] = line[y] /\ line'[x] = line[x] \o o.out
      /\ turn'[y] = "write" /\ turn'[x] = turn[x]
      /\ faults' \in Nat /\ rd' = rd /\ got' = got
      /\ ends'[y] = Append(ends[y], LastByte(y) + n) /\ ends'[x] = ends[x]
      BY <1>1, <1>3 DEF WriteMove
<1>5. n \in Nat /\ n > 0 /\ n <= BufSize  BY <1>4, Constants DEF MessagesFit
<1>6. /\ wr[x] \in Writers /\ wr[y] \in Writers /\ rd[x] \in Readers /\ rd[y] \in Readers
      /\ line[x] \in Seq(Items) /\ line[y] \in Seq(Items) /\ got[x] \in Seq(Nat \ {0})
      /\ LastByte(x) \in Nat /\ LastByte(y) \in Nat /\ Prev(x) \in Nat /\ Received(x) \in Nat
      /\ turn[x] \in {"write", "read", "closed"}
      BY <1>1, ByteTypes DEF TypeOK
<1>7. /\ LastByte(y)' = LastByte(y) + n /\ Prev(y)' = LastByte(y)
      /\ LastByte(x)' = LastByte(x) /\ Prev(x)' = Prev(x)
      /\ Received(x)' = Received(x) /\ Received(y)' = Received(y)
  <2>1. /\ LastByte(y)' = LastByte(y) + n /\ Prev(y)' = LastByte(y)
        /\ LastByte(x)' = LastByte(x) /\ Prev(x)' = Prev(x)
        BY <1>1, <1>4, <1>5, WriteBytes
  <2>2. QED  BY <1>4, <2>1 DEF Received
<1>8. /\ WriterOK(wr[x], turn[x], LastByte(x)) /\ ReaderOK(rd[x], turn[x], got[x])
      /\ WriterOK(wr[y], turn[y], LastByte(y)) /\ ReaderOK(rd[y], turn[y], got[y])
      /\ ~Has(line[x], After(LastByte(y))) /\ ~Has(line[y], After(LastByte(x)))
  <2>1. \A z \in Ends : /\ WriterOK(wr[z], turn[z], LastByte(z)) /\ ReaderOK(rd[z], turn[z], got[z])
                        /\ ~Has(line[Peer(z)], After(LastByte(z)))
        BY DEF EndsOK
  <2>2. QED  BY <1>1, <2>1 DEF y
<1>9. /\ wr[y].remain = 0 /\ wr[y].pdata = LastByte(y) + 1
      /\ WriterOK(o.w, "write", LastByte(y) + n)
  <2>1. wr[y].remain = 0 /\ wr[y].pdata + wr[y].remain = LastByte(y) + 1
        BY <1>4, <1>8 DEF WriterOK
  <2>2. PICK i \in Nat, j \in Nat : i = wr[y].pdata /\ j = LastByte(y)  BY <1>6 DEF Writers
  <2>3. i = j + 1 /\ i + n = (j + n) + 1  BY <1>5, <2>1, <2>2
  <2>4. o.w.pdata + o.w.remain = (LastByte(y) + n) + 1  BY <1>4, <2>2, <2>3
  <2>5. o.w.remain > 0 /\ o.w.retrans < MaxRetries  BY <1>4, <1>5, Constants
  <2>6. QED  BY <1>4, <1>8, <2>1, <2>2, <2>3, <2>4, <2>5 DEF WriterOK
<1>10. OneOrNone(o.out, LastByte(y) + 1, LastByte(y) + n)
  <2>1. CASE o.out = <<>>  BY <2>1 DEF OneOrNone
  <2>2. CASE o.out = <<make_dmframe(o.w, FALSE)>>
    <3>1. LastByte(y) + n \in Nat /\ o.w.remain > 0  BY <1>4, <1>5, <1>6
    <3>2. make_dmframe(o.w, FALSE) \in Frames /\ make_dmframe(o.w, FALSE).first = o.w.pdata
          BY <1>4, <1>9, <3>1, SentFrame
    <3>3. PICK f \in Frames : o.out = <<f>> /\ f.first = o.w.pdata  BY <2>2, <3>2
    <3>4. f.first = LastByte(y) + 1 /\ f.first <= LastByte(y) + n  BY <1>4, <1>5, <1>6, <1>9, <3>3
    <3>5. QED  BY <3>3, <3>4 DEF OneOrNone
  <2>3. QED  BY <1>4, <2>1, <2>2
<1>11. /\ o.out \in Seq(Items) /\ ~Has(o.out, Replies) /\ ~Has(o.out, UpTo(LastByte(y)))
       /\ ~Has(o.out, After(LastByte(y) + n))
  <2>1. CASE o.out = <<>>
    <3>1. /\ <<>> \in Seq(Items) /\ ~Has(<<>>, Replies) /\ ~Has(<<>>, UpTo(LastByte(y)))
          /\ ~Has(<<>>, After(LastByte(y) + n))
          BY NoItem
    <3>2. QED  BY <2>1, <3>1
  <2>2. CASE o.out # <<>>
    <3>1. PICK f \in Frames : o.out = <<f>> /\ f.first = LastByte(y) + 1 /\ f.first <= LastByte(y) + n
          BY <1>10, <2>2 DEF OneOrNone
    <3>2. f \notin Replies /\ f \in Items  BY ItemKinds, 0 \in Nat
    <3>3. f \notin UpTo(LastByte(y)) /\ f \notin After(LastByte(y) + n)
          BY <1>5, <1>6, <3>1 DEF UpTo, After
    <3>4. QED  BY <3>1, <3>2, <3>3, OneItem
  <2>3. QED  BY <2>1, <2>2
<1>12. EndsOK'
  <2>1. ~Has(line'[x], After(LastByte(y) + n))
    <3>1. ~Has(line[x], After(LastByte(y) + n))
      <4>1. \A f \in Frames : f.first \in Nat  BY DEF Frames
      <4>2. After(LastByte(y) + n) \subseteq After(LastByte(y))  BY <1>5, <1>6, <4>1 DEF After
      <4>3. QED  BY <1>8, <4>2 DEF Has
    <3>2. QED  BY <1>4, <1>6, <1>11, <3>1, HasJoin
  <2>2. /\ WriterOK(wr'[y], turn'[y], LastByte(y)') /\ ReaderOK(rd'[y], turn'[y], got'[y])
        /\ ~Has(line'[x], After(LastByte(y)'))
        BY <1>4, <1>7, <1>8, <1>9, <2>1
  <2>3. /\ WriterOK(wr'[x], turn'[x], LastByte(x)') /\ ReaderOK(rd'[x], turn'[x], got'[x])
        /\ ~Has(line'[y], After(LastByte(x)'))
        BY <1>4, <1>7, <1>8
  <2>4. EndsOK' <=> \A z \in Ends : /\ WriterOK(wr'[z], turn'[z], LastByte(z)')
                                    /\ ReaderOK(rd'[z], turn'[z], got'[z])
                                    /\ ~Has(line'[Peer(z)], After(LastByte(z)'))
        BY DEF EndsOK, WriterOK, ReaderOK, Has, After
  <2>5. QED  BY <1>1, <2>2, <2>3, <2>4 DEF y
<1>13. ~Writing(y) /\ Idle(y)  BY <1>4 DEF Writing, Idle
<1>14. /\ Received(x) = LastByte(y) /\ rd[x].no = Len(wr[y].cuts) /\ rd[x].buf = <<>>
       /\ rd[x].st \in {"EXIT", "WAITSOH"} /\ Received(y) = LastByte(x)
  <2>1. Received(x) = LastByte(y) /\ rd[x].no = Len(wr[y].cuts) + 0
        BY <1>2, <1>4, <1>13 DEF Answered
  <2>2. Len(wr[y].cuts) \in Nat  BY <1>6 DEF Writers
  <2>3. QED  BY <1>2, <1>13, <2>1, <2>2 DEF Modes
<1>15. Modes(y, x)'
  <2>1. rd[y].st = "EXIT" /\ rd[y].buf = <<>>  BY <1>4, <1>8 DEF ReaderOK
  <2>2. ~Idle(x)'  BY <1>2, <1>4 DEF Idle, Modes
  <2>3. QED  BY <1>4, <2>1, <2>2 DEF Modes
<1>16. Room(y, x)'
  <2>1. Len(got[x]) = LastByte(y)  BY <1>6, <1>14 DEF Received
  <2>2. LastByte(y) <= LastByte(y) + n /\ LastByte(y) + n <= LastByte(y) + BufSize
        /\ LastByte(y) < LastByte(y) + 1 /\ LastByte(y) <= LastByte(y)
        BY <1>5, <1>6, Constants
  <2>3. QED  BY <1>4, <1>7, <1>9, <2>1, <2>2 DEF Room
<1>17. Answered(y, x)'
  <2>1. Writing(x)' <=> Writing(x)  BY <1>4 DEF Writing
  <2>2. InStep(wr[x], rd[y].no, LastByte(x))  BY <1>2, <1>14 DEF Exchange, Exchanging
  <2>3. rd[y].no \in Nat \ {0}  BY <1>6 DEF Readers
  <2>4. /\ wr[x].remain > 0 => rd[y].no = Len(wr[x].cuts) + 1 /\ wr[x].remain <= MaxData
        /\ wr[x].remain = 0 => rd[y].no = Len(wr[x].cuts)
        BY <1>6, <1>8, <2>2, <2>3, WholeReceived
  <2>5. turn[x] # "closed" /\ ~Writing(x) => wr[x].remain = 0
        BY <1>2, <1>6, <1>8 DEF Modes, WriterOK, Writing
  <2>6. Writing(x) => wr[x].remain > 0  BY <1>8 DEF WriterOK, Writing
  <2>7. Len(wr[x].cuts) + 0 = Len(wr[x].cuts)
    <3>1. Len(wr[x].cuts) \in Nat  BY <1>6 DEF Writers
    <3>2. QED  BY <3>1
  <2>8. QED  BY <1>4, <1>7, <1>14, <2>1, <2>4, <2>5, <2>6, <2>7 DEF Answered
<1>18. Exchange(y, x)'
  <2>1. PICK k \in Nat, p \in Nat, m \in Nat, last \in Nat :
            k = Received(x) /\ p = LastByte(y) /\ m = faults' /\ last = LastByte(y) + n
    <3>1. LastByte(y) + n \in Nat /\ faults' \in Nat  BY <1>4, <1>5, <1>6
    <3>2. QED  BY <1>6, <3>1
  <2>2. /\ WriterOK(o.w, "write", last) /\ o.w.remain > 0 /\ rd[x].no = Len(o.w.cuts)
        /\ rd[x].st \in {"EXIT", "WAITSOH"} /\ k + 1 = o.w.pdata /\ p < o.w.pdata
        /\ ~Has(line[y], Replies) /\ ~Has(line[x], After(p))
        /\ o.w \in Writers /\ rd[x] \in Readers /\ line[x] \in Seq(Items) /\ line[y] \in Seq(Items)
        BY <1>2, <1>4, <1>5, <1>6, <1>8, <1>9, <1>13, <1>14, <2>1 DEF Lines
  <2>3. /\ Exchanging(o.w, rd[x], k, line[y], line[x], p, m)
        /\ Exchanging(o.w, rd[x], k, line[y], line[x] \o <<make_dmframe(o.w, FALSE)>>, p, m)
        BY <2>2, NewExchange
  <2>4. line[x] \o <<>> = line[x]  BY <1>6
  <2>5. Exchanging(o.w, rd[x], k, line[y], line[x] \o o.out, p, m)
    <3>1. CASE o.out = <<>>  BY <2>3, <2>4, <3>1
    <3>2. CASE o.out = <<make_dmframe(o.w, FALSE)>>
      <4> DEFINE f == make_dmframe(o.w, FALSE)
      <4>1. Exchanging(o.w, rd[x], k, line[y], line[x] \o <<f>>, p, m) /\ o.out = <<f>>
            BY <2>3, <3>2
      <4> HIDE DEF f
      <4>2. QED  BY <4>1
    <3>3. QED  BY <1>4, <3>1, <3>2
  <2>6. QED  BY <1>4, <1>7, <2>1, <2>5 DEF Exchange
<1>19. Lines(turn[y], turn[x], Writing(x), Idle(x), line[y], line[x], Prev(y))'
  <2>1. Lines(turn[x], turn[y], FALSE, TRUE, line[x], line[y], Prev(x))  BY <1>2, <1>13 DEF Lines
  <2>2. Lines("write", turn[x], Writing(x)', FALSE, line[y], line[x] \o o.out, LastByte(y))
    <3> DEFINE wx == Writing(x)'
    <3> HIDE DEF wx
    <3>1. Lines("write", turn[x], wx, FALSE, line[y], line[x] \o o.out, LastByte(y))
          BY <1>6, <1>8, <1>11, <2>1, NewLines
    <3>2. QED  BY <3>1 DEF wx
  <2>3. ~Idle(x)'  BY <1>2, <1>4 DEF Idle, Modes
  <2>4. QED  BY <1>4, <1>7, <2>2, <2>3 DEF Lines
<1>20. LinkAt(y, x)'  BY <1>15, <1>16, <1>17, <1>18, <1>19 DEF LinkAt
<1>21. QED  BY <1>3, <1>12, <1>20 DEF y

-----------------------------------------------------------------------------
(* The timer thread, and the damages of the line.                            *)

\* Whatever the invariant reads of the two ends is the same.
LEMMA NothingNew ==
    ASSUME NEW x \in Ends, EndsOK, LinkAt(x, Peer(x)),
           \A e \in Ends : /\ SameNumbers(wr'[e], wr[e]) /\ wr'[e].st = wr[e].st
                           /\ wr'[e].retrans = wr[e].retrans
                           /\ SameReader(rd'[e], rd[e]) /\ rd'[e].buf = rd[e].buf
                           /\ rd'[e].readed = rd[e].readed,
           line' = line, turn' = turn, ends' = ends, got' = got, faults' = faults
    PROVE  EndsOK' /\ LinkAt(x, Peer(x))'
<1> DEFINE y == Peer(x)
<1>1. y \in Ends /\ y # x /\ Peer(y) = x  BY Two
<1>2. \A e \in Ends : /\ LastByte(e)' = LastByte(e) /\ Prev(e)' = Prev(e) /\ Received(e)' = Received(e)
                      /\ Writing(e)' = Writing(e) /\ Idle(e)' = Idle(e)
      BY DEF LastByte, Prev, Received, Writing, Idle
<1>3. ASSUME NEW e \in Ends
      PROVE  /\ WriterOK(wr'[e], turn'[e], LastByte(e)') /\ ReaderOK(rd'[e], turn'[e], got'[e])
             /\ ~Has(line'[Peer(e)], After(LastByte(e)'))
  <2>1. /\ WriterOK(wr[e], turn[e], LastByte(e)) /\ ReaderOK(rd[e], turn[e], got[e])
        /\ ~Has(line[Peer(e)], After(LastByte(e)))
        BY DEF EndsOK
  <2>2. WriterOK(wr'[e], turn[e], LastByte(e))  BY <2>1 DEF WriterOK, SameNumbers
  <2>3. ReaderOK(rd'[e], turn[e], got[e])  BY <2>1 DEF ReaderOK, SameReader
  <2>4. QED  BY <1>2, <2>1, <2>2, <2>3
<1>4. EndsOK'
  <2>1. EndsOK' <=> \A z \in Ends : /\ WriterOK(wr'[z], turn'[z], LastByte(z)')
                                    /\ ReaderOK(rd'[z], turn'[z], got'[z])
                                    /\ ~Has(line'[Peer(z)], After(LastByte(z)'))
        BY DEF EndsOK, WriterOK, ReaderOK, Has, After
  <2>2. QED  BY <1>3, <2>1
<1> HIDE DEF y
<1>5. /\ Modes(x, y) /\ Room(x, y) /\ Answered(x, y) /\ Exchange(x, y)
      /\ Lines(turn[x], turn[y], Writing(y), Idle(y), line[x], line[y], Prev(x))
      BY DEF LinkAt, y
<1>6. Modes(x, y)'  BY <1>1, <1>2, <1>5 DEF Modes, SameReader
<1>7. Room(x, y)'  BY <1>1, <1>2, <1>5 DEF Room, SameNumbers
<1>8. Answered(x, y)'  BY <1>1, <1>2, <1>5 DEF Answered, SameNumbers, SameReader
<1>9. Exchange(x, y)'
  <2>1. Exchanging(wr[x], rd[y], Received(y), line[x], line[y], Prev(x), faults)
        BY <1>5 DEF Exchange
  <2>2. Exchanging(wr'[x], rd'[y], Received(y), line[x], line[y], Prev(x), faults)
        BY <1>1, <2>1, SameExchange
  <2>3. QED  BY <1>1, <1>2, <2>2 DEF Exchange
<1>10. Lines(turn[x], turn[y], Writing(y), Idle(y), line[x], line[y], Prev(x))'
       BY <1>1, <1>2, <1>5 DEF Lines
<1>11. QED  BY <1>4, <1>6, <1>7, <1>8, <1>9, <1>10 DEF LinkAt, y

\* The timers only set flags.
LEMMA TimersMove ==
    ASSUME TypeOK, EndsOK, NEW x \in Ends, LinkAt(x, Peer(x)), NEW e \in Ends, TimerThread(e)
    PROVE  TypeOK' /\ EndsOK' /\ LinkAt(x, Peer(x))'
<1>1. /\ wr \in [Ends -> Writers] /\ rd \in [Ends -> Readers]  BY DEF TypeOK
<1>2. /\ line' = line /\ turn' = turn /\ err' = err /\ ends' = ends /\ got' = got
      /\ faults' = faults /\ garbled' = garbled /\ late' = late
      BY DEF TimerThread, OnlyFlags, txframe_timer_handler, txuplayer_timer_handler, rxuplayer_timer_handler
<1>3. \/ wr' = [wr EXCEPT ![e].frameTO = TRUE] /\ rd' = rd
      \/ wr' = [wr EXCEPT ![e].uplayerTO = TRUE] /\ rd' = rd
      \/ rd' = [rd EXCEPT ![e].uplayerTO = TRUE] /\ wr' = wr
      BY DEF TimerThread, txframe_timer_handler, txuplayer_timer_handler, rxuplayer_timer_handler
<1>4. /\ wr' \in [Ends -> Writers] /\ rd' \in [Ends -> Readers]
      /\ \A d \in Ends : /\ SameNumbers(wr'[d], wr[d]) /\ wr'[d].st = wr[d].st
                         /\ wr'[d].retrans = wr[d].retrans
                         /\ SameReader(rd'[d], rd[d]) /\ rd'[d].buf = rd[d].buf
                         /\ rd'[d].readed = rd[d].readed
  <2>1. CASE wr' = [wr EXCEPT ![e].frameTO = TRUE] /\ rd' = rd
        BY <1>1, <2>1 DEF Writers, SameNumbers, SameReader
  <2>2. CASE wr' = [wr EXCEPT ![e].uplayerTO = TRUE] /\ rd' = rd
        BY <1>1, <2>2 DEF Writers, SameNumbers, SameReader
  <2>3. CASE rd' = [rd EXCEPT ![e].uplayerTO = TRUE] /\ wr' = wr
        BY <1>1, <2>3 DEF Readers, SameNumbers, SameReader
  <2>4. QED  BY <1>3, <2>1, <2>2, <2>3
<1>5. TypeOK'
  <2>1. \A d \in Ends : Len(rd'[d].buf) <= BufSize  BY <1>4 DEF TypeOK
  <2>2. QED  BY <1>2, <1>4, <2>1 DEF TypeOK
<1>6. EndsOK' /\ LinkAt(x, Peer(x))'  BY <1>2, <1>4, NothingNew
<1>7. QED  BY <1>5, <1>6

\* How many items may have become able to draw an acknowledgement.
Renumbered(b) == IF b THEN 1 ELSE 0
FewMore(t, s, b) == \A p \in Nat : Count(t, Spurious(p)) <= Count(s, Spurious(p)) + Renumbered(b)

\* Sequence numbers were altered, now or before.
Alters(b) == garbled' \in BOOLEAN /\ (b \/ garbled => garbled')

\* A damage of the line to end e, of which t remains; b tells whether a sequence
\* number was altered.
LineMove(e, t, b) ==
    /\ t \in Seq(Items) /\ b \in BOOLEAN /\ Remains(t, line[e], b) /\ FewMore(t, line[e], b)
    /\ b => "seqno" \in Damages
    /\ Alters(b) /\ late' = late
    /\ line'[e] = t /\ line'[Peer(e)] = line[Peer(e)] /\ faults' = faults + 1
    /\ wr' = wr /\ rd' = rd /\ turn' = turn /\ ends' = ends /\ got' = got

\* Without renumbering, no item becomes one that draws an acknowledgement.
LEMMA NoneMore ==
    ASSUME NEW s \in Seq(Items), NEW t \in Seq(Items), Remains(t, s, FALSE)
    PROVE  FewMore(t, s, FALSE)
<1> SUFFICES ASSUME NEW p \in Nat
             PROVE  Count(t, Spurious(p)) <= Count(s, Spurious(p)) + 0
    BY DEF FewMore, Renumbered
<1>1. Count(t, Spurious(p)) <= Count(s, Spurious(p))  BY ClosedSpurious, RemainsCount
<1>2. Count(t, Spurious(p)) \in Nat /\ Count(s, Spurious(p)) \in Nat
  <2>1. Len(t) \in Nat /\ Len(s) \in Nat  OBVIOUS
  <2>2. QED  BY <2>1, CountType
<1>3. QED  BY <1>1, <1>2

\* Altering the head makes at most one more.
LEMMA OneMore ==
    ASSUME NEW s \in Seq(Items), s # <<>>, NEW g \in Items
    PROVE  FewMore(<<g>> \o Tail(s), s, TRUE)
<1> SUFFICES ASSUME NEW p \in Nat
             PROVE  Count(<<g>> \o Tail(s), Spurious(p)) <= Count(s, Spurious(p)) + 1
    BY DEF FewMore, Renumbered
<1> DEFINE t == <<g>> \o Tail(s)
           S == Spurious(p)
<1>1. t \in Seq(Items) /\ t # <<>> /\ Head(t) = g /\ Tail(t) = Tail(s) /\ Len(Tail(s)) \in Nat
  <2>1. t \in Seq(Items) /\ t # <<>> /\ Head(t) = g /\ Len(Tail(t)) = Len(Tail(s))
        /\ Tail(t) \in Seq(Items) /\ Tail(s) \in Seq(Items)
        /\ \A i \in 1..Len(Tail(t)) : Tail(t)[i] = Tail(s)[i]
        OBVIOUS
  <2> HIDE DEF t
  <2>2. Tail(t) = Tail(s)  BY <2>1, SeqEqual
  <2>3. QED  BY <2>1, <2>2
<1> HIDE DEF t, S
<1>2. Count(t, S) = Count(Tail(s), S) + (IF g \in S THEN 1 ELSE 0)
  <2>1. Count(t, S) = Count(Tail(t), S) + (IF Head(t) \in S THEN 1 ELSE 0)  BY <1>1, CountTail
  <2>2. QED  BY <1>1, <2>1
<1>3. Count(s, S) = Count(Tail(s), S) + (IF Head(s) \in S THEN 1 ELSE 0)  BY CountTail
<1>4. Count(Tail(s), S) \in Nat  BY <1>1, CountType
<1>5. QED  BY <1>2, <1>3, <1>4 DEF t, S

\* Items of the line, and what damage makes of them.
LEMMA DamagedItem ==
    ASSUME NEW h \in Items
    PROVE  /\ h.b \in AckBytes => Byte("junk") \in Items /\ Worse(Byte("junk"), h, FALSE)
           /\ h.b = "SOH" => h \in Frames
           /\ \A f \in Frames : /\ [f EXCEPT !.good = FALSE] \in Items
                                /\ Worse([f EXCEPT !.good = FALSE], f, FALSE)
           /\ \A f \in Frames, s \in 0..SeqMod - 1 :
                  /\ [f EXCEPT !.good = FALSE, !.seqno = s] \in Items
                  /\ Worse([f EXCEPT !.good = FALSE, !.seqno = s], f, TRUE)
<1>1. Byte("junk") \in Items  BY DEF Byte, Items, AckBytes
<1>2. h.b \in AckBytes => h \in Replies
  <2>1. \A f \in Frames : f.b \notin AckBytes  BY DEF Frames, AckBytes
  <2>2. QED  BY <2>1, ItemKinds, 0 \in Nat
<1>3. h.b = "SOH" => h \in Frames
  <2>1. \A f \in Replies : f.b # "SOH"  BY DEF Replies, AckBytes
  <2>2. QED  BY <2>1, ItemKinds, 0 \in Nat
<1>4. ASSUME NEW f \in Frames
      PROVE  /\ [f EXCEPT !.good = FALSE] \in Items
             /\ Worse([f EXCEPT !.good = FALSE], f, FALSE)
  <2> DEFINE g == [f EXCEPT !.good = FALSE]
  <2>1. g \in Frames /\ ~g.good /\ g.seqno = f.seqno /\ g.first = f.first /\ g.len = f.len
        /\ g.no = f.no /\ g.again = f.again
        BY DEF Frames
  <2> HIDE DEF g
  <2>2. g \in Items /\ Worse(g, f, FALSE)  BY <2>1 DEF Items, Worse
  <2>3. QED  BY <2>2 DEF g
<1>5. ASSUME NEW f \in Frames, NEW s \in 0..SeqMod - 1
      PROVE  /\ [f EXCEPT !.good = FALSE, !.seqno = s] \in Items
             /\ Worse([f EXCEPT !.good = FALSE, !.seqno = s], f, TRUE)
  <2> DEFINE g == [f EXCEPT !.good = FALSE, !.seqno = s]
  <2>1. g \in Frames /\ ~g.good /\ g.first = f.first /\ g.len = f.len
        /\ g.no = f.no /\ g.again = f.again
        BY DEF Frames
  <2> HIDE DEF g
  <2>2. g \in Items /\ Worse(g, f, TRUE)  BY <2>1 DEF Items, Worse
  <2>3. QED  BY <2>2 DEF g
<1>6. h.b \in AckBytes => Worse(Byte("junk"), h, FALSE)  BY <1>2 DEF Worse
<1>7. QED  BY <1>1, <1>3, <1>4, <1>5, <1>6

LEMMA LineMoves ==
    ASSUME TypeOK, NEW e \in Ends, Lose(e) \/ Garble(e)
    PROVE  TypeOK' /\ \E t, b : LineMove(e, t, b)
<1>1. /\ line \in [Ends -> Seq(Items)] /\ line[e] \in Seq(Items) /\ line[e] # <<>>
      /\ faults < MaxFaults /\ faults' = faults + 1
      /\ wr' = wr /\ rd' = rd /\ turn' = turn /\ err' = err /\ ends' = ends /\ got' = got
      /\ late' = late
      BY DEF TypeOK, Lose, Garble
<1>2. PICK t \in Seq(Items), b \in BOOLEAN :
        /\ Remains(t, line[e], b) /\ FewMore(t, line[e], b) /\ (b => "seqno" \in Damages)
        /\ line' = [line EXCEPT ![e] = t] /\ Alters(b)
  <2> DEFINE s == line[e]
             h == Head(s)
  <2>1. s \in Seq(Items) /\ s # <<>> /\ Tail(s) \in Seq(Items) /\ h \in Items /\ garbled \in BOOLEAN
        BY <1>1, RemainsTail DEF TypeOK
  <2>2. CASE Lose(e)
    <3>1. line' = [line EXCEPT ![e] = Tail(s)] /\ garbled' = garbled  BY <2>2 DEF Lose
    <3>2. Remains(Tail(s), s, FALSE)  BY <2>1, RemainsTail
    <3>3. FewMore(Tail(s), s, FALSE)  BY <2>1, <3>2, NoneMore
    <3>4. Alters(FALSE)  BY <2>1, <3>1 DEF Alters
    <3>5. QED  BY <2>1, <3>1, <3>2, <3>3, <3>4
  <2>3. ASSUME NEW g \in Items, NEW b \in BOOLEAN, Worse(g, h, b), b => "seqno" \in Damages,
               line' = [line EXCEPT ![e] = <<g>> \o Tail(s)], Alters(b)
        PROVE  \E t \in Seq(Items), c \in BOOLEAN :
                 /\ Remains(t, line[e], c) /\ FewMore(t, line[e], c) /\ (c => "seqno" \in Damages)
                 /\ line' = [line EXCEPT ![e] = t] /\ Alters(c)
    <3> DEFINE t == <<g>> \o Tail(s)
    <3>1. t \in Seq(Items) /\ Remains(t, s, b)  BY <2>1, <2>3, RemainsDamaged
    <3>2. FewMore(t, s, b)
      <4>1. CASE b = TRUE  BY <2>1, <4>1, OneMore
      <4>2. CASE b = FALSE  BY <2>1, <3>1, <4>2, NoneMore
      <4>3. QED  BY <4>1, <4>2
    <3> HIDE DEF t
    <3>3. line' = [line EXCEPT ![e] = t]  BY <2>3 DEF t
    <3>4. QED  BY <2>3, <3>1, <3>2, <3>3
  <2>4. CASE Garble(e)
    <3>1. \/ h.b \in AckBytes /\ line' = [line EXCEPT ![e] = <<Byte("junk")>> \o Tail(s)]
             /\ garbled' = garbled
          \/ h.b = "SOH" /\ line' = [line EXCEPT ![e] = <<[h EXCEPT !.good = FALSE]>> \o Tail(s)]
             /\ garbled' = garbled
          \/ /\ "seqno" \in Damages /\ h.b = "SOH" /\ garbled' = TRUE
             /\ \E q \in 0..SeqMod - 1 :
                    line' = [line EXCEPT ![e] = <<[h EXCEPT !.good = FALSE, !.seqno = q]>> \o Tail(s)]
          BY <2>4 DEF Garble
    <3>2. CASE h.b \in AckBytes /\ line' = [line EXCEPT ![e] = <<Byte("junk")>> \o Tail(s)]
               /\ garbled' = garbled
      <4>1. Byte("junk") \in Items /\ Worse(Byte("junk"), h, FALSE)  BY <2>1, <3>2, DamagedItem
      <4>2. Alters(FALSE)  BY <2>1, <3>2 DEF Alters
      <4>3. QED  BY <2>3, <3>2, <4>1, <4>2
    <3>3. CASE h.b = "SOH" /\ line' = [line EXCEPT ![e] = <<[h EXCEPT !.good = FALSE]>> \o Tail(s)]
               /\ garbled' = garbled
      <4>1. h \in Frames  BY <2>1, <3>3, DamagedItem
      <4> DEFINE g == [h EXCEPT !.good = FALSE]
      <4>2. g \in Items /\ Worse(g, h, FALSE)  BY <2>1, <4>1, DamagedItem
      <4>3. Alters(FALSE)  BY <2>1, <3>3 DEF Alters
      <4>4. line' = [line EXCEPT ![e] = <<g>> \o Tail(s)]  BY <3>3
      <4> HIDE DEF g
      <4>5. QED  BY <2>3, <4>2, <4>3, <4>4
    <3>4. CASE /\ "seqno" \in Damages /\ h.b = "SOH" /\ garbled' = TRUE
               /\ \E q \in 0..SeqMod - 1 :
                      line' = [line EXCEPT ![e] = <<[h EXCEPT !.good = FALSE, !.seqno = q]>> \o Tail(s)]
      <4>1. h \in Frames  BY <2>1, <3>4, DamagedItem
      <4>2. PICK q \in 0..SeqMod - 1 :
                line' = [line EXCEPT ![e] = <<[h EXCEPT !.good = FALSE, !.seqno = q]>> \o Tail(s)]
            BY <3>4
      <4> DEFINE g == [h EXCEPT !.good = FALSE, !.seqno = q]
      <4>3. g \in Items /\ Worse(g, h, TRUE)  BY <2>1, <4>1, DamagedItem
      <4>4. line' = [line EXCEPT ![e] = <<g>> \o Tail(s)]  BY <4>2
      <4> HIDE DEF g
      <4>5. Alters(TRUE)  BY <3>4 DEF Alters
      <4>6. QED  BY <2>3, <3>4, <4>3, <4>4, <4>5
    <3>5. QED  BY <3>1, <3>2, <3>3, <3>4
  <2>5. QED  BY <2>2, <2>4
<1>3. line' \in [Ends -> Seq(Items)] /\ line'[e] = t /\ line'[Peer(e)] = line[Peer(e)]
      BY <1>1, <1>2, Two
<1>4. faults' \in 0..MaxFaults  BY <1>1, Constants DEF TypeOK
<1>5. TypeOK'  BY <1>1, <1>2, <1>3, <1>4 DEF TypeOK, Alters
<1>6. LineMove(e, t, b)  BY <1>1, <1>2, <1>3 DEF LineMove
<1>7. QED  BY <1>5, <1>6

\* The exchange goes on after a damage: with a number altered, one more
\* acknowledgement is allowed for.
LEMMA ExchangeDamaged ==
    ASSUME NEW w \in Writers, NEW r \in Readers, NEW k, NEW p \in Nat, NEW n \in Nat,
           NEW lx \in Seq(Items), NEW ly \in Seq(Items),
           NEW a \in BOOLEAN, NEW kx \in Seq(Items), Remains(kx, lx, a),
           NEW b \in BOOLEAN, NEW ky \in Seq(Items), Remains(ky, ly, b), FewMore(ky, ly, b),
           b => "seqno" \in Damages, Exchanging(w, r, k, lx, ly, p, n)
    PROVE  Exchanging(w, r, k, kx, ky, p, n + 1)
<1>1. InStep(w, r.no, k)  BY DEF Exchanging
<1>2. FramesOK(ky, w, r.no, p) /\ Ordered(ky, p)
  <2>1. FramesOK(ly, w, r.no, p) /\ Ordered(ly, p)  BY DEF Exchanging
  <2>2. QED  BY <2>1, FramesRemain
<1>3. Count(kx, Acks) <= Count(lx, Acks)  BY ClosedSets, RemainsCount
<1>4. Count(ky, Spurious(p)) <= Count(ly, Spurious(p)) + Renumbered(b)  BY DEF FewMore
<1>5. Ahead(w, r, kx, ky, p) <= Allowed(w, n + 1)
  <2>1. /\ Count(lx, Acks) \in Nat /\ Count(ly, Spurious(p)) \in Nat /\ Len(w.cuts) \in Nat
        /\ r.no \in Nat /\ Count(kx, Acks) \in Nat /\ Count(ky, Spurious(p)) \in Nat
        BY AheadType
  <2> DEFINE d == Renumbered(b)
  <2>2. d \in Int  BY DEF Renumbered
  <2>3. Allowed(w, n) \in Nat /\ Allowed(w, n + 1) \in Nat /\ Allowed(w, n + 1) >= Allowed(w, n) + d
    <3>1. w.retrans >= w.retrans /\ n + 1 \in Nat /\ n + 1 >= n  BY DEF Writers
    <3>2. Allowed(w, n) \in Nat /\ Allowed(w, n + 1) \in Nat /\ Allowed(w, n + 1) >= Allowed(w, n)
          BY <3>1, AllowedType
    <3>3. "seqno" \in Damages => Allowed(w, n + 1) = Allowed(w, n) + 1  BY AllowedType
    <3> DEFINE u == Allowed(w, n)
               v == Allowed(w, n + 1)
    <3> HIDE DEF u, v
    <3>4. v >= u + d  BY <3>2, <3>3 DEF Renumbered, u, v
    <3>5. QED  BY <3>2, <3>4 DEF u, v
  <2>4. Ahead(w, r, lx, ly, p) <= Allowed(w, n)  BY DEF Exchanging
  <2> DEFINE q == IF r.st = "DISCARDRETRANS" THEN 1 ELSE 0
             h == Len(w.cuts) - r.no
             c == Count(lx, Acks)
             e == Count(kx, Acks)
             f == Count(ly, Spurious(p))
             g == Count(ky, Spurious(p))
  <2>5. h \in Int /\ q \in Nat /\ c \in Nat /\ e \in Nat /\ f \in Nat /\ g \in Nat /\ e <= c /\ g <= f + d
        BY <1>3, <1>4, <2>1
  <2> HIDE DEF d, q, h, c, e, f, g
  <2>6. h + e + q + g <= h + c + q + f + d  BY <2>2, <2>5
  <2> USE DEF q, h, c, e, f, g
  <2>7. QED  BY <2>2, <2>3, <2>4, <2>6, AheadCompare
<1>6. QED  BY <1>1, <1>2, <1>5 DEF Exchanging

\* A damage of the line leaves the ends alone, and who owns the exchange.
LEMMA LineLink ==
    ASSUME TypeOK, EndsOK, NEW x \in Ends, LinkAt(x, Peer(x)),
           NEW e \in Ends, NEW t, NEW b, LineMove(e, t, b)
    PROVE  EndsOK' /\ LinkAt(x, Peer(x))'
<1> DEFINE y == Peer(x)
<1>1. y \in Ends /\ y # x /\ Peer(y) = x /\ (e = x \/ e = y) /\ Peer(e) \in Ends /\ Peer(e) # e  BY Two
<1>2. /\ line \in [Ends -> Seq(Items)] /\ wr[x] \in Writers /\ rd[y] \in Readers /\ faults \in Nat
      BY <1>1, Constants DEF TypeOK
<1>3. \A d \in Ends : /\ LastByte(d)' = LastByte(d) /\ Prev(d)' = Prev(d) /\ Received(d)' = Received(d)
                      /\ Writing(d)' = Writing(d) /\ Idle(d)' = Idle(d)
                      /\ Prev(d) \in Nat /\ LastByte(d) \in Nat
  <2>1. ends \in [Ends -> Seq(Nat \ {0})]  BY DEF TypeOK
  <2>2. \A d \in Ends : Prev(d) \in Nat /\ LastByte(d) \in Nat  BY <2>1 DEF Prev, LastByte
  <2>3. QED  BY <2>2 DEF LineMove, LastByte, Prev, Received, Writing, Idle
\* What remains of each line.
<1>4. \A d \in Ends : \E c \in BOOLEAN :
        /\ line'[d] \in Seq(Items) /\ Remains(line'[d], line[d], c) /\ FewMore(line'[d], line[d], c)
        /\ c => "seqno" \in Damages
  <2>1. /\ line'[e] \in Seq(Items) /\ Remains(line'[e], line[e], b) /\ FewMore(line'[e], line[e], b)
        /\ b \in BOOLEAN /\ (b => "seqno" \in Damages)
        BY DEF LineMove
  <2>2. \A d \in Ends : d = e \/ d = Peer(e)  BY Two
  <2>3. /\ line'[Peer(e)] = line[Peer(e)] /\ line[Peer(e)] \in Seq(Items)
        BY <1>1, <1>2 DEF LineMove
  <2>4. Remains(line[Peer(e)], line[Peer(e)], FALSE)  BY <2>3, RemainsTail
  <2>5. FewMore(line[Peer(e)], line[Peer(e)], FALSE)  BY <2>3, <2>4, NoneMore
  <2>6. QED  BY <2>1, <2>2, <2>3, <2>4, <2>5
<1>5. \A d \in Ends : line[d] \in Seq(Items)  BY <1>2
<1>6. \A d \in Ends, n \in Nat : /\ Has(line'[d], After(n)) => Has(line[d], After(n))
                                 /\ Has(line'[d], UpTo(n)) => Has(line[d], UpTo(n))
                                 /\ Has(line'[d], Replies) => Has(line[d], Replies)
                                 /\ Has(line'[d], Frames) => Has(line[d], Frames)
  <2> SUFFICES ASSUME NEW d \in Ends, NEW n \in Nat
               PROVE  /\ Has(line'[d], After(n)) => Has(line[d], After(n))
                      /\ Has(line'[d], UpTo(n)) => Has(line[d], UpTo(n))
                      /\ Has(line'[d], Replies) => Has(line[d], Replies)
                      /\ Has(line'[d], Frames) => Has(line[d], Frames)
      OBVIOUS
  <2>1. PICK c \in BOOLEAN : line'[d] \in Seq(Items) /\ Remains(line'[d], line[d], c)  BY <1>4
  <2>2. line[d] \in Seq(Items)  BY <1>5
  <2>3. /\ Closed(Replies, c) /\ Closed(Frames, c) /\ Closed(After(n), c) /\ Closed(UpTo(n), c)
        BY ClosedSets
  <2>4. QED  BY <2>1, <2>2, <2>3, RemainsHas
<1>7. EndsOK'
  <2>1. ASSUME NEW z \in Ends
        PROVE  /\ WriterOK(wr'[z], turn'[z], LastByte(z)') /\ ReaderOK(rd'[z], turn'[z], got'[z])
               /\ ~Has(line'[Peer(z)], After(LastByte(z)'))
    <3>1. Peer(z) \in Ends  BY Two
    <3>2. /\ WriterOK(wr[z], turn[z], LastByte(z)) /\ ReaderOK(rd[z], turn[z], got[z])
          /\ ~Has(line[Peer(z)], After(LastByte(z)))
          BY DEF EndsOK
    <3>3. wr' = wr /\ rd' = rd /\ turn' = turn /\ got' = got  BY DEF LineMove
    <3>4. QED  BY <1>3, <1>6, <3>1, <3>2, <3>3
  <2>2. EndsOK' <=> \A z \in Ends : /\ WriterOK(wr'[z], turn'[z], LastByte(z)')
                                    /\ ReaderOK(rd'[z], turn'[z], got'[z])
                                    /\ ~Has(line'[Peer(z)], After(LastByte(z)'))
        BY DEF EndsOK, WriterOK, ReaderOK, Has, After
  <2>3. QED  BY <2>1, <2>2
<1> HIDE DEF y
<1>8. /\ Modes(x, y) /\ Room(x, y) /\ Answered(x, y) /\ Exchange(x, y)
      /\ Lines(turn[x], turn[y], Writing(y), Idle(y), line[x], line[y], Prev(x))
      BY DEF LinkAt, y
<1>9. wr' = wr /\ rd' = rd /\ turn' = turn /\ got' = got /\ faults' = faults + 1  BY DEF LineMove
<1>10. Modes(x, y)'  BY <1>1, <1>3, <1>8, <1>9 DEF Modes
<1>11. Room(x, y)'  BY <1>1, <1>3, <1>8, <1>9 DEF Room
<1>12. Answered(x, y)'  BY <1>1, <1>3, <1>8, <1>9 DEF Answered
<1>13. PICK a \in BOOLEAN : line'[x] \in Seq(Items) /\ Remains(line'[x], line[x], a)  BY <1>4
<1>14. PICK c \in BOOLEAN : /\ line'[y] \in Seq(Items) /\ Remains(line'[y], line[y], c)
                            /\ FewMore(line'[y], line[y], c) /\ (c => "seqno" \in Damages)
       BY <1>1, <1>4
<1>15. Exchange(x, y)'
  <2>1. Exchanging(wr[x], rd[y], Received(y), line[x], line[y], Prev(x), faults)
        BY <1>8 DEF Exchange
  <2>2. line[x] \in Seq(Items) /\ line[y] \in Seq(Items) /\ Prev(x) \in Nat  BY <1>1, <1>3, <1>5
  <2>3. Exchanging(wr[x], rd[y], Received(y), line'[x], line'[y], Prev(x), faults + 1)
        BY <1>2, <1>13, <1>14, <2>1, <2>2, ExchangeDamaged
  <2>4. QED  BY <1>1, <1>3, <1>9, <2>3 DEF Exchange
<1>16. Lines(turn[x], turn[y], Writing(y), Idle(y), line[x], line[y], Prev(x))'
  <2> DEFINE p == Prev(x)
  <2>1. p \in Nat /\ line[x] \in Seq(Items) /\ line[y] \in Seq(Items)  BY <1>1, <1>3, <1>5
  <2>2. /\ Closed(Replies, a) /\ Closed(Frames, a) /\ Closed(Replies, c) /\ Closed(After(p), c)
        /\ Closed(UpTo(p), c)
        BY <2>1, ClosedSets
  <2>3. ~Before(line[x], Replies, Frames) /\ ~Before(line[y], After(p), Replies)
        /\ ~Before(line[y], Replies, UpTo(p))
        BY <1>8 DEF Lines
  <2>4. ~Before(line'[x], Replies, Frames)  BY <1>13, <2>1, <2>2, <2>3, RemainsBefore
  <2>5. ~Before(line'[y], After(p), Replies) /\ ~Before(line'[y], Replies, UpTo(p))
        BY <1>14, <2>1, <2>2, <2>3, RemainsBefore
  <2>6. Lines(turn[x], turn[y], Writing(y), Idle(y), line'[x], line'[y], p)
        BY <1>1, <1>6, <1>8, <2>1, <2>4, <2>5 DEF Lines
  <2>7. QED  BY <1>1, <1>3, <1>9, <2>6 DEF Lines
<1>17. QED  BY <1>7, <1>10, <1>11, <1>12, <1>15, <1>16 DEF LinkAt, y

-----------------------------------------------------------------------------
(* The invariant.                                                            *)

\* At first b owns an exchange that is over: a has received the nothing that b
\* wrote and is to write.
LEMMA InitInvariant ==
    ASSUME Init
    PROVE  IInv
<1>1. "a" \in Ends /\ "b" \in Ends /\ Peer("b") = "a" /\ Peer("a") = "b"  BY DEF Ends, Peer
<1>2. /\ line = [e \in Ends |-> <<>>] /\ ends = [e \in Ends |-> <<>>] /\ got = [e \in Ends |-> <<>>]
      /\ turn = [e \in Ends |-> IF e = "a" THEN "write" ELSE "read"] /\ faults = 0
      BY DEF Init
<1>3. \A e \in Ends : LastByte(e) = 0 /\ Prev(e) = 0  BY <1>2 DEF LastByte, Prev
<1> DEFINE w0 == [st |-> "EXIT", seqno |-> 1, retrans |-> 0, pdata |-> 1, remain |-> 0, timer |-> FALSE,
                  frameTO |-> FALSE, uplayerTO |-> FALSE, cuts |-> <<1>>]
           r0 == [st |-> "EXIT", next |-> 1, retrans |-> 0, readed |-> 0, buf |-> <<>>,
                  uplayerTO |-> FALSE, no |-> 1]
<1>4. \A e \in Ends : wr[e] = w0 /\ rd[e] = r0  BY DEF Init
<1>5. 1 \in 0..SeqMod - 1 /\ 1 % SeqMod = 1
  <2>1. SeqMod \in Nat /\ SeqMod > 1  BY Constants
  <2>2. QED  BY <2>1
<1>6. w0 \in Writers /\ r0 \in Readers
  <2>1. 0 \in 0..MaxRetries  BY Constants
  <2>2. <<1>> \in Seq(Nat \ {0}) /\ <<>> \in Seq(Nat \ {0})  OBVIOUS
  <2>3. QED  BY <1>5, <2>1, <2>2 DEF Writers, Readers
<1>7. /\ w0.st = "EXIT" /\ w0.seqno = 1 /\ w0.retrans = 0 /\ w0.pdata = 1 /\ w0.remain = 0
      /\ w0.cuts # <<>> /\ Len(w0.cuts) = 1 /\ w0.cuts[1] = 1
      /\ r0.st = "EXIT" /\ r0.next = 1 /\ r0.buf = <<>> /\ r0.no = 1 /\ Len(r0.buf) = 0
      OBVIOUS
<1>8. TypeOK
  <2>1. \A e \in Ends : Len(rd[e].buf) <= BufSize  BY <1>4, <1>7, Constants
  <2>2. wr \in [Ends -> Writers] /\ rd \in [Ends -> Readers]  BY <1>4, <1>6 DEF Init
  <2>3. faults \in 0..MaxFaults  BY <1>2, Constants
  <2>4. <<>> \in Seq(Items) /\ <<>> \in Seq(Nat \ {0})  OBVIOUS
  <2>5. line \in [Ends -> Seq(Items)] /\ ends \in [Ends -> Seq(Nat \ {0})] /\ got \in [Ends -> Seq(Nat \ {0})]
        BY <1>2, <2>4
  <2>6. QED  BY <2>1, <2>2, <2>3, <2>5 DEF Init, TypeOK
<1> HIDE DEF w0, r0
<1>9. EndsOK
  <2>1. \A e \in Ends : WriterOK(wr[e], turn[e], LastByte(e))
        BY <1>3, <1>4, <1>5, <1>7 DEF WriterOK
  <2>2. \A e \in Ends : ReaderOK(rd[e], turn[e], got[e])
        BY <1>2, <1>4, <1>5, <1>7 DEF ReaderOK
  <2>3. \A e \in Ends : Peer(e) \in Ends /\ line[Peer(e)] = <<>>  BY <1>2, Two
  <2>4. QED  BY <2>1, <2>2, <2>3, NoItem DEF EndsOK
<1>10. \A e \in Ends : Received(e) = 0  BY <1>2, <1>4, <1>7 DEF Received
<1>11. ~Writing("a") /\ ~Writing("b") /\ Idle("a")  BY <1>1, <1>2, <1>4, <1>7 DEF Writing, Idle
<1>12. turn["a"] = "write" /\ turn["b"] = "read" /\ line["a"] = <<>> /\ line["b"] = <<>>
       /\ wr["b"] = w0 /\ rd["b"] = r0 /\ wr["a"] = w0 /\ rd["a"] = r0
       /\ got["a"] = <<>> /\ Len(got["a"]) = 0
       BY <1>1, <1>2, <1>4
<1>13. Modes("b", "a")  BY <1>1, <1>3, <1>7, <1>10, <1>11, <1>12 DEF Modes
<1>14. Room("b", "a")  BY <1>1, <1>3, <1>7, <1>12, Constants DEF Room
<1>15. Lines(turn["b"], turn["a"], Writing("a"), Idle("a"), line["b"], line["a"], Prev("b"))
       BY <1>12, NoItem DEF Lines
<1>16. Answered("b", "a")
  <2>1. Received("b") = 0 /\ LastByte("a") = 0 /\ rd["b"].no = 1 /\ Len(wr["a"].cuts) = 1
        BY <1>1, <1>3, <1>7, <1>10, <1>12
  <2>2. rd["b"].no = Len(wr["a"].cuts) + (IF Writing("a") THEN 1 ELSE 0)  BY <1>11, <2>1
  <2>3. QED  BY <1>11, <2>1, <2>2 DEF Answered
<1>17. Exchange("b", "a")
  <2>1. InStep(w0, r0.no, 0)  BY <1>7 DEF InStep, Start
  <2>2. \A w, n, p : FramesOK(<<>>, w, n, p) /\ Ordered(<<>>, p)  BY DEF FramesOK, Ordered
  <2>3. \A S : Count(<<>>, S) = 0
    <3>1. Len(<<>>) \in Nat  OBVIOUS
    <3>2. QED  BY <3>1, CountNone, NoItem
  <2>4. Ahead(w0, r0, <<>>, <<>>, 0) = 0  BY <1>7, <2>3 DEF Ahead
  <2>5. Allowed(w0, 0) >= 0  BY <1>6, AllowedType
  <2>6. Exchanging(w0, r0, 0, <<>>, <<>>, 0, 0)  BY <2>1, <2>2, <2>4, <2>5 DEF Exchanging
  <2>7. QED  BY <1>1, <1>2, <1>3, <1>10, <1>12, <2>6 DEF Exchange
<1>18. LinkAt("b", "a")  BY <1>13, <1>14, <1>15, <1>16, <1>17 DEF LinkAt
<1>19. QED  BY <1>1, <1>8, <1>9, <1>18 DEF IInv

\* The steps after which the owner is the same, and the one that changes it.
SameOwner(x) ==
    \/ \E w, event, o, rest : EngineMove(x, w, event, o, rest)
    \/ \E w, event, o, rest : EngineMove(Peer(x), w, event, o, rest)
    \/ \E r, rest, out, t, h : ReaderMove(x, r, rest, out, t, h)
    \/ \E r, rest, out, t, h : ReaderMove(Peer(x), r, rest, out, t, h)
    \/ \E e \in Ends : \E t, b : LineMove(e, t, b)
    \/ \E e \in Ends : TimerThread(e)
    \/ vars' = vars
NewOwner(x) == \E n, o : WriteMove(Peer(x), n, o)

LEMMA StepLink ==
    ASSUME Distinguishes, MessagesFit, TypeOK, EndsOK, NEW x \in Ends, LinkAt(x, Peer(x)), [Next]_vars
    PROVE  /\ TypeOK' /\ EndsOK'
           /\ (SameOwner(x) /\ LinkAt(x, Peer(x))') \/ (NewOwner(x) /\ LinkAt(Peer(x), x)')
<1>1. ASSUME NEW e \in Ends, wr_wait_byte(e) \/ wr_wait_flag(e)
      PROVE  TypeOK' /\ EndsOK' /\ SameOwner(x) /\ LinkAt(x, Peer(x))'
  <2>1. TypeOK' /\ \E w, event, o, rest : EngineMove(e, w, event, o, rest)
        BY <1>1, EngineMoves
  <2>2. PICK w, event, o, rest : EngineMove(e, w, event, o, rest)  BY <2>1
  <2>3. EndsOK'  BY <2>2, EngineEnds
  <2>4. CASE e = x
    <3>1. EngineMove(x, w, event, o, rest)  BY <2>2, <2>4
    <3>2. LinkAt(x, Peer(x))'  BY <3>1, EngineOwner
    <3>3. QED  BY <2>1, <2>3, <3>1, <3>2 DEF SameOwner
  <2>5. CASE e = Peer(x)
    <3>1. EngineMove(Peer(x), w, event, o, rest)  BY <2>2, <2>5
    <3>2. LinkAt(x, Peer(x))'  BY <3>1, EngineOther
    <3>3. QED  BY <2>1, <2>3, <3>1, <3>2 DEF SameOwner
  <2>6. QED  BY <2>4, <2>5, Two
<1>2. ASSUME NEW e \in Ends,
             \/ dmodem_read(e) \/ rd_soh(e) \/ rd_discard_byte(e) \/ rd_quiet(e)
             \/ rd_exit_rxuplayerto(e)
      PROVE  TypeOK' /\ EndsOK' /\ SameOwner(x) /\ LinkAt(x, Peer(x))'
  <2>1. TypeOK' /\ \E r, rest, out, t, h : ReaderMove(e, r, rest, out, t, h)
        BY <1>2, ReaderMoves
  <2>2. PICK r, rest, out, t, h : ReaderMove(e, r, rest, out, t, h)  BY <2>1
  <2>3. CASE e = x
    <3>1. ReaderMove(x, r, rest, out, t, h)  BY <2>2, <2>3
    <3>2. EndsOK' /\ LinkAt(x, Peer(x))'  BY <3>1, ReaderOwner
    <3>3. QED  BY <2>1, <3>1, <3>2 DEF SameOwner
  <2>4. CASE e = Peer(x)
    <3>1. ReaderMove(Peer(x), r, rest, out, t, h)  BY <2>2, <2>4
    <3>2. EndsOK' /\ LinkAt(x, Peer(x))'  BY <3>1, ReaderOther
    <3>3. QED  BY <2>1, <3>1, <3>2 DEF SameOwner
  <2>5. QED  BY <2>3, <2>4, Two
<1>3. ASSUME NEW e \in Ends, dmodem_write(e)
      PROVE  TypeOK' /\ EndsOK' /\ NewOwner(x) /\ LinkAt(Peer(x), x)'
  <2>1. TypeOK' /\ \E n, o : WriteMove(e, n, o)  BY <1>3, WriteMoves
  <2>2. PICK n, o : WriteMove(e, n, o)  BY <2>1
  <2>3. EndsOK' /\ e = Peer(x) /\ LinkAt(Peer(x), x)'  BY <2>2, WriteLink
  <2>4. WriteMove(Peer(x), n, o)  BY <2>2, <2>3
  <2>5. QED  BY <2>1, <2>3, <2>4 DEF NewOwner
<1>4. ASSUME NEW e \in Ends, Lose(e) \/ Garble(e)
      PROVE  TypeOK' /\ EndsOK' /\ SameOwner(x) /\ LinkAt(x, Peer(x))'
  <2>1. TypeOK' /\ \E t, b : LineMove(e, t, b)  BY <1>4, LineMoves
  <2>2. PICK t, b : LineMove(e, t, b)  BY <2>1
  <2>3. EndsOK' /\ LinkAt(x, Peer(x))'  BY <2>2, LineLink
  <2>4. QED  BY <2>1, <2>2, <2>3 DEF SameOwner
<1>5. ASSUME NEW e \in Ends, TimerThread(e)
      PROVE  TypeOK' /\ EndsOK' /\ SameOwner(x) /\ LinkAt(x, Peer(x))'
      BY <1>5, TimersMove DEF SameOwner
<1>6. ASSUME vars' = vars
      PROVE  TypeOK' /\ EndsOK' /\ SameOwner(x) /\ LinkAt(x, Peer(x))'
  <2>1. /\ wr' = wr /\ rd' = rd /\ line' = line /\ turn' = turn /\ err' = err /\ ends' = ends
        /\ got' = got /\ faults' = faults /\ garbled' = garbled /\ late' = late
        BY <1>6 DEF vars
  <2>2. TypeOK'  BY <2>1 DEF TypeOK
  <2>3. \A e \in Ends : /\ SameNumbers(wr'[e], wr[e]) /\ wr'[e].st = wr[e].st
                        /\ wr'[e].retrans = wr[e].retrans
                        /\ SameReader(rd'[e], rd[e]) /\ rd'[e].buf = rd[e].buf
                        /\ rd'[e].readed = rd[e].readed
        BY <2>1 DEF SameNumbers, SameReader
  <2>4. EndsOK' /\ LinkAt(x, Peer(x))'  BY <2>1, <2>3, NothingNew
  <2>5. QED  BY <1>6, <2>2, <2>4 DEF SameOwner
<1>7. \/ \E e \in Ends : wr_wait_byte(e) \/ wr_wait_flag(e)
      \/ \E e \in Ends : \/ dmodem_read(e) \/ rd_soh(e) \/ rd_discard_byte(e) \/ rd_quiet(e)
                         \/ rd_exit_rxuplayerto(e)
      \/ \E e \in Ends : dmodem_write(e)
      \/ \E e \in Ends : Lose(e) \/ Garble(e)
      \/ \E e \in Ends : TimerThread(e)
      \/ vars' = vars
      BY DEF Next, Application, proto_engine
<1>8. QED  BY <1>1, <1>2, <1>3, <1>4, <1>5, <1>6, <1>7

\* Every step of an end, of the timers or of the line keeps it.
LEMMA StepInvariant ==
    ASSUME Distinguishes, MessagesFit, IInv, [Next]_vars
    PROVE  IInv'
<1>1. TypeOK /\ EndsOK  BY DEF IInv
<1>2. PICK x \in Ends : LinkAt(x, Peer(x))  BY DEF IInv
<1>3. Peer(x) \in Ends /\ Peer(Peer(x)) = x  BY Two
<1>4. TypeOK' /\ EndsOK' /\ (LinkAt(x, Peer(x))' \/ LinkAt(Peer(x), x)')
      BY <1>1, <1>2, StepLink
<1>5. LinkAt(Peer(x), x)' => LinkAt(Peer(x), Peer(Peer(x)))'  BY <1>3
<1>6. \E z \in Ends : LinkAt(z, Peer(z))'  BY <1>3, <1>4, <1>5
<1>7. QED  BY <1>4, <1>6 DEF IInv

\* The state stays within its types: the flags, the numbers of a byte and the
\* data buffer of both ends.
THEOREM LinkTypes == ASSUME Distinguishes, MessagesFit PROVE Spec => []TypeOK
<1>1. Init => IInv  BY InitInvariant
<1>2. IInv /\ [Next]_vars => IInv'  BY StepInvariant
<1>3. IInv => TypeOK  BY DEF IInv
<1>4. QED  BY <1>1, <1>2, <1>3, PTL DEF Spec

\* dmodem_read returns the bytes the other end wrote, in order, none twice and
\* none left out, for every length of message, number of retries and of damages.
THEOREM InOrderAlways == ASSUME Distinguishes, MessagesFit PROVE Spec => []InOrder
<1>1. Init => IInv  BY InitInvariant
<1>2. IInv /\ [Next]_vars => IInv'  BY StepInvariant
<1>3. IInv => InOrder  BY DEF IInv, EndsOK, ReaderOK, InOrder
<1>4. QED  BY <1>1, <1>2, <1>3, PTL DEF Spec

-----------------------------------------------------------------------------
(* Frames that are refused.                                                  *)

\* A sound frame that is neither expected nor repeated is a frame to come.
LEMMA RefusedFrame ==
    ASSUME NEW w \in Writers, NEW t, NEW last, WriterOK(w, t, last), NEW r \in Readers, NEW k \in Nat,
           InStep(w, r.no, k), r.next = r.no % SeqMod, r.next # 0,
           NEW f \in Frames, FrameOK(f, w, r.no), f.good, ~IsRetrans(r, f)
    PROVE  f.first > k
<1>1. /\ f.no \in Nat \ {0} /\ r.no \in Nat \ {0} /\ Len(w.cuts) \in Nat
      BY DEF Frames, Readers, Writers
<1>2. /\ f.no >= r.no - 1 /\ f.no <= Len(w.cuts) /\ f.first = Start(w, f.no)
      /\ f.seqno = f.no % SeqMod
      BY DEF FrameOK
<1>3. f.no # r.no - 1
  <2>1. SeqMod \in Nat /\ SeqMod > 1 /\ r.no % SeqMod # 0  BY Constants
  <2>2. (r.no - 1) % SeqMod = r.next - 1  BY <1>1, <2>1, ModBefore
  <2>3. QED  BY <1>2, <2>2 DEF IsRetrans
<1>4. f.no >= r.no  BY <1>1, <1>2, <1>3
<1>5. /\ Start(w, f.no) >= Start(w, r.no)
      /\ Start(w, f.no) \in Nat /\ Start(w, r.no) \in Nat
  <2>1. f.no \in 1..Len(w.cuts) + 1 /\ r.no \in 1..Len(w.cuts) + 1  BY <1>1, <1>2, <1>4
  <2>2. Start(w, f.no) \in Nat /\ Start(w, r.no) \in Nat
        /\ (r.no < f.no => Start(w, r.no) < Start(w, f.no))
        BY <1>2, <2>1, StartIncreases
  <2>3. QED  BY <1>1, <1>4, <2>2
<1>6. k + 1 = Start(w, r.no)  BY DEF InStep
<1>7. QED  BY <1>2, <1>5, <1>6

\* A reader only comes to discard bytes by a frame it does not take for a
\* repetition.
LEMMA Refusals ==
    ASSUME TypeOK, NEW e \in Ends, [Next]_vars, rd[e].st = "WAITSOH", rd'[e].st = "DISCARDBYTES"
    PROVE  /\ line[e] # <<>> /\ Head(line[e]).b = "SOH" /\ ~IsRetrans(rd[e], Head(line[e]))
<1>1. rd \in [Ends -> Readers]  BY DEF TypeOK
<1>2. rd' # rd
  <2>1. rd'[e].st # rd[e].st  OBVIOUS
  <2>2. QED  BY <2>1
<1>3. \E d \in Ends : dmodem_read(d) \/ rd_soh(d) \/ rd_discard_byte(d) \/ rd_quiet(d)
                      \/ rd_exit_rxuplayerto(d) \/ rxuplayer_timer_handler(d)
  <2>1. PICK d \in Ends : Application(d) \/ proto_engine(d) \/ TimerThread(d) \/ Lose(d) \/ Garble(d)
        BY <1>2 DEF Next, vars
  <2>2. ~dmodem_write(d) /\ ~wr_wait_byte(d) /\ ~wr_wait_flag(d)
        BY <1>2 DEF dmodem_write, wr_wait_byte, wr_wait_flag, WriterStep
  <2>3. ~Lose(d) /\ ~Garble(d)  BY <1>2 DEF Lose, Garble
  <2>4. ~txframe_timer_handler(d) /\ ~txuplayer_timer_handler(d)
        BY <1>2 DEF txframe_timer_handler, txuplayer_timer_handler
  <2>5. QED  BY <2>1, <2>2, <2>3, <2>4 DEF Application, proto_engine, TimerThread
<1>4. PICK d \in Ends : dmodem_read(d) \/ rd_soh(d) \/ rd_discard_byte(d) \/ rd_quiet(d)
                        \/ rd_exit_rxuplayerto(d) \/ rxuplayer_timer_handler(d)
      BY <1>3
<1>5. ~dmodem_read(d)
  <2>1. SUFFICES ASSUME dmodem_read(d) PROVE FALSE  OBVIOUS
  <2>2. rd' = [rd EXCEPT ![d] = [rd[d] EXCEPT !.st = "WAITSOH", !.retrans = 0, !.readed = 0,
                                              !.uplayerTO = FALSE]]
        BY <2>1 DEF dmodem_read, ReaderStep
  <2>3. QED  BY <1>1, <2>2 DEF Readers
<1>6. ~rd_discard_byte(d)
  <2>1. SUFFICES ASSUME rd_discard_byte(d) PROVE FALSE  OBVIOUS
  <2>2. rd' = [rd EXCEPT ![d] = IF rd[d].st = "WAITSOH" THEN [rd[d] EXCEPT !.retrans = 0] ELSE rd[d]]
        BY <2>1 DEF rd_discard_byte, ReaderStep
  <2>3. QED  BY <1>1, <2>2 DEF Readers
<1>7. ~rd_quiet(d)
  <2>1. SUFFICES ASSUME rd_quiet(d) PROVE FALSE  OBVIOUS
  <2>2. rd' = [rd EXCEPT ![d] = [rd[d] EXCEPT !.st = "WAITSOH"]]  BY <2>1 DEF rd_quiet, ReaderStep
  <2>3. QED  BY <1>1, <2>2 DEF Readers
<1>8. ~rd_exit_rxuplayerto(d)
  <2>1. SUFFICES ASSUME rd_exit_rxuplayerto(d) PROVE FALSE  OBVIOUS
  <2>2. rd' = [rd EXCEPT ![d] = [Returned(rd[d]) EXCEPT !.uplayerTO = FALSE]]
        BY <2>1 DEF rd_exit_rxuplayerto, ReaderStep
  <2>3. [Returned(rd[d]) EXCEPT !.uplayerTO = FALSE].st = "EXIT"  BY <1>1 DEF Returned, Readers
  <2>4. QED  BY <1>1, <2>2, <2>3
<1>9. ~rxuplayer_timer_handler(d)
  <2>1. SUFFICES ASSUME rxuplayer_timer_handler(d) PROVE FALSE  OBVIOUS
  <2>2. rd' = [rd EXCEPT ![d].uplayerTO = TRUE]  BY <2>1 DEF rxuplayer_timer_handler
  <2>3. QED  BY <1>1, <2>2 DEF Readers
<1>10. rd_soh(d)  BY <1>4, <1>5, <1>6, <1>7, <1>8, <1>9
<1>11. d = e
  <2>1. rd'[e].st # rd[e].st  OBVIOUS
  <2>2. \E r : rd' = [rd EXCEPT ![d] = r]
        BY <1>10 DEF rd_soh, rd_bad_frame, rd_good_frame, ReaderStep
  <2>3. QED  BY <1>1, <2>1, <2>2
<1>12. line[e] # <<>> /\ Head(line[e]).b = "SOH"  BY <1>10, <1>11 DEF rd_soh
<1>13. ~IsRetrans(rd[e], Head(line[e]))
  <2> DEFINE r == [rd[e] EXCEPT !.retrans = 0]
             f == Head(line[e])
  <2>1. SUFFICES ASSUME IsRetrans(rd[e], f) PROVE FALSE  OBVIOUS
  <2>2. rd[e] \in Readers /\ r.next = rd[e].next  BY <1>1 DEF Readers
  <2>3. r.next \in Nat /\ f.seqno = r.next - 1 /\ IsRetrans(r, f)  BY <2>1, <2>2 DEF IsRetrans, Readers
  <2>4. f.seqno # r.next  BY <2>3
  <2>5. ReaderStep(e, [r EXCEPT !.st = "DISCARDRETRANS"], Tail(line[e]), <<>>)
        BY <1>10, <1>11, <2>3, <2>4 DEF rd_soh
  <2> HIDE DEF r
  <2>6. rd'[e] = [r EXCEPT !.st = "DISCARDRETRANS"]  BY <1>1, <2>5 DEF ReaderStep
  <2>7. r \in Readers
    <3>1. 0 \in 0..MaxRetries  BY Constants
    <3>2. QED  BY <2>2, <3>1 DEF Readers, r
  <2>8. rd'[e].st = "DISCARDRETRANS"  BY <2>6, <2>7 DEF Readers
  <2>9. QED  BY <2>8
<1>14. QED  BY <1>12, <1>13

LEMMA RetransStep ==
    ASSUME IInv, [Next]_vars, NEW e \in Ends, rd[e].st = "WAITSOH", rd'[e].st = "DISCARDBYTES",
           Head(line[e]).good
    PROVE  rd[e].next = 0 \/ Head(line[e]).first > Received(e)
<1>1. TypeOK /\ EndsOK  BY DEF IInv
<1>2. PICK x \in Ends : LinkAt(x, Peer(x))  BY DEF IInv
<1> DEFINE y == Peer(x)
           l == line[e]
           f == Head(l)
<1>3. l # <<>> /\ f.b = "SOH" /\ ~IsRetrans(rd[e], f)  BY <1>1, Refusals
<1>4. ReaderOK(rd[e], turn[e], got[e]) /\ turn[e] = "read"  BY <1>1 DEF EndsOK, ReaderOK
<1>5. l \in Seq(Items) /\ rd[e] \in Readers  BY <1>1 DEF TypeOK
<1>6. Lines(turn[x], turn[y], Writing(y), Idle(y), line[x], line[y], Prev(x)) /\ Exchange(x, y)
      BY <1>2 DEF LinkAt
<1>7. e # x
  <2>1. SUFFICES ASSUME e = x PROVE FALSE  OBVIOUS
  <2>2. ~Has(l, Frames)  BY <1>4, <1>6, <2>1 DEF Lines
  <2>3. f \in Frames
    <3>1. f \in Items  BY <1>3, <1>5, RemainsTail
    <3>2. QED  BY <1>3, <3>1, DamagedItem
  <2>4. Has(l, Frames)  BY <1>3, <1>5, <2>3, HeadHas
  <2>5. QED  BY <2>2, <2>4
<1>8. e = y  BY <1>7, Two
<1>9. Prev(x) \in Nat /\ Received(e) \in Nat  BY <1>1, ByteTypes
<1>10. ~Has(l, UpTo(Prev(x)))  BY <1>4, <1>6, <1>8 DEF Lines
<1>11. f \in After(Prev(x)) /\ f \in Frames  BY <1>3, <1>5, <1>9, <1>10, HeadFrame
<1>12. Exchanging(wr[x], rd[e], Received(e), line[x], l, Prev(x), faults)
       BY <1>6, <1>8 DEF Exchange
<1>13. FrameOK(f, wr[x], rd[e].no) /\ InStep(wr[x], rd[e].no, Received(e))
  <2>1. 1 \in 1..Len(l) /\ l[1] = f  BY <1>3, <1>5
  <2>2. QED  BY <1>11, <1>12, <2>1 DEF Exchanging, FramesOK
<1>14. wr[x] \in Writers /\ WriterOK(wr[x], turn[x], LastByte(x))  BY <1>1 DEF TypeOK, EndsOK
<1>15. rd[e].next = rd[e].no % SeqMod  BY <1>4 DEF ReaderOK
<1>16. CASE rd[e].next # 0
       BY <1>3, <1>5, <1>9, <1>11, <1>13, <1>14, <1>15, <1>16, RefusedFrame
<1>17. QED  BY <1>16

\* A frame that was received before is never refused, but for the one before
\* number 0 (rd_seqno).
THEOREM RetransAckedAlways == ASSUME Distinguishes, MessagesFit PROVE Spec => RetransAcked
<1>1. Init => IInv  BY InitInvariant
<1>2. IInv /\ [Next]_vars => IInv'  BY StepInvariant
<1>3. IInv /\ [Next]_vars =>
        [\A e \in Ends :
            (rd[e].st = "WAITSOH" /\ rd'[e].st = "DISCARDBYTES" /\ Head(line[e]).good /\ ~late)
                => rd[e].next = 0 \/ Head(line[e]).first > Received(e)]_vars
      BY RetransStep
<1>4. QED  BY <1>1, <1>2, <1>3, PTL DEF Spec, RetransAcked

-----------------------------------------------------------------------------
(* Acknowledgements carry no number: while the answers are faster than the    *)
(* frame timer and no number is altered, at most one of them, or of what may  *)
(* draw one, is on its way.                                                   *)

Halfway == {"ACKRCV", "NACKRCV"}
Delayed == {"DISCARDBYTES", "DISCARDRETRANS"}

\* The owner w, the reader r and the line lx to the owner: the frames before the
\* one being written were received, and an acknowledgement is that of this one.
Acked(w, r, lx) ==
    /\ r.no >= Len(w.cuts)
    /\ (Has(lx, Acks) \/ r.st = "DISCARDRETRANS") => r.no = Len(w.cuts) + 1
    /\ Count(lx, Replies) <= 2
    /\ ~Before(lx, Acks, Replies)
    /\ w.st \in Halfway => Count(lx, Replies) <= 1 /\ ~Has(lx, Frames)

\* The frames on their way to the reader are the one being written.
Current(ly, w, p) ==
    \A i \in 1..Len(ly) : ly[i] \in After(p) =>
        ly[i].no = Len(w.cuts) /\ ly[i].seqno = ly[i].no % SeqMod

\* A frame is on its way to the reader, or an answer is due, or an answer is on
\* its way to the owner, or the frame timer has expired: one of them at most.
Alone(w, r, lx, ly, p) ==
    /\ Count(ly, After(p)) <= 1
    /\ Has(ly, After(p)) => r.st \notin Delayed
    /\ Has(ly, After(p)) \/ r.st \in Delayed =>
         ~Has(lx, Replies) /\ w.st \notin Halfway /\ ~w.frameTO
    /\ w.frameTO => ~Has(lx, Replies)
    /\ Current(ly, w, p)

\* What a step leaves of the writer and of the reader.
Calmer(v, w) ==
    v.cuts = w.cuts /\ (v.st \in Halfway => w.st \in Halfway) /\ (v.frameTO => w.frameTO)
Quieter(s, r) == s.no = r.no /\ (s.st = "DISCARDRETRANS" => r.st = "DISCARDRETRANS")
Readier(s, r) == s.st \in Delayed => r.st \in Delayed

LEMMA AckedKept ==
    ASSUME NEW w, NEW v, Calmer(v, w), NEW r, NEW s, Quieter(s, r),
           NEW lx \in Seq(Items), NEW kx \in Seq(Items), NEW b, Remains(kx, lx, b), Acked(w, r, lx)
    PROVE  Acked(v, s, kx)
<1>1. Closed(Replies, b) /\ Closed(Acks, b) /\ Closed(Frames, b)  BY ClosedSets, 0 \in Nat
<1>2. /\ Has(kx, Acks) => Has(lx, Acks)
      /\ Has(kx, Frames) => Has(lx, Frames)
      /\ Before(kx, Acks, Replies) => Before(lx, Acks, Replies)
      BY <1>1, RemainsHas, RemainsBefore
<1>3. Count(kx, Replies) <= Count(lx, Replies)  BY <1>1, RemainsCount
<1>4. Count(kx, Replies) \in Nat /\ Count(lx, Replies) \in Nat
  <2>1. Len(kx) \in Nat /\ Len(lx) \in Nat  OBVIOUS
  <2>2. QED  BY <2>1, CountType
<1>5. Count(kx, Replies) <= 2 /\ (w.st \in Halfway => Count(kx, Replies) <= 1)
      BY <1>3, <1>4 DEF Acked
<1>6. QED  BY <1>2, <1>5 DEF Acked, Calmer, Quieter

LEMMA AloneKept ==
    ASSUME NEW w, NEW v, Calmer(v, w), NEW r, NEW s, Readier(s, r), NEW p \in Nat,
           NEW lx \in Seq(Items), NEW kx \in Seq(Items), NEW b, Remains(kx, lx, b),
           NEW ly \in Seq(Items), NEW ky \in Seq(Items), Remains(ky, ly, FALSE),
           Alone(w, r, lx, ly, p)
    PROVE  Alone(v, s, kx, ky, p)
<1>1. Closed(Replies, b) /\ Closed(After(p), FALSE)  BY ClosedSets
<1>2. (Has(kx, Replies) => Has(lx, Replies)) /\ (Has(ky, After(p)) => Has(ly, After(p)))
      BY <1>1, RemainsHas
<1>3. Count(ky, After(p)) <= 1
  <2>1. Count(ky, After(p)) <= Count(ly, After(p))  BY <1>1, RemainsCount
  <2>2. Len(ky) \in Nat /\ Len(ly) \in Nat  OBVIOUS
  <2>3. Count(ky, After(p)) \in Nat /\ Count(ly, After(p)) \in Nat  BY <2>2, CountType
  <2>4. QED  BY <2>1, <2>3 DEF Alone
<1>4. Current(ky, w, p)
  <2>1. PICK d \in {0, 1} : /\ Len(ly) = Len(ky) + d
                            /\ \A i \in 1..Len(ky) : Worse(ky[i], ly[i + d], FALSE)
        BY DEF Remains
  <2>2. SUFFICES ASSUME NEW i \in 1..Len(ky), ky[i] \in After(p)
                 PROVE  ky[i].no = Len(w.cuts) /\ ky[i].seqno = ky[i].no % SeqMod
        BY DEF Current
  <2> DEFINE g == ky[i]
             h == ly[i + d]
  <2>3. i + d \in 1..Len(ly) /\ Worse(g, h, FALSE) /\ g \in Items /\ h \in Items
    <3>1. Len(ly) \in Nat /\ Len(ky) \in Nat  OBVIOUS
    <3>2. i + d \in 1..Len(ly)  BY <2>1, <3>1
    <3>3. Worse(g, h, FALSE)  BY <2>1
    <3>4. ky[i] \in Items /\ ly[i + d] \in Items  BY <3>2
    <3>5. QED  BY <3>2, <3>3, <3>4
  <2>4. h \in After(p)  BY <1>1, <2>2, <2>3 DEF Closed
  <2>5. h.no = Len(w.cuts) /\ h.seqno = h.no % SeqMod  BY <2>3, <2>4 DEF Alone, Current
  <2>6. h \notin Replies  BY <2>4, ItemKinds
  <2>7. g.no = h.no /\ g.seqno = h.seqno  BY <2>3, <2>6 DEF Worse
  <2>8. QED  BY <2>5, <2>7
<1>5. Current(ky, v, p)  BY <1>4 DEF Current, Calmer
<1>6. QED  BY <1>2, <1>3, <1>5 DEF Alone, Calmer, Readier

\* Nothing is on its way but the frame that is sent.
LEMMA AloneNothing ==
    ASSUME NEW v, NEW r, r.st \notin Delayed, NEW p, NEW lx, ~Has(lx, Replies),
           NEW ly \in Seq(Items), ~Has(ly, After(p))
    PROVE  Alone(v, r, lx, ly, p)
<1>1. Len(ly) \in Nat  OBVIOUS
<1>2. Count(ly, After(p)) = 0  BY <1>1, CountNone
<1>3. Current(ly, v, p)  BY DEF Current, Has
<1>4. QED  BY <1>2, <1>3 DEF Alone

LEMMA AloneSend ==
    ASSUME NEW v, v.st \notin Halfway, ~v.frameTO, NEW r, r.st \notin Delayed, NEW p,
           NEW lx, ~Has(lx, Replies), NEW ly \in Seq(Items), ~Has(ly, After(p)),
           NEW f \in Frames, f.no = Len(v.cuts), f.seqno = f.no % SeqMod
    PROVE  Alone(v, r, lx, ly \o <<f>>, p)
<1>1. Len(ly) \in Nat  OBVIOUS
<1>2. Count(ly, After(p)) = 0  BY <1>1, CountNone
<1>3. Count(ly \o <<f>>, After(p)) <= 1  BY <1>2, CountAppend
<1>4. Current(ly \o <<f>>, v, p)
  <2> DEFINE t == ly \o <<f>>
  <2>1. \A i \in 1..Len(t) : t[i] = f \/ (i \in 1..Len(ly) /\ t[i] = ly[i])  OBVIOUS
  <2> HIDE DEF t
  <2>2. \A i \in 1..Len(t) : t[i] \in After(p) => t[i] = f  BY <2>1 DEF Has
  <2>3. Current(t, v, p)  BY <2>2 DEF Current
  <2>4. QED  BY <2>3 DEF t
<1>5. QED  BY <1>3, <1>4 DEF Alone

\* A reply has been taken from the line: at most one is left, and none once the
\* first byte of the pair was heard.
LEMMA ReplyTaken ==
    ASSUME NEW w, NEW r, NEW lx \in Seq(Items), lx # <<>>, Head(lx) \in Replies, Acked(w, r, lx)
    PROVE  Count(Tail(lx), Replies) <= 1 /\ (w.st \in Halfway => ~Has(Tail(lx), Replies))
<1>1. Tail(lx) \in Seq(Items) /\ Len(Tail(lx)) \in Nat  OBVIOUS
<1>2. Count(lx, Replies) = Count(Tail(lx), Replies) + 1  BY CountTail
<1>3. Count(Tail(lx), Replies) \in Nat  BY <1>1, CountType
<1>4. Count(lx, Replies) <= 2 /\ (w.st \in Halfway => Count(lx, Replies) <= 1)  BY DEF Acked
<1>5. w.st \in Halfway => Count(Tail(lx), Replies) = 0  BY <1>2, <1>3, <1>4
<1>6. Count(Tail(lx), Replies) <= 1  BY <1>2, <1>3, <1>4
<1>7. w.st \in Halfway => ~Has(Tail(lx), Replies)  BY <1>1, <1>5, CountNone
<1>8. QED  BY <1>6, <1>7

-----------------------------------------------------------------------------
(* The owner hears an event.                                                  *)

\* The writer w is w0 but for the flag just heard.
SameState(w, w0) == w.st = w0.st /\ w.cuts = w0.cuts /\ w.retrans = w0.retrans
                    /\ (w.frameTO => w0.frameTO)
Hearing(w0, w, event, lx, rest) ==
    \/ lx # <<>> /\ rest = Tail(lx) /\ event = ByteEvent(Head(lx))
    \/ rest = lx /\ event = "TXUPLAYERTO"
    \/ rest = lx /\ event = "TXFRAMETO" /\ w0.frameTO /\ ~w.frameTO
\* No answer is left to wait for: the timer expired, or the answer was damaged
\* or negative.
Unanswered(w0, w, lx, rest) ==
    \/ rest = lx /\ w0.frameTO /\ ~w.frameTO
    \/ w.st \in Halfway /\ Has(lx, Replies) /\ ~Has(rest, Replies)
Undelayed(r, lx) == r.st \in Delayed => ~Has(lx, Replies)

LEMMA HearingRest ==
    ASSUME NEW w0, NEW w, NEW event, NEW lx \in Seq(Items), NEW rest, Hearing(w0, w, event, lx, rest)
    PROVE  rest \in Seq(Items) /\ Remains(rest, lx, FALSE)
BY RemainsTail DEF Hearing

\* A reply is heard by taking it from the line.
LEMMA HearingReply ==
    ASSUME NEW w0, NEW w, NEW event \in {"ACK", "ACKCOMP", "NACK", "NACKCOMP"},
           NEW lx \in Seq(Items), NEW rest, Hearing(w0, w, event, lx, rest)
    PROVE  lx # <<>> /\ rest = Tail(lx) /\ Head(lx) = Byte(event) /\ Head(lx) \in Replies
<1>1. lx # <<>> /\ rest = Tail(lx) /\ event = ByteEvent(Head(lx))  BY DEF Hearing
<1>2. Head(lx) \in Items  BY <1>1, RemainsTail
<1>3. event \in AckBytes \ {"junk"}  BY DEF AckBytes
<1>4. Head(lx) = Byte(event)  BY <1>1, <1>2, <1>3, ByteEvents
<1>5. event # "UNBYTE"  OBVIOUS
<1>6. QED  BY <1>1, <1>2, <1>4, <1>5, ByteEvents

LEMMA RetransFor ==
    ASSUME NEW w0, NEW w, SameState(w, w0), NEW event, NEW lx \in Seq(Items), NEW rest,
           Hearing(w0, w, event, lx, rest), NEW r, Acked(w0, r, lx), <<w.st, event>> \in wr_retrans
    PROVE  Unanswered(w0, w, lx, rest)
<1>1. CASE event = "TXFRAMETO"
  <2>1. \A h : ByteEvent(h) # "TXFRAMETO"  BY DEF ByteEvent, AckBytes
  <2>2. QED  BY <1>1, <2>1 DEF Hearing, Unanswered
<1>2. CASE event # "TXFRAMETO"
  <2>1. w.st \in Halfway /\ event \in {"UNBYTE", "NACKCOMP"}  BY <1>2 DEF wr_retrans, Halfway
  <2>2. lx # <<>> /\ rest = Tail(lx) /\ event = ByteEvent(Head(lx))  BY <2>1 DEF Hearing
  <2>3. w0.st \in Halfway /\ ~Has(lx, Frames)  BY <2>1 DEF SameState, Acked
  <2>4. Head(lx) \in Items  BY <2>2, RemainsTail
  <2>5. Head(lx) \notin Frames  BY <2>2, <2>3, HeadHas
  <2>6. Head(lx) \in Replies  BY <2>4, <2>5, ItemKinds, 0 \in Nat
  <2>7. ~Has(rest, Replies)  BY <2>2, <2>3, <2>6, ReplyTaken
  <2>8. Has(lx, Replies)  BY <2>2, <2>6, HeadHas
  <2>9. QED  BY <2>1, <2>7, <2>8 DEF Unanswered
<1>3. QED  BY <1>1, <1>2

\* What the outcomes leave of the writer.
LEMMA OutcomeState ==
    ASSUME NEW w0, NEW w, Waiting(w), SameState(w, w0), NEW event, NEW o, Result(o, w, event)
    PROVE  \/ Calmer(o.w, w0) /\ o.out = <<>> /\ ~MovesOn(o, w, event)
           \/ /\ w.st = "FRAMESENDED" /\ event \in {"ACK", "NACK"} /\ o.out = <<>>
              /\ o.w.cuts = w0.cuts /\ (o.w.frameTO => w0.frameTO) /\ o.w.st \in Halfway
           \/ Calmer(o.w, w0) /\ Resends(o, w, event)
           \/ MovesOn(o, w, event)
<1>1. o.w.frameTO => w0.frameTO  BY DEF Result, SameState
<1>2. CASE Waits(o, w, event)
  <2>1. o.w.cuts = w0.cuts
    <3>1. w \in Writers /\ o.w = [w EXCEPT !.st = o.w.st]  BY <1>2 DEF Waits, Waiting
    <3>2. [w EXCEPT !.st = o.w.st].cuts = w.cuts  BY <3>1 DEF Writers
    <3>3. QED  BY <3>1, <3>2 DEF SameState
  <2>2. o.out = <<>>  BY <1>2 DEF Waits
  <2>3. MovesOn(o, w, event) \/ ~MovesOn(o, w, event)  OBVIOUS
  <2>4. QED  BY <1>1, <1>2, <2>1, <2>2, <2>3 DEF Waits, Calmer, Halfway, SameState
<1>3. CASE Resends(o, w, event)
  <2>1. o.w.cuts = w0.cuts /\ o.w.st = "FRAMESENDED"  BY <1>3 DEF Resends, SameNumbers, SameState
  <2>2. QED  BY <1>1, <1>3, <2>1 DEF Calmer, Halfway
<1>4. CASE GivesUp(o, w, event)
  <2>1. o.w.cuts = w0.cuts /\ o.w.st = "EXIT" /\ o.out = <<>>  BY <1>4 DEF GivesUp, SameNumbers, SameState
  <2>2. QED  BY <1>1, <1>4, <2>1 DEF Calmer, Halfway
<1>5. QED  BY <1>2, <1>3, <1>4 DEF Result

\* After an event of the owner what was acknowledged is what was received.
LEMMA OwnerAcked ==
    ASSUME NEW w0, NEW w, Waiting(w), SameState(w, w0), NEW event, NEW o, Result(o, w, event),
           NEW lx \in Seq(Items), NEW rest, Hearing(w0, w, event, lx, rest),
           NEW r, Acked(w0, r, lx), Undelayed(r, lx), ~Before(lx, Replies, Frames)
    PROVE  Acked(o.w, r, rest)
<1>1. rest \in Seq(Items) /\ Remains(rest, lx, FALSE)  BY HearingRest
<1>6. event \in {"ACK", "ACKCOMP", "NACK", "NACKCOMP"} =>
        lx # <<>> /\ rest = Tail(lx) /\ Head(lx) = Byte(event) /\ Head(lx) \in Replies
      BY HearingReply
<1>2. CASE Calmer(o.w, w0)
  <2>1. Quieter(r, r)  BY DEF Quieter
  <2>2. QED  BY <1>1, <1>2, <2>1, AckedKept
<1>3. CASE /\ w.st = "FRAMESENDED" /\ event \in {"ACK", "NACK"} /\ o.out = <<>>
           /\ o.w.cuts = w0.cuts /\ (o.w.frameTO => w0.frameTO) /\ o.w.st \in Halfway
  <2>1. event \in {"ACK", "ACKCOMP", "NACK", "NACKCOMP"}  BY <1>3
  <2>2. lx # <<>> /\ rest = Tail(lx) /\ Head(lx) \in Replies  BY <1>6, <2>1
  <2>3. Count(rest, Replies) <= 1  BY <2>2, ReplyTaken
  <2>4. ~Has(rest, Frames)  BY <2>2, HeadBefore
  <2>5. Quieter(r, r) /\ Calmer(w0, w0)  BY DEF Quieter, Calmer
  <2>6. Acked(w0, r, rest)  BY <1>1, <2>5, AckedKept
  <2>7. QED  BY <1>3, <2>3, <2>4, <2>6 DEF Acked
<1>4. CASE MovesOn(o, w, event)
  <2>1. event = "ACKCOMP" /\ Advanced(o.w, w)  BY <1>4 DEF MovesOn
  <2>2. event \in {"ACK", "ACKCOMP", "NACK", "NACKCOMP"}  BY <2>1
  <2>3. lx # <<>> /\ rest = Tail(lx) /\ Head(lx) = Byte("ACKCOMP") /\ Head(lx) \in Replies
        BY <2>1, <2>2, HearingReply
  <2>4. Head(lx) \in Acks  BY <2>3 DEF Acks
  <2>5. Has(lx, Acks) /\ Has(lx, Replies)  BY <2>3, <2>4, HeadHas
  <2>6. ~Before(lx, Acks, Replies) /\ r.no = Len(w0.cuts) + 1  BY <2>5 DEF Acked
  <2>7. ~Has(rest, Replies)  BY <2>3, <2>4, <2>6, HeadBefore
  <2>8. r.st # "DISCARDRETRANS"  BY <2>5 DEF Undelayed, Delayed
  <2>9. Len(w.cuts) \in Nat /\ Len(o.w.cuts) = Len(w.cuts) + 1
    <3>1. w.cuts \in Seq(Nat \ {0})  BY DEF Waiting, Writers
    <3>2. o.w.cuts = Append(w.cuts, o.w.pdata)  BY <2>1 DEF Advanced
    <3>3. QED  BY <3>1, <3>2, Appended
  <2>10. r.no = Len(o.w.cuts) /\ r.no >= Len(o.w.cuts)
    <3>1. w.cuts = w0.cuts  BY DEF SameState
    <3>2. QED  BY <2>6, <2>9, <3>1
  <2>11. ~Has(rest, Acks)
    <3>1. Acks \subseteq Replies  BY ItemKinds, 0 \in Nat
    <3>2. QED  BY <2>7, <3>1 DEF Has
  <2>12. Count(rest, Replies) <= 2
    <3>1. Len(rest) \in Nat  BY <1>1
    <3>2. Count(rest, Replies) = 0  BY <2>7, <3>1, CountNone
    <3>3. QED  BY <3>2
  <2>13. ~Before(rest, Acks, Replies)  BY <2>7 DEF Before, Has
  <2>14. o.w.st \notin Halfway  BY <1>4 DEF MovesOn, Halfway
  <2>15. QED  BY <2>8, <2>10, <2>11, <2>12, <2>13, <2>14 DEF Acked
<1>5. QED  BY <1>2, <1>3, <1>4, OutcomeState

\* What a step of the writer sends is the frame being written.
SendsCurrent(o) ==
    o.out = <<>> \/ \E f \in Frames : /\ o.out = <<f>> /\ f.no = Len(o.w.cuts)
                                      /\ f.seqno = f.no % SeqMod
LEMMA SentNumber ==
    ASSUME NEW w, Waiting(w), NEW event, NEW o, Result(o, w, event), NEW t, NEW last,
           WriterOK(o.w, t, last)
    PROVE  SendsCurrent(o)
<1>1. CASE o.out = <<>>  BY <1>1 DEF SendsCurrent
<1>2. CASE o.out # <<>>
  <2>1. \E again \in BOOLEAN : o.out = <<make_dmframe(o.w, again)>>
        BY <1>2 DEF Result, Waits, Resends, GivesUp, MovesOn
  <2>2. PICK again \in BOOLEAN : o.out = <<make_dmframe(o.w, again)>>  BY <2>1
  <2>3. o.w \in Writers  BY DEF Result
  <2>4. o.w.remain > 0
        BY <1>2 DEF Result, Waits, Resends, GivesUp, MovesOn, SameNumbers, Waiting
  <2> DEFINE f == make_dmframe(o.w, again)
  <2>5. f \in Frames /\ f.no = Len(o.w.cuts) /\ f.seqno = f.no % SeqMod  BY <2>3, <2>4, SentFrame
  <2> HIDE DEF f
  <2>6. o.out = <<f>>  BY <2>2 DEF f
  <2>7. QED  BY <2>5, <2>6 DEF SendsCurrent
<1>3. QED  BY <1>1, <1>2

\* After an event of the owner there is still one frame or answer at most.
LEMMA OwnerAlone ==
    ASSUME NEW w0, NEW w, Waiting(w), SameState(w, w0), NEW event, NEW o, Result(o, w, event),
           NEW lx \in Seq(Items), NEW rest, Hearing(w0, w, event, lx, rest),
           NEW r, Acked(w0, r, lx), NEW p \in Nat, NEW ly \in Seq(Items), Alone(w0, r, lx, ly, p),
           SendsCurrent(o)
    PROVE  Alone(o.w, r, rest, ly \o o.out, p)
<1>1. rest \in Seq(Items) /\ Remains(rest, lx, FALSE)  BY HearingRest
<1>2. Remains(ly, ly, FALSE) /\ Readier(r, r) /\ Calmer(w0, w0)
      BY RemainsTail DEF Readier, Calmer
<1>3. o.w.frameTO = w.frameTO /\ (w.frameTO => w0.frameTO)  BY DEF Result, SameState
<1>4. o.out = <<>> => ly \o o.out = ly  OBVIOUS
<1>5. CASE Calmer(o.w, w0) /\ o.out = <<>>
  <2>1. Alone(o.w, r, rest, ly, p)  BY <1>1, <1>2, <1>5, AloneKept
  <2>2. QED  BY <1>4, <1>5, <2>1
<1>6. CASE /\ w.st = "FRAMESENDED" /\ event \in {"ACK", "NACK"} /\ o.out = <<>>
           /\ o.w.cuts = w0.cuts /\ (o.w.frameTO => w0.frameTO) /\ o.w.st \in Halfway
  <2>1. event \in {"ACK", "ACKCOMP", "NACK", "NACKCOMP"}  BY <1>6
  <2>2. lx # <<>> /\ Head(lx) \in Replies  BY <2>1, HearingReply
  <2>3. Has(lx, Replies)  BY <2>2, HeadHas
  <2>4. ~Has(ly, After(p)) /\ r.st \notin Delayed /\ ~w0.frameTO /\ Count(ly, After(p)) <= 1
        BY <2>3 DEF Alone
  <2>5. Current(ly, o.w, p)  BY <1>6 DEF Alone, Current
  <2>6. Alone(o.w, r, rest, ly, p)  BY <1>6, <2>4, <2>5 DEF Alone
  <2>7. QED  BY <1>4, <1>6, <2>6
<1>7. CASE Resends(o, w, event)
  <2>1. Unanswered(w0, w, lx, rest)  BY <1>7, RetransFor DEF Resends
  <2>2. /\ ~Has(ly, After(p)) /\ r.st \notin Delayed
        /\ ~Has(rest, Replies) /\ ~w.frameTO
    <3>1. CASE rest = lx /\ w0.frameTO /\ ~w.frameTO  BY <3>1 DEF Alone
    <3>2. CASE w.st \in Halfway /\ Has(lx, Replies) /\ ~Has(rest, Replies)
          BY <1>3, <3>2 DEF Alone
    <3>3. QED  BY <2>1, <3>1, <3>2 DEF Unanswered
  <2>3. o.w.st \notin Halfway /\ ~o.w.frameTO /\ o.out # <<>>  BY <1>3, <1>7, <2>2 DEF Resends, Halfway
  <2>4. PICK f \in Frames : o.out = <<f>> /\ f.no = Len(o.w.cuts) /\ f.seqno = f.no % SeqMod
        BY <2>3 DEF SendsCurrent
  <2>5. Alone(o.w, r, rest, ly \o <<f>>, p)  BY <2>2, <2>3, <2>4, AloneSend
  <2>6. QED  BY <2>4, <2>5
<1>8. CASE MovesOn(o, w, event)
  <2>1. event = "ACKCOMP"  BY <1>8 DEF MovesOn
  <2>2. event \in {"ACK", "ACKCOMP", "NACK", "NACKCOMP"}  BY <2>1
  <2>3. lx # <<>> /\ rest = Tail(lx) /\ Head(lx) = Byte("ACKCOMP") /\ Head(lx) \in Replies
        BY <2>1, <2>2, HearingReply
  <2>4. Head(lx) \in Acks  BY <2>3 DEF Acks
  <2>5. Has(lx, Replies)  BY <2>3, HeadHas
  <2>6. ~Before(lx, Acks, Replies)  BY DEF Acked
  <2>7. ~Has(rest, Replies)  BY <2>3, <2>4, <2>6, HeadBefore
  <2>8. ~Has(ly, After(p)) /\ r.st \notin Delayed /\ ~w0.frameTO  BY <2>5 DEF Alone
  <2>9. o.w.st \notin Halfway /\ ~o.w.frameTO  BY <1>3, <1>8, <2>8 DEF MovesOn, Halfway
  <2>10. CASE o.out = <<>>
    <3>1. Alone(o.w, r, rest, ly, p)  BY <2>7, <2>8, AloneNothing
    <3>2. QED  BY <1>4, <2>10, <3>1
  <2>11. CASE o.out # <<>>
    <3>1. PICK f \in Frames : o.out = <<f>> /\ f.no = Len(o.w.cuts) /\ f.seqno = f.no % SeqMod
          BY <2>11 DEF SendsCurrent
    <3>2. Alone(o.w, r, rest, ly \o <<f>>, p)  BY <2>7, <2>8, <2>9, <3>1, AloneSend
    <3>3. QED  BY <3>1, <3>2
  <2>12. QED  BY <2>10, <2>11
<1>9. QED  BY <1>5, <1>6, <1>7, <1>8, OutcomeState

-----------------------------------------------------------------------------
(* The other end hears a frame, or answers.                                   *)

LEMMA AnsweredLine ==
    ASSUME NEW lx \in Seq(Items), ~Has(lx, Replies), NEW out \in {send_ack, send_nack}
    PROVE  /\ lx \o out \in Seq(Items) /\ Count(lx \o out, Replies) <= 2
           /\ ~Before(lx \o out, Acks, Replies)
           /\ Has(lx \o out, Acks) => out = send_ack
<1>1. PICK a \in Replies \ Acks, b \in Replies : out = <<a, b>>
  <2>1. Byte("ACK") \in Replies /\ Byte("ACKCOMP") \in Replies
        /\ Byte("NACK") \in Replies /\ Byte("NACKCOMP") \in Replies
        BY DEF Byte, Replies, AckBytes
  <2>2. Byte("ACK") \notin Acks /\ Byte("NACK") \notin Acks  BY DEF Byte, Acks
  <2>3. QED  BY <2>1, <2>2 DEF send_ack, send_nack
<1>2. Replies \subseteq Items /\ Acks \subseteq Replies  BY ItemKinds, 0 \in Nat
<1>3. a \in Items /\ b \in Items  BY <1>1, <1>2
<1>4. lx \o out = (lx \o <<a>>) \o <<b>>  BY <1>1, <1>3, JoinPair
<1>5. lx \o <<a>> \in Seq(Items) /\ Len(lx) \in Nat  BY <1>3
<1>6. Count(lx, Replies) = 0  BY <1>5, CountNone
<1>7. Count(lx \o <<a>>, Replies) = 1  BY <1>1, <1>6, CountAppend
<1>8. Count(lx \o out, Replies) = 2
  <2> DEFINE k == lx \o <<a>>
  <2>1. k \in Seq(Items) /\ Count(k, Replies) = 1  BY <1>5, <1>7
  <2> HIDE DEF k
  <2>2. Count(k \o <<b>>, Replies) = 2  BY <1>1, <2>1, CountAppend
  <2>3. lx \o out = k \o <<b>>  BY <1>4 DEF k
  <2>4. QED  BY <2>2, <2>3
<1>9. out \in Seq(Items)  BY <1>1, <1>3
<1>10. ~Before(lx \o out, Acks, Replies)
  <2>1. ~Before(lx, Acks, Replies) /\ ~Has(lx, Acks)  BY <1>2 DEF Before, Has
  <2>2. ~Before(out, Acks, Replies)
    <3>1. Len(<<a, b>>) = 2 /\ <<a, b>>[1] = a /\ <<a, b>>[2] = b  OBVIOUS
    <3>2. ~Before(<<a, b>>, Acks, Replies)  BY <1>1, <3>1 DEF Before
    <3>3. QED  BY <1>1, <3>2
  <2>3. QED  BY <1>9, <2>1, <2>2, BeforeJoin
<1>11. Has(lx \o out, Acks) => out = send_ack
  <2>1. ~Has(lx, Acks)  BY <1>2 DEF Has
  <2>2. QED  BY <1>9, <2>1, HasJoin, ReplyPair
<1>12. lx \o out \in Seq(Items)  BY <1>9
<1>13. QED  BY <1>8, <1>10, <1>11, <1>12

\* The frame at the head of the line was alone on its way.
LEMMA TakenFrame ==
    ASSUME NEW w, NEW s, NEW p, NEW lx, NEW ly \in Seq(Items), ly # <<>>, Head(ly) \in After(p),
           Alone(w, s, lx, ly, p)
    PROVE  /\ Tail(ly) \in Seq(Items) /\ ~Has(Tail(ly), After(p)) /\ s.st \notin Delayed
           /\ ~Has(lx, Replies) /\ w.st \notin Halfway /\ ~w.frameTO
           /\ Head(ly).no = Len(w.cuts) /\ Head(ly).seqno = Head(ly).no % SeqMod
<1>1. Tail(ly) \in Seq(Items) /\ Len(Tail(ly)) \in Nat  OBVIOUS
<1>2. Has(ly, After(p))  BY HeadHas
<1>3. ~Has(Tail(ly), After(p))
  <2>1. Count(ly, After(p)) = Count(Tail(ly), After(p)) + 1  BY CountTail
  <2>2. Count(Tail(ly), After(p)) \in Nat  BY <1>1, CountType
  <2>3. Count(ly, After(p)) <= 1  BY DEF Alone
  <2>4. Count(Tail(ly), After(p)) = 0  BY <2>1, <2>2, <2>3
  <2>5. QED  BY <1>1, <2>4, CountNone
<1>4. Head(ly).no = Len(w.cuts) /\ Head(ly).seqno = Head(ly).no % SeqMod
  <2>1. 1 \in 1..Len(ly) /\ ly[1] = Head(ly)  OBVIOUS
  <2>2. QED  BY <2>1 DEF Alone, Current
<1>5. QED  BY <1>1, <1>2, <1>3, <1>4 DEF Alone

\* No frame is on its way: nothing is due, or an answer.
LEMMA AloneQuiet ==
    ASSUME NEW w, ~w.frameTO, NEW r, r.st \notin Delayed, NEW p, NEW lx,
           NEW ly \in Seq(Items), ~Has(ly, After(p))
    PROVE  Alone(w, r, lx, ly, p)
<1>1. Len(ly) \in Nat  OBVIOUS
<1>2. Count(ly, After(p)) = 0  BY <1>1, CountNone
<1>3. Current(ly, w, p)  BY DEF Current, Has
<1>4. QED  BY <1>2, <1>3 DEF Alone

LEMMA AloneDelayed ==
    ASSUME NEW w, ~w.frameTO, w.st \notin Halfway, NEW r, NEW p, NEW lx, ~Has(lx, Replies),
           NEW ly \in Seq(Items), ~Has(ly, After(p))
    PROVE  Alone(w, r, lx, ly, p)
<1>1. Len(ly) \in Nat  OBVIOUS
<1>2. Count(ly, After(p)) = 0  BY <1>1, CountNone
<1>3. Current(ly, w, p)  BY DEF Current, Has
<1>4. QED  BY <1>2, <1>3 DEF Alone

\* The reader is next to the frame being written, and answers for it.
AnswerFor(w, r, out) ==
    /\ r.no >= Len(w.cuts) /\ r.st # "DISCARDRETRANS" /\ w.st \notin Halfway
    /\ out = send_ack => r.no = Len(w.cuts) + 1

LEMMA AnswerAcked ==
    ASSUME NEW w, NEW r, NEW lx \in Seq(Items), ~Has(lx, Replies), NEW out \in {send_ack, send_nack},
           AnswerFor(w, r, out)
    PROVE  Acked(w, r, lx \o out)
<1>1. /\ Count(lx \o out, Replies) <= 2 /\ ~Before(lx \o out, Acks, Replies)
      /\ Has(lx \o out, Acks) => out = send_ack
      BY AnsweredLine
<1>2. QED  BY <1>1 DEF Acked, AnswerFor

\* The other end hears or answers without taking data.
LEMMA SilentAcks ==
    ASSUME NEW w \in Writers, NEW s \in Readers, s.next = s.no % SeqMod,
           NEW k, NEW p \in Nat, NEW n, NEW lx \in Seq(Items), NEW ly \in Seq(Items),
           ~Has(ly, UpTo(p)), Exchanging(w, s, k, lx, ly, p, n),
           Acked(w, s, lx), Alone(w, s, lx, ly, p),
           NEW r, r.no = s.no, NEW rest, NEW out, Silent(s, r, ly, rest, out)
    PROVE  Acked(w, r, lx \o out) /\ Alone(w, r, lx \o out, rest, p)
<1>1. Remains(lx, lx, FALSE) /\ Calmer(w, w)  BY RemainsTail DEF Calmer
<1>2. lx \o <<>> = lx  OBVIOUS
<1>3. CASE out = <<>> /\ Takes(ly, rest) /\ (r.st = s.st \/ r.st \notin Delayed)
  <2>1. rest \in Seq(Items) /\ Remains(rest, ly, FALSE)  BY <1>3, TakesRemains
  <2>2. Quieter(r, s) /\ Readier(r, s)  BY <1>3 DEF Quieter, Readier, Delayed
  <2>3. Acked(w, r, lx)  BY <1>1, <2>2, AckedKept
  <2>4. Alone(w, r, lx, rest, p)  BY <1>1, <2>1, <2>2, AloneKept
  <2>5. QED  BY <1>2, <1>3, <2>3, <2>4
<1>4. CASE out = <<>> /\ ly # <<>> /\ Head(ly).b = "SOH" /\ rest = Tail(ly) /\ r.st \in Delayed
           /\ (r.st = "DISCARDRETRANS" => IsRetrans(s, Head(ly)))
  <2>1. Head(ly) \in After(p)  BY <1>4, HeadFrame
  <2>2. /\ Tail(ly) \in Seq(Items) /\ ~Has(Tail(ly), After(p)) /\ s.st \notin Delayed
        /\ ~Has(lx, Replies) /\ w.st \notin Halfway /\ ~w.frameTO
        /\ Head(ly).no = Len(w.cuts) /\ Head(ly).seqno = Head(ly).no % SeqMod
        BY <1>4, <2>1, TakenFrame
  <2>3. Alone(w, r, lx, Tail(ly), p)  BY <2>2, AloneDelayed
  <2>4. r.st = "DISCARDRETRANS" => s.no = Len(w.cuts) + 1
    <3>1. SUFFICES ASSUME IsRetrans(s, Head(ly)), s.no # Len(w.cuts) + 1 PROVE FALSE  BY <1>4
    <3>2. s.no \in Nat /\ Len(w.cuts) \in Nat
      <4>1. w.cuts \in Seq(Nat \ {0}) /\ s.no \in Nat \ {0}  BY DEF Writers, Readers
      <4>2. QED  BY <4>1
    <3>3. s.no >= Len(w.cuts)  BY DEF Acked
    <3>4. s.no <= Len(w.cuts) + (IF w.remain > 0 THEN 1 ELSE 0)  BY DEF Exchanging, InStep
    <3>5. s.no = Len(w.cuts)
      <4> DEFINE i == s.no
                 m == Len(w.cuts)
      <4>1. i \in Nat /\ m \in Nat /\ i >= m /\ i # m + 1 /\ (i <= m + 1 \/ i <= m + 0)
            BY <3>1, <3>2, <3>3, <3>4
      <4> HIDE DEF i, m
      <4>2. i = m  BY <4>1
      <4>3. QED  BY <4>2 DEF i, m
    <3>6. s.next = Head(ly).seqno  BY <2>2, <3>5
    <3>7. Head(ly).seqno = s.next - 1 /\ s.next \in Int
      <4>1. s.next \in 0..SeqMod - 1 /\ SeqMod \in Nat  BY Constants DEF Readers
      <4>2. QED  BY <3>1, <4>1 DEF IsRetrans
    <3>8. QED  BY <3>6, <3>7
  <2>5. Acked(w, r, lx)
    <3>1. Count(lx, Replies) <= 2 /\ ~Before(lx, Acks, Replies) /\ s.no >= Len(w.cuts)  BY DEF Acked
    <3>2. ~Has(lx, Acks)
      <4>1. Acks \subseteq Replies  BY ItemKinds
      <4>2. QED  BY <2>2, <4>1 DEF Has
    <3>3. QED  BY <2>2, <2>4, <3>1, <3>2 DEF Acked
  <2>6. QED  BY <1>2, <1>4, <2>3, <2>5
<1>5. CASE out \in {send_ack, send_nack} /\ rest = ly /\ r.st = "WAITSOH" /\ s.st \in Delayed
           /\ (out = send_ack => s.st = "DISCARDRETRANS")
  <2>1. ~Has(lx, Replies) /\ w.st \notin Halfway /\ ~w.frameTO /\ ~Has(ly, After(p))
        BY <1>5 DEF Alone
  <2>2. AnswerFor(w, r, out)  BY <1>5, <2>1 DEF AnswerFor, Acked
  <2>3. Acked(w, r, lx \o out)  BY <1>5, <2>1, <2>2, AnswerAcked
  <2>4. r.st \notin Delayed  BY <1>5 DEF Delayed
  <2>5. Alone(w, r, lx \o out, ly, p)  BY <2>1, <2>4, AloneQuiet
  <2>6. QED  BY <1>5, <2>3, <2>5
<1>6. CASE Opens(s, r, ly, rest, out)
  <2>1. out = <<>> /\ Takes(ly, rest) /\ r.st \notin Delayed  BY <1>6 DEF Opens, Takes, Delayed
  <2>2. QED  BY <1>3, <2>1
<1>7. CASE Continues(s, r, ly, rest, out)
  <2>1. CASE out = <<>> /\ r.st = s.st /\ Passes(s, ly, rest)
    <3>1. Takes(ly, rest)  BY <2>1 DEF Passes, Takes
    <3>2. QED  BY <1>3, <2>1, <3>1
  <2>2. CASE out = <<>> /\ Refuses(s, r, ly, rest)
    <3>1. ly # <<>> /\ Head(ly).b = "SOH" /\ rest = Tail(ly) /\ r.st = "DISCARDBYTES"
          BY <2>2 DEF Refuses
    <3>2. r.st \in Delayed /\ r.st # "DISCARDRETRANS"  BY <3>1 DEF Delayed
    <3>3. QED  BY <1>4, <2>2, <3>1, <3>2
  <2>3. CASE Repeats(s, r, ly, rest, out)
    <3>1. /\ ly # <<>> /\ Head(ly).b = "SOH" /\ rest = Tail(ly) /\ r.st = "DISCARDRETRANS"
          /\ out = <<>> /\ IsRetrans(s, Head(ly))
          BY <2>3 DEF Repeats
    <3>2. r.st \in Delayed  BY <3>1 DEF Delayed
    <3>3. QED  BY <1>4, <3>1, <3>2
  <2>4. CASE out = send_ack /\ rest = ly /\ s.st = "DISCARDRETRANS" /\ r.st = "WAITSOH"
    <3>1. s.st \in Delayed  BY <2>4 DEF Delayed
    <3>2. QED  BY <1>5, <2>4, <3>1
  <2>5. CASE out = send_nack /\ rest = ly /\ s.st = "DISCARDBYTES" /\ r.st = "WAITSOH"
    <3>1. s.st \in Delayed /\ send_nack # send_ack
          BY <2>5 DEF Delayed, send_nack, send_ack, Byte
    <3>2. QED  BY <1>5, <2>5, <3>1
  <2>6. QED  BY <1>7, <2>1, <2>2, <2>3, <2>4, <2>5 DEF Continues
<1>8. QED  BY <1>6, <1>7 DEF Silent

\* The other end takes the frame it expects, which is the one being written.
LEMMA AcceptAcks ==
    ASSUME Distinguishes, NEW w \in Writers, NEW s \in Readers, s.next = s.no % SeqMod,
           NEW k \in Nat, NEW p \in Nat, NEW n \in 0..MaxFaults,
           NEW lx \in Seq(Items), NEW ly \in Seq(Items),
           ~Has(ly, UpTo(p)), Exchanging(w, s, k, lx, ly, p, n),
           Acked(w, s, lx), Alone(w, s, lx, ly, p),
           NEW r, NEW rest, NEW out, NEW g, NEW t, NEW h, NEW last,
           Accepts(s, r, ly, rest, out, g, t, h, last)
    PROVE  Acked(w, r, lx \o out) /\ Alone(w, r, lx \o out, rest, p)
<1>1. /\ ly # <<>> /\ Head(ly).b = "SOH" /\ Head(ly).good /\ Head(ly).seqno = s.next
      /\ rest = Tail(ly) /\ out = send_ack /\ r.no = s.no + 1 /\ r.st \in {"WAITSOH", "EXIT"}
      BY DEF Accepts, Keeps, Returns
<1>2. Head(ly) \in After(p)  BY <1>1, HeadFrame
<1>3. /\ Tail(ly) \in Seq(Items) /\ ~Has(Tail(ly), After(p)) /\ ~Has(lx, Replies)
      /\ w.st \notin Halfway /\ ~w.frameTO /\ Head(ly).no = Len(w.cuts)
      BY <1>1, <1>2, TakenFrame
<1>4. Head(ly).no = s.no  BY <1>1, <1>2, ExpectedFrame
<1>5. r.no = Len(w.cuts) + 1 /\ r.no >= Len(w.cuts)
  <2>1. w.cuts \in Seq(Nat \ {0})  BY DEF Writers
  <2>2. Len(w.cuts) \in Nat  BY <2>1
  <2>3. QED  BY <1>1, <1>3, <1>4, <2>2
<1>6. AnswerFor(w, r, out)  BY <1>1, <1>3, <1>5 DEF AnswerFor
<1>7. out \in {send_ack, send_nack}  BY <1>1
<1>8. Acked(w, r, lx \o out)  BY <1>3, <1>6, <1>7, AnswerAcked
<1>9. r.st \notin Delayed  BY <1>1 DEF Delayed
<1>10. Alone(w, r, lx \o out, Tail(ly), p)  BY <1>3, <1>9, AloneQuiet
<1>11. QED  BY <1>1, <1>8, <1>10

\* A session that is closed answers no more.
ClosedOr(t, P) == t = "closed" \/ P
LEMMA OtherAcks ==
    ASSUME Distinguishes, NEW w \in Writers, NEW s \in Readers, s.next = s.no % SeqMod,
           NEW k \in Nat, NEW p \in Nat, NEW n \in 0..MaxFaults,
           NEW lx \in Seq(Items), NEW ly \in Seq(Items),
           ~Has(ly, UpTo(p)), Exchanging(w, s, k, lx, ly, p, n),
           Acked(w, s, lx), Alone(w, s, lx, ly, p),
           NEW r, NEW rest, NEW out, NEW g, NEW t, NEW h, NEW last,
           ReadResult(s, r, ly, rest, out, g, t, h, last)
    PROVE  Acked(w, r, lx \o out) /\ ClosedOr(t, Alone(w, r, lx \o out, rest, p))
<1>1. CASE Stays(s, r, g, t, h) /\ Silent(s, r, ly, rest, out)
  <2>1. r.no = s.no  BY <1>1 DEF Stays
  <2>2. Acked(w, r, lx \o out) /\ Alone(w, r, lx \o out, rest, p)  BY <1>1, <2>1, SilentAcks
  <2>3. QED  BY <2>2 DEF ClosedOr
<1>2. CASE r.no = s.no /\ t = "closed" /\ Fails(s, r, ly, rest, out, g, h)
  <2>1. Remains(lx, lx, FALSE) /\ Calmer(w, w)  BY RemainsTail DEF Calmer
  <2>2. out = <<>> /\ Quieter(r, s)  BY <1>2 DEF Fails, Quieter
  <2>3. Acked(w, r, lx)  BY <2>1, <2>2, AckedKept
  <2>4. lx \o out = lx  BY <2>2
  <2>5. QED  BY <1>2, <2>3, <2>4 DEF ClosedOr
<1>3. CASE Accepts(s, r, ly, rest, out, g, t, h, last)
  <2>1. Acked(w, r, lx \o out) /\ Alone(w, r, lx \o out, rest, p)  BY <1>3, AcceptAcks
  <2>2. QED  BY <2>1 DEF ClosedOr
<1>4. QED  BY <1>1, <1>2, <1>3 DEF ReadResult, Silent

-----------------------------------------------------------------------------
(* The acknowledgements of the two ends.                                      *)

\* While a write of x goes on or its last acknowledgement is on its way: what
\* was acknowledged to x, and to y before.
AckAt(x, y) ==
    /\ Acked(wr[x], rd[y], line[x])
    /\ Received(x) >= wr[y].pdata - 1
    /\ wr[x].st \in Halfway => ~Writing(y)
    /\ ClosedOr(turn[y], Alone(wr[x], rd[y], line[x], line[y], Prev(x)))

\* The answers are faster than the frame timer and no number was altered.
Punctual == ~late /\ ~garbled

LEMMA AckedBytes ==
    ASSUME NEW w \in Writers, NEW t, NEW last, WriterOK(w, t, last),
           NEW n \in Nat, n >= Len(w.cuts), NEW k \in Nat, InStep(w, n, k)
    PROVE  k >= w.pdata - 1
<1>1. /\ Len(w.cuts) \in Nat \ {0} /\ Start(w, Len(w.cuts)) = w.pdata
      /\ Start(w, Len(w.cuts) + 1) = w.pdata + Lesser(w.remain, MaxData)
      BY StartIncreases
<1>2. w.pdata \in Nat /\ w.remain \in Nat /\ Lesser(w.remain, MaxData) \in Nat
  <2>1. w.pdata \in Nat /\ w.remain \in Nat  BY DEF Writers
  <2>2. QED  BY <2>1, Constants, LesserType
<1>3. n = Len(w.cuts) \/ n = Len(w.cuts) + 1
  <2> DEFINE m == Len(w.cuts)
  <2>1. m \in Nat /\ n >= m /\ (n <= m + 1 \/ n <= m + 0)  BY <1>1 DEF InStep
  <2> HIDE DEF m
  <2>2. n = m \/ n = m + 1  BY <2>1
  <2>3. QED  BY <2>2 DEF m
<1>4. k + 1 = w.pdata \/ k + 1 = w.pdata + Lesser(w.remain, MaxData)
      BY <1>1, <1>3 DEF InStep
<1>5. QED  BY <1>2, <1>4

\* An event of the owner.
LEMMA AckOwner ==
    ASSUME TypeOK, EndsOK, NEW x \in Ends, LinkAt(x, Peer(x)), AckAt(x, Peer(x)),
           NEW w, NEW event, NEW o, NEW rest, EngineMove(x, w, event, o, rest)
    PROVE  AckAt(x, Peer(x))'
<1> DEFINE y == Peer(x)
<1>1. y \in Ends /\ y # x /\ Peer(y) = x  BY Two
<1> HIDE DEF y
<1>2. LinkAt(x, y) /\ AckAt(x, y)  BY DEF y
<1>3. line[x] \in Seq(Items) /\ line[y] \in Seq(Items) /\ Prev(x) \in Nat
      BY <1>1, ByteTypes DEF TypeOK
<1>4. /\ Waiting(w) /\ Result(o, w, event) /\ WriterOK(o.w, TurnAfter(o), LastByte(x))
      /\ SameState(w, wr[x]) /\ Hearing(wr[x], w, event, line[x], rest)
      /\ wr'[x] = o.w /\ wr'[y] = wr[y]
      /\ line'[x] = rest /\ line'[y] = line[y] \o o.out
      /\ turn'[y] = turn[y] /\ rd' = rd /\ got' = got /\ ends' = ends
      BY <1>1 DEF EngineMove, y, SameState, SameNumbers, Hearing
<1>5. /\ Acked(wr[x], rd[y], line[x]) /\ Received(x) >= wr[y].pdata - 1
      /\ wr[x].st \in Halfway => ~Writing(y)
      /\ turn[y] = "closed" \/ Alone(wr[x], rd[y], line[x], line[y], Prev(x))
      BY <1>2 DEF AckAt, ClosedOr
<1>6. Received(x)' = Received(x) /\ Prev(x)' = Prev(x) /\ (Writing(y)' <=> Writing(y))
      BY <1>4 DEF Received, Prev, Writing
<1>7. ~Before(line[x], Replies, Frames) /\ (Writing(y) => ~Has(line[x], Replies))
      BY <1>2 DEF LinkAt, Lines
<1>8. Undelayed(rd[y], line[x])
  <2>1. CASE turn[y] = "closed"
    <3>1. rd[y].st = "EXIT"  BY <1>1, <2>1 DEF EndsOK, ReaderOK
    <3>2. QED  BY <3>1 DEF Undelayed, Delayed
  <2>2. CASE Alone(wr[x], rd[y], line[x], line[y], Prev(x))  BY <2>2 DEF Undelayed, Alone
  <2>3. QED  BY <1>5, <2>1, <2>2
<1>9. Acked(o.w, rd[y], rest)  BY <1>3, <1>4, <1>5, <1>7, <1>8, OwnerAcked
<1>10. ClosedOr(turn[y], Alone(o.w, rd[y], rest, line[y] \o o.out, Prev(x)))
  <2>1. CASE turn[y] = "closed"  BY <2>1 DEF ClosedOr
  <2>2. CASE Alone(wr[x], rd[y], line[x], line[y], Prev(x))
    <3>1. SendsCurrent(o)  BY <1>4, SentNumber
    <3>2. Alone(o.w, rd[y], rest, line[y] \o o.out, Prev(x))
          BY <1>3, <1>4, <1>5, <2>2, <3>1, OwnerAlone
    <3>3. QED  BY <3>2 DEF ClosedOr
  <2>3. QED  BY <1>5, <2>1, <2>2
<1>11. o.w.st \in Halfway => ~Writing(y)
  <2>1. SUFFICES ASSUME o.w.st \in Halfway, wr[x].st \notin Halfway PROVE ~Writing(y)  BY <1>5
  <2>2. event \in {"ACK", "NACK"}
        BY <1>4, <2>1, OutcomeState DEF Calmer, Resends, MovesOn, Halfway
  <2>3. event \in {"ACK", "ACKCOMP", "NACK", "NACKCOMP"}  BY <2>2
  <2>4. line[x] # <<>> /\ Head(line[x]) \in Replies  BY <1>3, <1>4, <2>3, HearingReply
  <2>5. Has(line[x], Replies)  BY <1>3, <2>4, HeadHas
  <2>6. QED  BY <1>7, <2>5
<1>12. AckAt(x, y)'  BY <1>4, <1>5, <1>6, <1>9, <1>10, <1>11 DEF AckAt, ClosedOr
<1>13. QED  BY <1>12 DEF y

\* Frames, and no answers, behind a line without answers.
LEMMA FramesBehind ==
    ASSUME NEW w, w.st \notin Halfway, NEW r, NEW lx \in Seq(Items), ~Has(lx, Replies),
           NEW out \in Seq(Items), ~Has(out, Replies), Acked(w, r, lx),
           NEW ly, NEW p, Alone(w, r, lx, ly, p)
    PROVE  Acked(w, r, lx \o out) /\ Alone(w, r, lx \o out, ly, p)
<1>1. ~Has(lx \o out, Replies) /\ Len(lx \o out) \in Nat  BY HasJoin
<1>2. Acks \subseteq Replies  BY ItemKinds, 0 \in Nat
<1>3. ~Has(lx \o out, Acks)  BY <1>1, <1>2 DEF Has
<1>4. ~Before(lx \o out, Acks, Replies)  BY <1>1 DEF Before, Has
<1>5. Count(lx \o out, Replies) <= 2
  <2>1. Count(lx \o out, Replies) = 0  BY <1>1, CountNone
  <2>2. QED  BY <2>1
<1>6. Acked(w, r, lx \o out)  BY <1>3, <1>4, <1>5 DEF Acked
<1>7. Alone(w, r, lx \o out, ly, p)  BY <1>1 DEF Alone
<1>8. QED  BY <1>6, <1>7

\* An event of the other's writer.
LEMMA AckOther ==
    ASSUME TypeOK, EndsOK, NEW x \in Ends, LinkAt(x, Peer(x)), AckAt(x, Peer(x)),
           NEW w, NEW event, NEW o, NEW rest, EngineMove(Peer(x), w, event, o, rest)
    PROVE  AckAt(x, Peer(x))'
<1> DEFINE y == Peer(x)
<1>1. y \in Ends /\ y # x /\ Peer(y) = x  BY Two
<1> HIDE DEF y
<1>2. LinkAt(x, y) /\ AckAt(x, y) /\ EngineMove(y, w, event, o, rest)  BY DEF y
<1>3. line[x] \in Seq(Items) /\ line[y] \in Seq(Items) /\ Prev(x) \in Nat /\ LastByte(y) \in Nat
      BY <1>1, ByteTypes DEF TypeOK
<1>4. /\ turn[y] = "write" /\ wr[y].st # "EXIT" /\ Waiting(w) /\ Result(o, w, event)
      /\ WriterOK(o.w, TurnAfter(o), LastByte(y))
      /\ rest = line[y] \/ (line[y] # <<>> /\ rest = Tail(line[y]))
      /\ wr'[y] = o.w /\ wr'[x] = wr[x]
      /\ line'[y] = rest /\ line'[x] = line[x] \o o.out /\ o.out \in Seq(Items)
      /\ rd' = rd /\ got' = got /\ ends' = ends
      BY <1>1, <1>2 DEF EngineMove
<1>5. Writing(y)  BY <1>4 DEF Writing
<1>6. /\ Acked(wr[x], rd[y], line[x]) /\ wr[x].st \notin Halfway
      /\ Alone(wr[x], rd[y], line[x], line[y], Prev(x))
      BY <1>2, <1>4, <1>5 DEF AckAt, ClosedOr
<1>7. Received(x)' = Received(x) /\ Prev(x)' = Prev(x)  BY <1>4 DEF Received, Prev
<1>8. ~Has(line[x], Replies) /\ Received(x) = LastByte(y)
      BY <1>2, <1>4, <1>5 DEF LinkAt, Lines, Answered
<1>9. ~Has(o.out, Replies)
  <2>1. OneOrNone(o.out, o.w.pdata, LastByte(y))  BY <1>3, <1>4, SentItems
  <2>2. CASE o.out = <<>>  BY <2>2, NoItem
  <2>3. CASE \E f \in Frames : o.out = <<f>>
    <3>1. PICK f \in Frames : o.out = <<f>>  BY <2>3
    <3>2. f \notin Replies  BY ItemKinds, 0 \in Nat
    <3>3. QED  BY <3>1, <3>2, OneItem
  <2>4. QED  BY <2>1, <2>2, <2>3 DEF OneOrNone
<1>10. rest \in Seq(Items) /\ Remains(rest, line[y], FALSE) /\ Remains(line[x], line[x], FALSE)
       BY <1>3, <1>4, RemainsTail
<1>11. Calmer(wr[x], wr[x]) /\ Readier(rd[y], rd[y])  BY DEF Calmer, Readier
<1>12. Alone(wr[x], rd[y], line[x], rest, Prev(x))  BY <1>3, <1>6, <1>10, <1>11, AloneKept
<1>13. /\ Acked(wr[x], rd[y], line[x] \o o.out)
       /\ Alone(wr[x], rd[y], line[x] \o o.out, rest, Prev(x))
       BY <1>3, <1>4, <1>6, <1>8, <1>9, <1>12, FramesBehind
<1>14. LastByte(y) >= o.w.pdata - 1
  <2>1. o.w \in Writers  BY <1>4 DEF Result
  <2>2. o.w.pdata \in Nat /\ o.w.remain \in Nat  BY <2>1 DEF Writers
  <2>3. o.w.pdata + o.w.remain = LastByte(y) + 1  BY <1>4 DEF WriterOK
  <2>4. QED  BY <1>3, <2>2, <2>3
<1>15. AckAt(x, y)'  BY <1>4, <1>6, <1>7, <1>8, <1>13, <1>14 DEF AckAt, ClosedOr
<1>16. QED  BY <1>15 DEF y

\* A step of the owner's reader.
LEMMA AckOwnerReads ==
    ASSUME TypeOK, EndsOK, NEW x \in Ends, LinkAt(x, Peer(x)), AckAt(x, Peer(x)),
           NEW r, NEW rest, NEW out, NEW t, NEW h, ReaderMove(x, r, rest, out, t, h)
    PROVE  AckAt(x, Peer(x))'
<1> DEFINE y == Peer(x)
<1>1. y \in Ends /\ y # x /\ Peer(y) = x  BY Two
<1> HIDE DEF y
<1>2. LinkAt(x, y) /\ AckAt(x, y)  BY DEF y
<1>3. /\ rd[x] \in Readers /\ line[x] \in Seq(Items) /\ line[y] \in Seq(Items) /\ Prev(x) \in Nat
      /\ got[x] \in Seq(Nat \ {0})
      BY <1>1, ByteTypes DEF TypeOK
<1>4. /\ turn[x] = "read" /\ ReadResult(rd[x], r, line[x], rest, out, got[x], t, h, LastByte(y))
      /\ r \in Readers
      /\ rd'[x] = r /\ rd'[y] = rd[y] /\ line'[x] = rest /\ line'[y] = line[y] \o out
      /\ turn'[y] = turn[y] /\ got'[x] = h /\ wr' = wr /\ ends' = ends
      BY <1>1 DEF ReaderMove, y
<1>5. /\ rd[x].st \in {"EXIT", "WAITSOH"} /\ rd[x].buf = <<>> /\ ~Has(line[x], Frames)
      BY <1>2, <1>4 DEF LinkAt, Modes, Lines
<1>6. ReaderOK(rd[x], "read", got[x])  BY <1>1, <1>4 DEF EndsOK
<1>7. h = got[x] /\ r.buf = <<>> /\ out = <<>> /\ rest \in Seq(Items) /\ Remains(rest, line[x], FALSE)
  <2>1. PICK last : last = LastByte(y)  OBVIOUS
  <2>2. /\ rd[x] \in Readers /\ rd[x].st \in {"EXIT", "WAITSOH"} /\ rd[x].buf = <<>>
        /\ got[x] \in Seq(Nat \ {0}) /\ ReaderOK(rd[x], "read", got[x])
        /\ line[x] \in Seq(Items) /\ ~Has(line[x], Frames) /\ r \in Readers
        /\ ReadResult(rd[x], r, line[x], rest, out, got[x], t, h, last)
        BY <1>3, <1>4, <1>5, <1>6, <2>1
  <2>3. /\ ReaderOK(r, t, h) /\ r.no = rd[x].no /\ r.buf = <<>> /\ h = got[x] /\ out = <<>>
        /\ r.st \in {"EXIT", "WAITSOH"} /\ t \in {"read", "closed"}
        /\ rest \in Seq(Items) /\ Remains(rest, line[x], FALSE)
        BY <2>2, OwnerReads
  <2>4. QED  BY <2>3
<1>8. line'[y] = line[y] /\ Remains(line[y], line[y], FALSE)
  <2>1. line[y] \o <<>> = line[y]  BY <1>3
  <2>2. QED  BY <1>3, <1>4, <1>7, <2>1, RemainsTail
<1>9. /\ Received(x)' = Received(x) /\ Prev(x)' = Prev(x) /\ (Writing(y)' <=> Writing(y))
      BY <1>4, <1>5, <1>7 DEF Received, Prev, Writing
<1>10. Calmer(wr[x], wr[x]) /\ Quieter(rd[y], rd[y]) /\ Readier(rd[y], rd[y])
       BY DEF Calmer, Quieter, Readier
<1>11. Acked(wr[x], rd[y], rest)
  <2>1. Acked(wr[x], rd[y], line[x])  BY <1>2 DEF AckAt
  <2>2. QED  BY <1>3, <1>7, <1>10, <2>1, AckedKept
<1>12. ClosedOr(turn[y], Alone(wr[x], rd[y], rest, line[y], Prev(x)))
  <2>1. CASE turn[y] = "closed"  BY <2>1 DEF ClosedOr
  <2>2. CASE turn[y] # "closed"
    <3>1. Alone(wr[x], rd[y], line[x], line[y], Prev(x))  BY <1>2, <2>2 DEF AckAt, ClosedOr
    <3>2. Alone(wr[x], rd[y], rest, line[y], Prev(x))
          BY <1>3, <1>7, <1>8, <1>10, <3>1, AloneKept
    <3>3. QED  BY <3>2 DEF ClosedOr
  <2>3. QED  BY <2>1, <2>2
<1>13. AckAt(x, y)'  BY <1>2, <1>4, <1>8, <1>9, <1>11, <1>12 DEF AckAt, ClosedOr
<1>14. QED  BY <1>13 DEF y

\* A step of the other's reader.
LEMMA AckOtherReads ==
    ASSUME Distinguishes, TypeOK, EndsOK, NEW x \in Ends, LinkAt(x, Peer(x)), AckAt(x, Peer(x)),
           NEW r, NEW rest, NEW out, NEW t, NEW h, ReaderMove(Peer(x), r, rest, out, t, h)
    PROVE  AckAt(x, Peer(x))'
<1> DEFINE y == Peer(x)
<1>1. y \in Ends /\ y # x /\ Peer(y) = x  BY Two
<1> HIDE DEF y
<1>2. LinkAt(x, y) /\ AckAt(x, y) /\ ReaderMove(y, r, rest, out, t, h)  BY DEF y
<1>3. /\ wr[x] \in Writers /\ rd[y] \in Readers /\ line[x] \in Seq(Items) /\ line[y] \in Seq(Items)
      /\ Prev(x) \in Nat /\ faults \in 0..MaxFaults /\ Received(y) \in Nat
      BY <1>1, ByteTypes DEF TypeOK
<1>4. /\ turn[y] = "read" /\ ReadResult(rd[y], r, line[y], rest, out, got[y], t, h, LastByte(x))
      /\ r \in Readers
      /\ rd'[y] = r /\ rd'[x] = rd[x] /\ line'[y] = rest /\ line'[x] = line[x] \o out
      /\ turn'[y] = t /\ got'[x] = got[x] /\ wr' = wr /\ ends' = ends
      BY <1>1, <1>2 DEF ReaderMove
<1>5. wr[y].st = "EXIT" /\ rd[y].next = rd[y].no % SeqMod
      BY <1>1, <1>4 DEF EndsOK, WriterOK, ReaderOK
<1>6. /\ Received(x)' = Received(x) /\ Prev(x)' = Prev(x) /\ ~Writing(y)'
      BY <1>4, <1>5 DEF Received, Prev, Writing
<1>7. Acked(wr[x], rd[y], line[x]) /\ Alone(wr[x], rd[y], line[x], line[y], Prev(x))
      BY <1>2, <1>4 DEF AckAt, ClosedOr
<1>8. /\ Acked(wr[x], r, line[x] \o out)
      /\ ClosedOr(t, Alone(wr[x], r, line[x] \o out, rest, Prev(x)))
  <2>1. ~Has(line[y], UpTo(Prev(x)))  BY <1>2, <1>4 DEF LinkAt, Lines
  <2>2. Exchanging(wr[x], rd[y], Received(y), line[x], line[y], Prev(x), faults)
        BY <1>2 DEF LinkAt, Exchange
  <2>3. PICK p \in Nat, k \in Nat, n \in 0..MaxFaults :
            p = Prev(x) /\ k = Received(y) /\ n = faults
        BY <1>3
  <2>4. /\ ~Has(line[y], UpTo(p)) /\ Exchanging(wr[x], rd[y], k, line[x], line[y], p, n)
        /\ Alone(wr[x], rd[y], line[x], line[y], p)
        BY <1>7, <2>1, <2>2, <2>3
  <2>5. Acked(wr[x], r, line[x] \o out) /\ ClosedOr(t, Alone(wr[x], r, line[x] \o out, rest, p))
        BY <1>3, <1>4, <1>5, <1>7, <2>4, OtherAcks
  <2>6. QED  BY <2>3, <2>5
<1>9. AckAt(x, y)'  BY <1>2, <1>4, <1>6, <1>8 DEF AckAt, ClosedOr
<1>10. QED  BY <1>9 DEF y

\* The other end begins to write, and what it says is acknowledged from there.
LEMMA AckWrite ==
    ASSUME TypeOK, EndsOK, NEW x \in Ends, LinkAt(x, Peer(x)), AckAt(x, Peer(x)),
           NEW n, NEW o, WriteMove(Peer(x), n, o), EndsOK', TypeOK'
    PROVE  AckAt(Peer(x), x)'
<1> DEFINE y == Peer(x)
<1>1. y \in Ends /\ y # x /\ Peer(y) = x  BY Two
<1> HIDE DEF y
<1>2. LinkAt(x, y) /\ AckAt(x, y) /\ WriteMove(y, n, o)  BY DEF y
<1>3. /\ wr[x] \in Writers /\ rd[y] \in Readers /\ wr[y] \in Writers /\ rd[x] \in Readers
      /\ line[x] \in Seq(Items) /\ line[y] \in Seq(Items)
      /\ LastByte(x) \in Nat /\ LastByte(y) \in Nat /\ Received(y) \in Nat
      BY <1>1, ByteTypes DEF TypeOK
<1>4. /\ n \in Sizes /\ turn[y] = "write" /\ wr[y].st = "EXIT"
      /\ o.w \in Writers /\ o.w.st = "FRAMESENDED" /\ ~o.w.frameTO /\ o.w.remain = n
      /\ o.w.cuts = wr[y].cuts
      /\ o.out = <<>> \/ o.out = <<make_dmframe(o.w, FALSE)>>
      /\ wr'[y] = o.w /\ wr'[x] = wr[x] /\ line'[y] = line[y] /\ line'[x] = line[x] \o o.out
      /\ rd' = rd /\ got' = got /\ ends' = [ends EXCEPT ![y] = ends'[y]]
      /\ ends'[y] = Append(ends[y], LastByte(y) + n) /\ ends'[x] = ends[x] /\ turn'[x] = turn[x]
  <2>1. ends' \in [Ends -> Seq(Nat \ {0})] /\ ends \in [Ends -> Seq(Nat \ {0})]  BY DEF TypeOK
  <2>2. /\ ends'[y] = Append(ends[y], LastByte(y) + n) /\ ends'[x] = ends[x]
        BY <1>1, <1>2 DEF WriteMove
  <2>3. \A z \in Ends : z = x \/ z = y  BY Two DEF y
  <2>4. ends' = [ends EXCEPT ![y] = ends'[y]]  BY <1>1, <2>1, <2>2, <2>3
  <2>5. QED  BY <1>1, <1>2, <2>2, <2>4 DEF WriteMove
<1>5. n \in Nat /\ n > 0  BY <1>4, Constants
<1>6. Prev(y)' = LastByte(y)  BY <1>1, <1>4, <1>5, WriteBytes
<1>7. Received(y)' = Received(y)  BY <1>4 DEF Received
<1>8. ~Writing(y) /\ Idle(y)  BY <1>4 DEF Writing, Idle
<1>9. rd[x].no = Len(o.w.cuts) /\ Len(o.w.cuts) \in Nat
  <2>1. rd[x].no = Len(wr[y].cuts) + 0  BY <1>2, <1>4, <1>8 DEF LinkAt, Answered
  <2>2. o.w.cuts \in Seq(Nat \ {0})  BY <1>4 DEF Writers
  <2>3. QED  BY <1>4, <2>1, <2>2
<1>10. ~Has(line[y], Replies) /\ rd[x].st \in {"EXIT", "WAITSOH"}
       BY <1>2, <1>8 DEF LinkAt, Lines, Modes
<1>11. ~Has(line[x], After(LastByte(y)))  BY <1>1 DEF EndsOK, y
<1>12. Acked(o.w, rd[x], line[y])
  <2>1. Acks \subseteq Replies  BY ItemKinds, 0 \in Nat
  <2>2. ~Has(line[y], Acks) /\ ~Before(line[y], Acks, Replies)  BY <1>10, <2>1 DEF Has, Before
  <2>3. Count(line[y], Replies) <= 2
    <3>1. Len(line[y]) \in Nat  BY <1>3
    <3>2. Count(line[y], Replies) = 0  BY <1>10, <3>1, CountNone
    <3>3. QED  BY <3>2
  <2>4. o.w.st \notin Halfway  BY <1>4 DEF Halfway
  <2>5. rd[x].no >= Len(o.w.cuts) /\ rd[x].st # "DISCARDRETRANS"  BY <1>9, <1>10
  <2>6. QED  BY <2>2, <2>3, <2>4, <2>5 DEF Acked
<1>13. Alone(o.w, rd[x], line[y], line[x] \o o.out, LastByte(y))
  <2>1. rd[x].st \notin Delayed /\ o.w.st \notin Halfway  BY <1>4, <1>10 DEF Delayed, Halfway
  <2>2. CASE o.out = <<>>
    <3>1. line[x] \o <<>> = line[x]  BY <1>3
    <3>2. Alone(o.w, rd[x], line[y], line[x], LastByte(y))
          BY <1>3, <1>10, <1>11, <2>1, AloneNothing
    <3>3. QED  BY <2>2, <3>1, <3>2
  <2>3. CASE o.out = <<make_dmframe(o.w, FALSE)>>
    <3> DEFINE f == make_dmframe(o.w, FALSE)
    <3>1. WriterOK(o.w, turn'[y], LastByte(y)')  BY <1>1, <1>4 DEF EndsOK
    <3>2. f \in Frames /\ f.no = Len(o.w.cuts) /\ f.seqno = f.no % SeqMod
          BY <1>4, <1>5, <3>1, SentFrame
    <3> HIDE DEF f
    <3>3. Alone(o.w, rd[x], line[y], line[x] \o <<f>>, LastByte(y))
          BY <1>3, <1>4, <1>10, <1>11, <2>1, <3>2, AloneSend
    <3>4. o.out = <<f>>  BY <2>3 DEF f
    <3>5. QED  BY <3>3, <3>4
  <2>4. QED  BY <1>4, <2>2, <2>3
<1>14. Received(y) >= wr[x].pdata - 1
  <2>1. Acked(wr[x], rd[y], line[x]) /\ InStep(wr[x], rd[y].no, Received(y))
        BY <1>2 DEF AckAt, LinkAt, Exchange, Exchanging
  <2>2. WriterOK(wr[x], turn[x], LastByte(x)) /\ rd[y].no \in Nat /\ rd[y].no >= Len(wr[x].cuts)
        BY <1>1, <1>3, <2>1 DEF EndsOK, Readers, Acked
  <2>3. QED  BY <1>3, <2>1, <2>2, AckedBytes
<1>15. o.w.st \notin Halfway  BY <1>4 DEF Halfway
<1>16. AckAt(y, x)'  BY <1>4, <1>6, <1>7, <1>12, <1>13, <1>14, <1>15 DEF AckAt, ClosedOr
<1>17. QED  BY <1>16 DEF y

\* A damage of the line that alters no number.
LEMMA AckLine ==
    ASSUME TypeOK, NEW x \in Ends, AckAt(x, Peer(x)),
           NEW e \in Ends, NEW t, NEW b, LineMove(e, t, b), Punctual'
    PROVE  AckAt(x, Peer(x))'
<1> DEFINE y == Peer(x)
<1>1. y \in Ends /\ y # x /\ \A z \in Ends : z = x \/ z = y  BY Two
<1> HIDE DEF y
<1>2. AckAt(x, y) /\ Peer(y) = x /\ Peer(x) = y  BY Two DEF y
<1>3. line[x] \in Seq(Items) /\ line[y] \in Seq(Items) /\ Prev(x) \in Nat
      BY <1>1, ByteTypes DEF TypeOK
<1>4. b = FALSE  BY DEF LineMove, Alters, Punctual
<1>5. /\ t \in Seq(Items) /\ Remains(t, line[e], FALSE)
      /\ line'[e] = t /\ line'[Peer(e)] = line[Peer(e)]
      /\ wr' = wr /\ rd' = rd /\ turn' = turn /\ ends' = ends /\ got' = got
      BY <1>4 DEF LineMove
<1>6. /\ line'[x] \in Seq(Items) /\ Remains(line'[x], line[x], FALSE)
      /\ line'[y] \in Seq(Items) /\ Remains(line'[y], line[y], FALSE)
  <2>1. Remains(line[x], line[x], FALSE) /\ Remains(line[y], line[y], FALSE)  BY <1>3, RemainsTail
  <2>2. CASE e = x  BY <1>2, <1>3, <1>5, <2>1, <2>2
  <2>3. CASE e = y  BY <1>2, <1>3, <1>5, <2>1, <2>3
  <2>4. QED  BY <1>1, <2>2, <2>3
<1>7. Received(x)' = Received(x) /\ Prev(x)' = Prev(x) /\ (Writing(y)' <=> Writing(y))
      BY <1>5 DEF Received, Prev, Writing
<1>8. Calmer(wr[x], wr[x]) /\ Quieter(rd[y], rd[y]) /\ Readier(rd[y], rd[y])
      BY DEF Calmer, Quieter, Readier
<1>9. Acked(wr[x], rd[y], line'[x])
  <2>1. Acked(wr[x], rd[y], line[x])  BY <1>2 DEF AckAt
  <2>2. QED  BY <1>3, <1>6, <1>8, <2>1, AckedKept
<1>10. ClosedOr(turn[y], Alone(wr[x], rd[y], line'[x], line'[y], Prev(x)))
  <2>1. CASE turn[y] = "closed"  BY <2>1 DEF ClosedOr
  <2>2. CASE turn[y] # "closed"
    <3>1. Alone(wr[x], rd[y], line[x], line[y], Prev(x))  BY <1>2, <2>2 DEF AckAt, ClosedOr
    <3>2. Alone(wr[x], rd[y], line'[x], line'[y], Prev(x))
          BY <1>3, <1>6, <1>8, <3>1, AloneKept
    <3>3. QED  BY <3>2 DEF ClosedOr
  <2>3. QED  BY <2>1, <2>2
<1>11. AckAt(x, y)'  BY <1>2, <1>5, <1>7, <1>9, <1>10 DEF AckAt, ClosedOr
<1>12. QED  BY <1>11 DEF y

\* Only flags change, and not to say that the frame timer of the owner expired.
LEMMA AckFlags ==
    ASSUME TypeOK, NEW x \in Ends, NEW y \in Ends, AckAt(x, y),
           line' = line, turn' = turn, ends' = ends, got' = got, rd'[x].buf = rd[x].buf,
           Calmer(wr'[x], wr[x]), wr'[y].st = wr[y].st, wr'[y].pdata = wr[y].pdata,
           Quieter(rd'[y], rd[y]), Readier(rd'[y], rd[y])
    PROVE  AckAt(x, y)'
<1>1. line[x] \in Seq(Items) /\ line[y] \in Seq(Items) /\ Prev(x) \in Nat
      BY ByteTypes DEF TypeOK
<1>2. Remains(line[x], line[x], FALSE) /\ Remains(line[y], line[y], FALSE)  BY <1>1, RemainsTail
<1>3. Received(x)' = Received(x) /\ Prev(x)' = Prev(x) /\ (Writing(y)' <=> Writing(y))
      BY DEF Received, Prev, Writing
<1>4. Acked(wr'[x], rd'[y], line[x])
  <2>1. Acked(wr[x], rd[y], line[x])  BY DEF AckAt
  <2>2. QED  BY <1>1, <1>2, <2>1, AckedKept
<1>5. ClosedOr(turn[y], Alone(wr'[x], rd'[y], line[x], line[y], Prev(x)))
  <2>1. CASE turn[y] = "closed"  BY <2>1 DEF ClosedOr
  <2>2. CASE turn[y] # "closed"
    <3>1. Alone(wr[x], rd[y], line[x], line[y], Prev(x))  BY <2>2 DEF AckAt, ClosedOr
    <3>2. Alone(wr'[x], rd'[y], line[x], line[y], Prev(x))  BY <1>1, <1>2, <3>1, AloneKept
    <3>3. QED  BY <3>2 DEF ClosedOr
  <2>3. QED  BY <2>1, <2>2
<1>6. wr'[x].st \in Halfway => ~Writing(y)  BY DEF AckAt, Calmer
<1>7. Received(x) >= wr'[y].pdata - 1  BY DEF AckAt
<1>8. QED  BY <1>3, <1>4, <1>5, <1>6, <1>7 DEF AckAt, ClosedOr

\* The timers: that of the owner's frame expires once nothing is on its way.
LEMMA AckTimers ==
    ASSUME TypeOK, EndsOK, NEW x \in Ends, AckAt(x, Peer(x)), NEW e \in Ends, TimerThread(e), ~late
    PROVE  AckAt(x, Peer(x))'
<1> DEFINE y == Peer(x)
<1>1. y \in Ends /\ y # x  BY Two
<1> HIDE DEF y
<1>2. AckAt(x, y) /\ Peer(x) = y  BY DEF y
<1>3. wr \in [Ends -> Writers] /\ rd \in [Ends -> Readers]  BY DEF TypeOK
<1>4. line' = line /\ turn' = turn /\ ends' = ends /\ got' = got
      BY DEF TimerThread, OnlyFlags, txframe_timer_handler, txuplayer_timer_handler, rxuplayer_timer_handler
<1>5. CASE txframe_timer_handler(e) /\ e = x
  <2>1. /\ wr' = [wr EXCEPT ![x].frameTO = TRUE] /\ rd' = rd /\ Overdue(x)
        BY <1>5 DEF txframe_timer_handler
  <2>2. /\ wr'[x].st = wr[x].st /\ wr'[x].cuts = wr[x].cuts /\ wr'[y] = wr[y]
        BY <1>1, <1>3, <2>1 DEF Writers
  <2>3. Received(x)' = Received(x) /\ Prev(x)' = Prev(x) /\ (Writing(y)' <=> Writing(y))
        BY <1>4, <2>1, <2>2 DEF Received, Prev, Writing
  <2>4. Acked(wr'[x], rd[y], line[x])  BY <1>2, <2>2 DEF AckAt, Acked
  <2>5. ClosedOr(turn[y], Alone(wr'[x], rd[y], line[x], line[y], Prev(x)))
    <3>1. CASE turn[y] = "closed"  BY <3>1 DEF ClosedOr
    <3>2. CASE line[x] = <<>> /\ line[y] = <<>> /\ rd[y].st \notin {"DISCARDBYTES", "DISCARDRETRANS"}
      <4>1. rd[y].st \notin Delayed  BY <3>2 DEF Delayed
      <4>2. ~Has(line[x], Replies) /\ ~Has(line[y], After(Prev(x)))  BY <3>2, NoItem
      <4>3. line[y] \in Seq(Items)  BY <1>1 DEF TypeOK
      <4>4. Alone(wr'[x], rd[y], line[x], line[y], Prev(x))  BY <4>1, <4>2, <4>3, AloneNothing
      <4>5. QED  BY <4>4 DEF ClosedOr
    <3>3. QED  BY <1>2, <2>1, <3>1, <3>2 DEF Overdue
  <2>6. wr'[x].st \in Halfway => ~Writing(y)  BY <1>2, <2>2 DEF AckAt
  <2>7. QED  BY <1>2, <1>4, <2>1, <2>2, <2>3, <2>4, <2>5, <2>6 DEF AckAt, ClosedOr, y
<1>6. CASE ~(txframe_timer_handler(e) /\ e = x)
  <2>1. \/ e # x /\ wr' = [wr EXCEPT ![e].frameTO = TRUE] /\ rd' = rd
        \/ wr' = [wr EXCEPT ![e].uplayerTO = TRUE] /\ rd' = rd
        \/ rd' = [rd EXCEPT ![e].uplayerTO = TRUE] /\ wr' = wr
        BY <1>6 DEF TimerThread, txframe_timer_handler, txuplayer_timer_handler, rxuplayer_timer_handler
  <2>2. /\ wr'[x].st = wr[x].st /\ wr'[x].cuts = wr[x].cuts /\ wr'[x].frameTO = wr[x].frameTO
        /\ wr'[y].st = wr[y].st /\ wr'[y].pdata = wr[y].pdata
        /\ rd'[x].buf = rd[x].buf /\ rd'[y].st = rd[y].st /\ rd'[y].no = rd[y].no
    <3>1. CASE e # x /\ wr' = [wr EXCEPT ![e].frameTO = TRUE] /\ rd' = rd
          BY <1>1, <1>3, <3>1 DEF Writers
    <3>2. CASE wr' = [wr EXCEPT ![e].uplayerTO = TRUE] /\ rd' = rd
          BY <1>1, <1>3, <3>2 DEF Writers
    <3>3. CASE rd' = [rd EXCEPT ![e].uplayerTO = TRUE] /\ wr' = wr
          BY <1>1, <1>3, <3>3 DEF Readers
    <3>4. QED  BY <2>1, <3>1, <3>2, <3>3
  <2>3. Calmer(wr'[x], wr[x]) /\ Quieter(rd'[y], rd[y]) /\ Readier(rd'[y], rd[y])
        BY <2>2 DEF Calmer, Quieter, Readier
  <2>4. AckAt(x, y)'  BY <1>1, <1>2, <1>4, <2>2, <2>3, AckFlags
  <2>5. QED  BY <2>4 DEF y
<1>7. QED  BY <1>5, <1>6

\* What is acknowledged, while the answers are punctual.
AckInv ==
    /\ TypeOK /\ EndsOK
    /\ \E x \in Ends : LinkAt(x, Peer(x)) /\ (Punctual => AckAt(x, Peer(x)))

LEMMA InitAcked ==
    ASSUME Init
    PROVE  AckInv
<1>1. IInv  BY InitInvariant
<1>2. PICK x \in Ends : LinkAt(x, Peer(x))  BY <1>1 DEF IInv
<1> DEFINE y == Peer(x)
<1>3. y \in Ends  BY Two
<1> HIDE DEF y
<1>4. /\ wr[x].st = "EXIT" /\ wr[x].cuts = <<1>> /\ ~wr[x].frameTO /\ wr[y].pdata = 1
      /\ rd[y].st = "EXIT" /\ rd[y].no = 1 /\ line[x] = <<>> /\ line[y] = <<>>
      BY <1>2, <1>3 DEF Init
<1>5. Acked(wr[x], rd[y], line[x])
  <2>1. ~Has(line[x], Acks) /\ ~Before(line[x], Acks, Replies)  BY <1>4, NoItem
  <2>2. Count(line[x], Replies) <= 2
    <3>1. Len(line[x]) \in Nat /\ ~Has(line[x], Replies)  BY <1>4, NoItem
    <3>2. Count(line[x], Replies) = 0  BY <3>1, CountNone
    <3>3. QED  BY <3>2
  <2>3. rd[y].no >= Len(wr[x].cuts)  BY <1>4
  <2>4. QED  BY <1>4, <2>1, <2>2, <2>3 DEF Acked, Halfway
<1>6. Alone(wr[x], rd[y], line[x], line[y], Prev(x))
  <2>1. rd[y].st \notin Delayed  BY <1>4 DEF Delayed
  <2>2. ~Has(line[x], Replies) /\ ~Has(line[y], After(Prev(x))) /\ line[y] \in Seq(Items)
        BY <1>4, NoItem
  <2>3. QED  BY <2>1, <2>2, AloneNothing
<1>7. Received(x) >= wr[y].pdata - 1
  <2>1. Received(x) \in Nat  BY <1>1, <1>2, ByteTypes DEF IInv
  <2>2. QED  BY <1>4, <2>1
<1>8. AckAt(x, y)  BY <1>4, <1>5, <1>6, <1>7 DEF AckAt, ClosedOr, Halfway
<1>9. QED  BY <1>1, <1>2, <1>8 DEF AckInv, IInv, y

\* Once late or garbled, always.
LEMMA Punctuality ==
    ASSUME NEW x \in Ends, SameOwner(x) \/ NewOwner(x), Punctual'
    PROVE  Punctual
<1>1. (\E w, event, o, rest : EngineMove(x, w, event, o, rest)) => Punctual
      BY DEF EngineMove, Punctual
<1>2. (\E w, event, o, rest : EngineMove(Peer(x), w, event, o, rest)) => Punctual
      BY DEF EngineMove, Punctual
<1>3. (\E r, rest, out, t, h : ReaderMove(x, r, rest, out, t, h)) => Punctual
      BY DEF ReaderMove, Punctual
<1>4. (\E r, rest, out, t, h : ReaderMove(Peer(x), r, rest, out, t, h)) => Punctual
      BY DEF ReaderMove, Punctual
<1>5. (\E e \in Ends : \E t, b : LineMove(e, t, b)) => Punctual
      BY DEF LineMove, Alters, Punctual
<1>6. (\E e \in Ends : TimerThread(e)) => Punctual
      BY DEF TimerThread, OnlyFlags, txframe_timer_handler, txuplayer_timer_handler,
             rxuplayer_timer_handler, Punctual
<1>7. vars' = vars => Punctual  BY DEF vars, Punctual
<1>8. NewOwner(x) => Punctual  BY DEF NewOwner, WriteMove, Punctual
<1>9. QED  BY <1>1, <1>2, <1>3, <1>4, <1>5, <1>6, <1>7, <1>8 DEF SameOwner

LEMMA AckSameOwner ==
    ASSUME Distinguishes, TypeOK, EndsOK, NEW x \in Ends, LinkAt(x, Peer(x)), AckAt(x, Peer(x)),
           SameOwner(x), Punctual, Punctual'
    PROVE  AckAt(x, Peer(x))'
<1>1. CASE \E w, event, o, rest : EngineMove(x, w, event, o, rest)
  <2>1. PICK w, event, o, rest : EngineMove(x, w, event, o, rest)  BY <1>1
  <2>2. QED  BY <2>1, AckOwner
<1>2. CASE \E w, event, o, rest : EngineMove(Peer(x), w, event, o, rest)
  <2>1. PICK w, event, o, rest : EngineMove(Peer(x), w, event, o, rest)  BY <1>2
  <2>2. QED  BY <2>1, AckOther
<1>3. CASE \E r, rest, out, t, h : ReaderMove(x, r, rest, out, t, h)
  <2>1. PICK r, rest, out, t, h : ReaderMove(x, r, rest, out, t, h)  BY <1>3
  <2>2. QED  BY <2>1, AckOwnerReads
<1>4. CASE \E r, rest, out, t, h : ReaderMove(Peer(x), r, rest, out, t, h)
  <2>1. PICK r, rest, out, t, h : ReaderMove(Peer(x), r, rest, out, t, h)  BY <1>4
  <2>2. QED  BY <2>1, AckOtherReads
<1>5. CASE \E e \in Ends : \E t, b : LineMove(e, t, b)
  <2>1. PICK e \in Ends : \E t, b : LineMove(e, t, b)  BY <1>5
  <2>2. PICK t, b : LineMove(e, t, b)  BY <2>1
  <2>3. QED  BY <2>2, AckLine
<1>6. CASE \E e \in Ends : TimerThread(e)
  <2>1. PICK e \in Ends : TimerThread(e)  BY <1>6
  <2>2. ~late  BY DEF Punctual
  <2>3. QED  BY <2>1, <2>2, AckTimers
<1>7. CASE vars' = vars
  <2>1. /\ wr' = wr /\ rd' = rd /\ line' = line /\ turn' = turn /\ ends' = ends /\ got' = got
        BY <1>7 DEF vars
  <2>2. Calmer(wr'[x], wr[x]) /\ Quieter(rd'[Peer(x)], rd[Peer(x)]) /\ Readier(rd'[Peer(x)], rd[Peer(x)])
        BY <2>1 DEF Calmer, Quieter, Readier
  <2>3. Peer(x) \in Ends  BY Two
  <2>4. QED  BY <2>1, <2>2, <2>3, AckFlags
<1>8. QED  BY <1>1, <1>2, <1>3, <1>4, <1>5, <1>6, <1>7 DEF SameOwner

LEMMA StepAcked ==
    ASSUME Distinguishes, MessagesFit, AckInv, [Next]_vars
    PROVE  AckInv'
<1>1. TypeOK /\ EndsOK  BY DEF AckInv
<1>2. PICK x \in Ends : LinkAt(x, Peer(x)) /\ (Punctual => AckAt(x, Peer(x)))  BY DEF AckInv
<1>3. Peer(x) \in Ends /\ Peer(Peer(x)) = x  BY Two
<1>4. /\ TypeOK' /\ EndsOK'
      /\ (SameOwner(x) /\ LinkAt(x, Peer(x))') \/ (NewOwner(x) /\ LinkAt(Peer(x), x)')
      BY <1>1, <1>2, StepLink
<1>5. Punctual' => Punctual  BY <1>4, Punctuality
<1>6. CASE SameOwner(x) /\ LinkAt(x, Peer(x))'
  <2>1. Punctual' => AckAt(x, Peer(x))'
    <3>1. SUFFICES ASSUME Punctual' PROVE AckAt(x, Peer(x))'  OBVIOUS
    <3>2. Punctual  BY <1>5, <3>1
    <3>3. QED  BY <1>1, <1>2, <1>6, <3>1, <3>2, AckSameOwner
  <2>2. QED  BY <1>4, <1>6, <2>1 DEF AckInv
<1>7. CASE NewOwner(x) /\ LinkAt(Peer(x), x)'
  <2>1. Punctual' => AckAt(Peer(x), x)'
    <3>1. SUFFICES ASSUME Punctual' PROVE AckAt(Peer(x), x)'  OBVIOUS
    <3>2. AckAt(x, Peer(x))  BY <1>2, <1>5, <3>1
    <3>3. PICK n, o : WriteMove(Peer(x), n, o)  BY <1>7 DEF NewOwner
    <3>4. QED  BY <1>1, <1>2, <1>4, <3>2, <3>3, AckWrite
  <2>2. LinkAt(Peer(x), Peer(Peer(x)))' /\ (Punctual' => AckAt(Peer(x), Peer(Peer(x)))')
        BY <1>3, <1>7, <2>1
  <2>3. QED  BY <1>3, <1>4, <2>2 DEF AckInv
<1>8. QED  BY <1>4, <1>6, <1>7

LEMMA AckedBoth ==
    ASSUME AckInv
    PROVE  AckedIsReceived
<1>1. PICK x \in Ends : LinkAt(x, Peer(x)) /\ (Punctual => AckAt(x, Peer(x)))  BY DEF AckInv
<1> DEFINE y == Peer(x)
<1>2. y \in Ends /\ Peer(y) = x /\ \A e \in Ends : e = x \/ e = y  BY Two
<1> HIDE DEF y
<1>3. SUFFICES ASSUME ~late, ~garbled
               PROVE  Received(y) >= wr[x].pdata - 1 /\ Received(x) >= wr[y].pdata - 1
      BY <1>2 DEF AckedIsReceived, y
<1>4. LinkAt(x, y) /\ AckAt(x, y)  BY <1>1, <1>3 DEF Punctual, y
<1>5. InStep(wr[x], rd[y].no, Received(y)) /\ rd[y].no >= Len(wr[x].cuts)
      BY <1>4 DEF AckAt, Acked, LinkAt, Exchange, Exchanging
<1>6. /\ wr[x] \in Writers /\ rd[y] \in Readers /\ Received(y) \in Nat
      /\ WriterOK(wr[x], turn[x], LastByte(x))
      BY <1>2, ByteTypes DEF AckInv, TypeOK, EndsOK
<1>7. rd[y].no \in Nat  BY <1>6 DEF Readers
<1>8. Received(y) >= wr[x].pdata - 1  BY <1>5, <1>6, <1>7, AckedBytes
<1>9. QED  BY <1>4, <1>8 DEF AckAt

\* What wr_prepare_next_frame takes for delivered has been received, at both
\* ends, while the answers are faster than the frame timer and no sequence
\* number is altered.
THEOREM AckedIsReceivedAlways == ASSUME Distinguishes, MessagesFit PROVE Spec => []AckedIsReceived
<1>1. Init => AckInv  BY InitAcked
<1>2. AckInv /\ [Next]_vars => AckInv'  BY StepAcked
<1>3. AckInv => AckedIsReceived  BY AckedBoth
<1>4. QED  BY <1>1, <1>2, <1>3, PTL DEF Spec

-----------------------------------------------------------------------------
(* Retries against damages: every retry of the owner has used up a damage,   *)
(* and the frame, or an answer to it, is under way once more than it has.     *)

GoodFrames(p) == {f \in After(p) : f.good}
Ack == {Byte("ACK")}
\* An acknowledgement is due, or on its way to the owner, which will take it.
Coming(w, r, lx) ==
    \/ r.st = "DISCARDRETRANS"
    \/ Has(lx, Acks) /\ (w.st = "ACKRCV" \/ Has(lx, Ack))
\* The reader has the frame, and refuses it, for it expects number 0.
Stuck(w, r) == r.next = 0 /\ r.no > Len(w.cuts)

\* The retries of the owner w after n damages: no more than those, and fewer
\* when nothing that could end its wait is under way.
Spent(w, r, lx, ly, p, n) ==
    /\ Coming(w, r, lx) \/ ~Stuck(w, r) => w.retrans <= n
    /\ ~Coming(w, r, lx) /\ ~Stuck(w, r) => Has(ly, GoodFrames(p)) \/ w.retrans < n

LEMMA GoodClosed ==
    ASSUME NEW p \in Nat
    PROVE  /\ GoodFrames(p) \subseteq After(p) /\ GoodFrames(p) \subseteq Frames
           /\ Ack \subseteq Replies /\ \A a \in Ack : a \notin Acks
           /\ \A b : Closed(Ack, b)
<1>1. Byte("ACK") \in Replies /\ Byte("ACK") \notin Acks /\ Byte("ACK") # Byte("junk")
  <2>1. [b |-> "ACK"].b = "ACK" /\ [b |-> "ACKCOMP"].b = "ACKCOMP" /\ [b |-> "junk"].b = "junk"  OBVIOUS
  <2>2. "ACK" # "ACKCOMP" /\ "ACK" # "junk"  OBVIOUS
  <2>3. Byte("ACK") # Byte("ACKCOMP") /\ Byte("ACK") # Byte("junk")  BY <2>1, <2>2 DEF Byte
  <2>4. Byte("ACK") \in Replies  BY DEF Byte, Replies, AckBytes
  <2>5. QED  BY <2>3, <2>4 DEF Acks
<1>2. Byte("ACK") \notin Frames  BY <1>1, ItemKinds
<1>3. ASSUME NEW b PROVE Closed(Ack, b)
  <2>1. SUFFICES ASSUME NEW g \in Items, NEW h \in Items, Worse(g, h, b), g \in Ack
                 PROVE  h \in Ack
        BY DEF Closed
  <2>2. g = h  BY <1>1, <1>2, <2>1 DEF Ack, Worse
  <2>3. QED  BY <2>1, <2>2
<1>4. After(p) \subseteq Frames  BY DEF After
<1>5. QED  BY <1>1, <1>3, <1>4 DEF GoodFrames, Ack

\* What a line holds is its head or behind it.
LEMMA HasTail ==
    ASSUME NEW l \in Seq(Items), l # <<>>, NEW S
    PROVE  Has(l, S) <=> Head(l) \in S \/ Has(Tail(l), S)
<1>1. /\ Len(l) \in Nat /\ Len(l) >= 1 /\ Len(Tail(l)) = Len(l) - 1 /\ l[1] = Head(l)
      /\ \A i \in 1..Len(Tail(l)) : Tail(l)[i] = l[i + 1]
      OBVIOUS
<1>2. Has(l, S) => Head(l) \in S \/ Has(Tail(l), S)
  <2>1. SUFFICES ASSUME NEW i \in 1..Len(l), l[i] \in S, Head(l) \notin S PROVE Has(Tail(l), S)
        BY DEF Has
  <2>2. i # 1 /\ i - 1 \in 1..Len(Tail(l)) /\ (i - 1) + 1 = i  BY <1>1, <2>1
  <2>3. Tail(l)[i - 1] = l[i]  BY <1>1, <2>2
  <2>4. QED  BY <2>1, <2>2, <2>3 DEF Has
<1>3. Has(Tail(l), S) => Has(l, S)
  <2>1. SUFFICES ASSUME NEW i \in 1..Len(Tail(l)), Tail(l)[i] \in S PROVE Has(l, S)  BY DEF Has
  <2>2. i + 1 \in 1..Len(l) /\ Tail(l)[i] = l[i + 1]  BY <1>1
  <2>3. QED  BY <2>1, <2>2 DEF Has
<1>4. Head(l) \in S => Has(l, S)  BY HeadHas
<1>5. QED  BY <1>2, <1>3, <1>4

\* A step that leaves the retries and what is under way alone.
LEMMA SpentKept ==
    ASSUME NEW w, NEW v, v.retrans = w.retrans, w.retrans \in Nat, NEW r, NEW s, NEW lx, NEW kx,
           NEW ly, NEW ky, NEW p, NEW n \in Nat, NEW m \in Nat, m >= n,
           Stuck(v, s) <=> Stuck(w, r), Coming(v, s, kx) <=> Coming(w, r, lx),
           Has(ly, GoodFrames(p)) => Has(ky, GoodFrames(p)),
           Spent(w, r, lx, ly, p, n)
    PROVE  Spent(v, s, kx, ky, p, m)
<1>1. w.retrans <= n => v.retrans <= m  OBVIOUS
<1>2. w.retrans < n => v.retrans < m  OBVIOUS
<1>3. QED  BY <1>1, <1>2 DEF Spent

-----------------------------------------------------------------------------
(* The owner hears an event.                                                  *)

\* Nothing that could end the wait is under way when the frame is sent again.
LEMMA NothingComing ==
    ASSUME NEW w0, NEW w, Waiting(w), SameState(w, w0), NEW event, NEW lx \in Seq(Items), NEW rest,
           Hearing(w0, w, event, lx, rest), NEW r, Acked(w0, r, lx), NEW p \in Nat,
           NEW ly \in Seq(Items), Alone(w0, r, lx, ly, p), <<w.st, event>> \in wr_retrans
    PROVE  /\ ~Has(ly, GoodFrames(p)) /\ ~Coming(w0, r, lx) /\ r.st # "DISCARDRETRANS"
           /\ ~Has(rest, Acks)
<1>1. Unanswered(w0, w, lx, rest)  BY RetransFor
<1>2. Acks \subseteq Replies /\ GoodFrames(p) \subseteq After(p)  BY ItemKinds, GoodClosed
<1>3. ~Has(ly, After(p)) /\ r.st \notin Delayed /\ ~Has(rest, Replies)
  <2>1. CASE rest = lx /\ w0.frameTO /\ ~w.frameTO  BY <2>1 DEF Alone
  <2>2. CASE w.st \in Halfway /\ Has(lx, Replies) /\ ~Has(rest, Replies)
        BY <2>2 DEF Alone, SameState
  <2>3. QED  BY <1>1, <2>1, <2>2 DEF Unanswered
<1>4. ~Has(rest, Acks) /\ ~Has(ly, GoodFrames(p))  BY <1>2, <1>3 DEF Has
<1>5. ~Has(lx, Acks)
  <2>1. CASE rest = lx  BY <1>4, <2>1
  <2>2. CASE rest # lx
    <3>1. lx # <<>> /\ rest = Tail(lx) /\ event = ByteEvent(Head(lx))  BY <2>2 DEF Hearing
    <3>2. event # "ACKCOMP"  BY DEF wr_retrans
    <3>3. "ACKCOMP" \in AckBytes \ {"junk"} /\ Head(lx) \in Items  BY <3>1, RemainsTail DEF AckBytes
    <3>4. Head(lx) # Byte("ACKCOMP")  BY <3>1, <3>2, <3>3, ByteEvents
    <3>5. Head(lx) \notin Acks  BY <3>4 DEF Acks
    <3>6. QED  BY <1>4, <3>1, <3>5, HasTail
  <2>3. QED  BY <2>1, <2>2
<1>6. QED  BY <1>3, <1>4, <1>5 DEF Coming, Delayed

\* A byte that sends nothing again leaves an acknowledgement under way or not.
LEMMA WaitsComing ==
    ASSUME NEW w0, NEW w, Waiting(w), SameState(w, w0), NEW event, NEW o, Waits(o, w, event),
           NEW lx \in Seq(Items), NEW rest, Hearing(w0, w, event, lx, rest), NEW r, Acked(w0, r, lx)
    PROVE  Coming(o.w, r, rest) <=> Coming(w0, r, lx)
<1>1. w.st = w0.st /\ w.st \in {"FRAMESENDED", "ACKRCV", "NACKRCV"}
      BY DEF SameState, Waiting, Writers
<1>2. CASE rest = lx /\ event \in {"TXUPLAYERTO", "TXFRAMETO"}
  <2>1. o.w.st = w0.st  BY <1>1, <1>2 DEF Waits
  <2>2. QED  BY <1>2, <2>1 DEF Coming
<1>3. CASE lx # <<>> /\ rest = Tail(lx) /\ event = ByteEvent(Head(lx))
  <2> DEFINE h == Head(lx)
  <2>1. /\ (Has(lx, Acks) <=> h \in Acks \/ Has(rest, Acks))
        /\ (Has(lx, Ack) <=> h \in Ack \/ Has(rest, Ack))
        BY <1>3, HasTail
  <2>2. (h \in Acks <=> event = "ACKCOMP") /\ (h \in Ack <=> event = "ACK")
    <3>1. "ACK" \in AckBytes \ {"junk"} /\ "ACKCOMP" \in AckBytes \ {"junk"} /\ h \in Items
          BY <1>3, RemainsTail DEF AckBytes
    <3>2. (event = "ACK" <=> h = Byte("ACK")) /\ (event = "ACKCOMP" <=> h = Byte("ACKCOMP"))
          BY <1>3, <3>1, ByteEvents
    <3>3. QED  BY <3>2 DEF Ack, Acks
  <2>3. Acks \subseteq Replies /\ Ack \subseteq Replies  BY ItemKinds, GoodClosed, 0 \in Nat
  <2>4. (h \in Acks => ~Has(rest, Replies)) /\ (h \in Replies /\ w.st \in Halfway => ~Has(rest, Replies))
    <3>1. ~Before(lx, Acks, Replies)  BY DEF Acked
    <3>2. h \in Acks => ~Has(rest, Replies)  BY <1>3, <3>1, HeadBefore
    <3>3. h \in Replies /\ w.st \in Halfway => ~Has(rest, Replies)  BY <1>1, <1>3, ReplyTaken
    <3>4. QED  BY <3>2, <3>3
  <2>5. ~Has(rest, Replies) => ~Has(rest, Acks) /\ ~Has(rest, Ack)  BY <2>3 DEF Has
  <2> HIDE DEF h
  <2>6. CASE /\ o.w.st = w.st
             /\ <<w.st, event>> \notin {<<"FRAMESENDED", "ACK">>, <<"ACKRCV", "ACKCOMP">>}
    <3>1. CASE event = "ACKCOMP"
      <4>1. w.st # "ACKRCV"  BY <2>6, <3>1
      <4>2. h \in Acks /\ h \notin Ack  BY <2>2, <3>1
      <4>3. QED  BY <1>1, <2>1, <2>4, <2>5, <2>6, <4>1, <4>2 DEF Coming
    <3>2. CASE event = "ACK"
      <4>1. w.st # "FRAMESENDED"  BY <2>6, <3>2
      <4>2. h \in Replies /\ h \notin Acks /\ w.st \in Halfway  BY <1>1, <2>2, <2>3, <3>2, <4>1 DEF Halfway
      <4>3. QED  BY <2>1, <2>4, <2>5, <4>2 DEF Coming
    <3>3. CASE event \notin {"ACK", "ACKCOMP"}
      <4>1. h \notin Acks /\ h \notin Ack  BY <2>2, <3>3
      <4>2. QED  BY <1>1, <2>1, <2>6, <4>1 DEF Coming
    <3>4. QED  BY <3>1, <3>2, <3>3
  <2>7. CASE w.st = "FRAMESENDED" /\ event = "ACK" /\ o.w.st = "ACKRCV"
    <3>1. h \in Ack /\ h \notin Acks  BY <2>2, <2>7
    <3>2. QED  BY <2>1, <2>7, <3>1 DEF Coming
  <2>8. CASE w.st # "ACKRCV" /\ event \in {"NACK", "UNBYTE"} /\ o.w.st # "ACKRCV"
    <3>1. h \notin Ack /\ h \notin Acks  BY <2>2, <2>8
    <3>2. QED  BY <1>1, <2>1, <2>8, <3>1 DEF Coming
  <2>9. QED  BY <2>6, <2>7, <2>8 DEF Waits
<1>4. QED  BY <1>2, <1>3 DEF Hearing

\* What a step of the writer sends is a sound frame of its message.
SendsGood(o, p) == o.out = <<>> \/ \E f \in GoodFrames(p) : o.out = <<f>>

\* After an event of the owner its retries are still paid for.
LEMMA OwnerSpent ==
    ASSUME NEW w0, NEW w, Waiting(w), SameState(w, w0), NEW event, NEW o, Result(o, w, event),
           o.w.st # "EXIT", NEW lx \in Seq(Items), NEW rest, Hearing(w0, w, event, lx, rest),
           NEW r, Acked(w0, r, lx), Undelayed(r, lx), NEW p \in Nat, NEW ly \in Seq(Items),
           Alone(w0, r, lx, ly, p), SendsGood(o, p), o.out \in Seq(Items),
           NEW n \in Nat, NEW m \in Nat, m >= n, Spent(w0, r, lx, ly, p, n)
    PROVE  Spent(o.w, r, rest, ly \o o.out, p, m)
<1>1. w.retrans \in Nat /\ w.retrans = w0.retrans /\ w.cuts = w0.cuts /\ w.st = w0.st
      BY DEF Waiting, Writers, SameState
<1>2. CASE Waits(o, w, event)
  <2>1. o.w = [w EXCEPT !.st = o.w.st] /\ w \in Writers /\ ly \o o.out = ly
        BY <1>2 DEF Waits, Waiting
  <2>2. [w EXCEPT !.st = o.w.st].retrans = w.retrans /\ [w EXCEPT !.st = o.w.st].cuts = w.cuts
        BY <2>1 DEF Writers
  <2>3. o.w.retrans = w0.retrans /\ (Stuck(o.w, r) <=> Stuck(w0, r))
        BY <1>1, <2>1, <2>2 DEF Stuck
  <2>4. Coming(o.w, r, rest) <=> Coming(w0, r, lx)  BY <1>2, WaitsComing
  <2>5. w0.retrans \in Nat /\ o.w.retrans = w0.retrans  BY <1>1, <2>3
  <2>6. Spent(o.w, r, rest, ly, p, m)  BY <2>3, <2>4, <2>5, SpentKept
  <2>7. QED  BY <2>1, <2>6
<1>3. ASSUME o.out # <<>> PROVE Has(ly \o o.out, GoodFrames(p))
  <2>1. PICK f \in GoodFrames(p) : o.out = <<f>>  BY <1>3 DEF SendsGood
  <2>2. Has(<<f>>, GoodFrames(p))  BY OneItem
  <2>3. Has(o.out, GoodFrames(p))  BY <2>1, <2>2
  <2>4. QED  BY <2>3, HasJoin
<1>4. CASE Resends(o, w, event)
  <2>1. o.w.st = "FRAMESENDED" /\ o.w.retrans = w0.retrans + 1 /\ o.w.cuts = w0.cuts /\ o.out # <<>>
        /\ <<w.st, event>> \in wr_retrans
        BY <1>1, <1>4 DEF Resends, SameNumbers
  <2>2. /\ ~Has(ly, GoodFrames(p)) /\ ~Coming(w0, r, lx) /\ r.st # "DISCARDRETRANS"
        /\ ~Has(rest, Acks)
        BY <2>1, NothingComing
  <2>3. ~Coming(o.w, r, rest)  BY <2>2 DEF Coming
  <2>4. Stuck(o.w, r) <=> Stuck(w0, r)  BY <2>1 DEF Stuck
  <2>5. ~Stuck(w0, r) => w0.retrans < n  BY <2>2 DEF Spent
  <2>6. ~Stuck(o.w, r) => o.w.retrans <= m  BY <1>1, <2>1, <2>4, <2>5
  <2>7. QED  BY <1>3, <2>1, <2>3, <2>6 DEF Spent
<1>5. CASE MovesOn(o, w, event)
  <2>1. /\ w.st = "ACKRCV" /\ event = "ACKCOMP" /\ Advanced(o.w, w)
        /\ o.out # <<>>
    <3>1. \A h : <<h>> # <<>>  OBVIOUS
    <3>2. w.st = "ACKRCV" /\ event = "ACKCOMP" /\ Advanced(o.w, w)  BY <1>5 DEF MovesOn
    <3>3. o.out = <<make_dmframe(o.w, FALSE)>>  BY <1>5 DEF MovesOn
    <3>4. QED  BY <3>1, <3>2, <3>3
  <2>2. o.w.retrans = w0.retrans  BY <1>1, <2>1 DEF Advanced
  <2>3. event \in {"ACK", "ACKCOMP", "NACK", "NACKCOMP"}  BY <2>1
  <2>4. lx # <<>> /\ Head(lx) = Byte("ACKCOMP")  BY <2>1, <2>3, HearingReply
  <2>5. Has(lx, Acks)
    <3>1. Head(lx) \in Acks  BY <2>4 DEF Acks
    <3>2. QED  BY <2>4, <3>1, HeadHas
  <2>6. Coming(w0, r, lx)  BY <1>1, <2>1, <2>5 DEF Coming
  <2>7. w0.retrans <= n  BY <2>6 DEF Spent
  <2>8. ~Stuck(o.w, r)
    <3>1. r.no = Len(w0.cuts) + 1  BY <2>5 DEF Acked
    <3>2. w.cuts \in Seq(Nat \ {0}) /\ o.w.cuts = Append(w.cuts, o.w.pdata)
          BY <2>1 DEF Waiting, Writers, Advanced
    <3>3. Len(w.cuts) \in Nat /\ Len(o.w.cuts) = Len(w.cuts) + 1  BY <3>2, Appended
    <3>4. ~(r.no > Len(o.w.cuts))  BY <1>1, <3>1, <3>3
    <3>5. QED  BY <3>4 DEF Stuck
  <2>9. o.w.retrans <= m  BY <1>1, <2>2, <2>7
  <2>10. QED  BY <1>3, <2>1, <2>9 DEF Spent
<1>6. ~GivesUp(o, w, event)  BY DEF GivesUp
<1>7. QED  BY <1>2, <1>4, <1>5, <1>6 DEF Result

-----------------------------------------------------------------------------
(* The other end hears a frame, or answers.                                   *)

\* A sound frame that the reader neither takes nor repeats is refused for good.
LEMMA RefusedStuck ==
    ASSUME NEW w \in Writers, NEW s \in Readers, s.next = s.no % SeqMod, NEW k, NEW p, NEW n,
           NEW lx, NEW ly, Exchanging(w, s, k, lx, ly, p, n), Acked(w, s, lx),
           NEW f \in Frames, f.no = Len(w.cuts), f.seqno = f.no % SeqMod, ~IsRetrans(s, f), f.seqno # s.next
    PROVE  Stuck(w, s)
<1>1. s.no \in Nat \ {0} /\ Len(w.cuts) \in Nat
  <2>1. w.cuts \in Seq(Nat \ {0}) /\ s.no \in Nat \ {0}  BY DEF Writers, Readers
  <2>2. QED  BY <2>1
<1>2. s.no = Len(w.cuts) + 1
  <2>1. s.no >= Len(w.cuts)  BY DEF Acked
  <2>2. s.no <= Len(w.cuts) + (IF w.remain > 0 THEN 1 ELSE 0)  BY DEF Exchanging, InStep
  <2>3. s.no # Len(w.cuts)  OBVIOUS
  <2> DEFINE i == s.no
             m == Len(w.cuts)
  <2>4. i \in Nat /\ m \in Nat /\ i >= m /\ i # m /\ (i <= m + 1 \/ i <= m + 0)
        BY <1>1, <2>1, <2>2, <2>3
  <2> HIDE DEF i, m
  <2>5. i = m + 1  BY <2>4
  <2>6. QED  BY <2>5 DEF i, m
<1>3. s.next = 0
  <2>1. SUFFICES ASSUME s.next # 0 PROVE FALSE  OBVIOUS
  <2>2. (s.no - 1) % SeqMod = (s.no % SeqMod) - 1
    <3>1. SeqMod \in Nat /\ SeqMod > 1 /\ s.no % SeqMod # 0  BY <2>1, Constants
    <3>2. QED  BY <1>1, <3>1, ModBefore
  <2>3. s.no - 1 = Len(w.cuts)  BY <1>1, <1>2
  <2>4. f.seqno = s.next - 1  BY <2>2, <2>3
  <2>5. QED  BY <2>1, <2>4 DEF IsRetrans
<1>4. s.no > Len(w.cuts)  BY <1>1, <1>2
<1>5. QED  BY <1>3, <1>4 DEF Stuck

\* After a step of the other's reader the retries are still paid for.
LEMMA SilentSpent ==
    ASSUME NEW w \in Writers, NEW s \in Readers, s.next = s.no % SeqMod,
           NEW k, NEW p \in Nat, NEW n \in Nat, NEW lx \in Seq(Items), NEW ly \in Seq(Items),
           ~Has(ly, UpTo(p)), Exchanging(w, s, k, lx, ly, p, n),
           Acked(w, s, lx), Alone(w, s, lx, ly, p), Spent(w, s, lx, ly, p, n),
           NEW r, r.no = s.no, r.next = s.next, NEW rest, NEW out, Silent(s, r, ly, rest, out)
    PROVE  Spent(w, r, lx \o out, rest, p, n)
<1>1. lx \o <<>> = lx /\ w.retrans \in Nat /\ n >= n  BY DEF Writers
<1>2. (Stuck(w, r) <=> Stuck(w, s))  BY DEF Stuck
<1>3. GoodFrames(p) \subseteq After(p) /\ Acks \subseteq Replies  BY GoodClosed, ItemKinds
<1>4. CASE Opens(s, r, ly, rest, out)
  <2>1. out = <<>> /\ rest = ly /\ s.st = "EXIT" /\ r.st = "WAITSOH"  BY <1>4 DEF Opens
  <2>2. Coming(w, r, lx) <=> Coming(w, s, lx)  BY <2>1 DEF Coming
  <2>3. Spent(w, r, lx, ly, p, n)  BY <1>1, <1>2, <2>2, SpentKept
  <2>4. QED  BY <1>1, <2>1, <2>3
<1>5. CASE out = <<>> /\ s.st # "EXIT" /\ r.st = s.st /\ Passes(s, ly, rest)
  <2>1. Coming(w, r, lx) <=> Coming(w, s, lx)  BY <1>5 DEF Coming
  <2>2. Has(ly, GoodFrames(p)) => Has(rest, GoodFrames(p))
    <3>1. CASE rest = ly  BY <3>1
    <3>2. CASE ly # <<>> /\ rest = Tail(ly) /\ (s.st = "WAITSOH" => Head(ly).b # "SOH")
      <4>1. SUFFICES ASSUME Head(ly) \in GoodFrames(p) PROVE FALSE  BY <3>2, HasTail
      <4>2. Head(ly) \in After(p) /\ Head(ly).b = "SOH"  BY <1>3, <4>1 DEF After, Frames
      <4>3. s.st \notin Delayed  BY <3>2, <4>2, TakenFrame
      <4>4. QED  BY <1>5, <3>2, <4>2, <4>3 DEF Readers, Delayed
    <3>3. QED  BY <1>5, <3>1, <3>2 DEF Passes
  <2>3. Spent(w, r, lx, rest, p, n)  BY <1>1, <1>2, <2>1, <2>2, SpentKept
  <2>4. QED  BY <1>1, <1>5, <2>3
<1>6. CASE out = <<>> /\ Refuses(s, r, ly, rest)
  <2> DEFINE f == Head(ly)
  <2>1. /\ s.st = "WAITSOH" /\ r.st = "DISCARDBYTES" /\ ly # <<>> /\ f.b = "SOH"
        /\ ~IsRetrans(s, f) /\ (f.seqno # s.next \/ ~f.good) /\ rest = Tail(ly)
        BY <1>6 DEF Refuses
  <2>2. f \in After(p) /\ f \in Frames  BY <2>1, HeadFrame
  <2>3. /\ ~Has(Tail(ly), After(p)) /\ ~Has(lx, Replies) /\ f.no = Len(w.cuts)
        /\ f.seqno = f.no % SeqMod
        BY <2>1, <2>2, TakenFrame
  <2>4. ~Has(lx, Acks)  BY <1>3, <2>3 DEF Has
  <2>5. ~Coming(w, s, lx) /\ ~Coming(w, r, lx)  BY <2>1, <2>4 DEF Coming
  <2>6. ~Stuck(w, s) => w.retrans < n
    <3>1. SUFFICES ASSUME ~Stuck(w, s) PROVE w.retrans < n  OBVIOUS
    <3>2. f.seqno = s.next  BY <2>1, <2>2, <2>3, <3>1, RefusedStuck
    <3>3. f \notin GoodFrames(p)  BY <2>1, <3>2 DEF GoodFrames
    <3>4. ~Has(Tail(ly), GoodFrames(p))  BY <1>3, <2>3 DEF Has
    <3>5. ~Has(ly, GoodFrames(p))  BY <2>1, <3>3, <3>4, HasTail
    <3>6. QED  BY <2>5, <3>1, <3>5 DEF Spent
  <2>7. ~Stuck(w, s) => w.retrans <= n  BY <1>1, <2>6
  <2>8. Spent(w, r, lx, rest, p, n)  BY <1>2, <2>5, <2>6, <2>7 DEF Spent
  <2>9. QED  BY <1>1, <1>6, <2>8
<1>7. CASE Repeats(s, r, ly, rest, out)
  <2>1. r.st = "DISCARDRETRANS" /\ out = <<>> /\ IsRetrans(s, Head(ly))  BY <1>7 DEF Repeats
  <2>2. Coming(w, r, lx) /\ ~Stuck(w, s)  BY <2>1 DEF Coming, Stuck, IsRetrans
  <2>3. w.retrans <= n  BY <2>2 DEF Spent
  <2>4. Spent(w, r, lx, rest, p, n)  BY <2>2, <2>3 DEF Spent
  <2>5. QED  BY <1>1, <2>1, <2>4
<1>8. ASSUME out = send_ack, w.retrans <= n PROVE Spent(w, r, lx \o out, rest, p, n)
  <2>1. out \in {send_ack, send_nack}  BY <1>8
  <2>2. out \in Seq(Items) /\ Has(out, Acks)  BY <1>8, <2>1, ReplyPair
  <2>3. Has(out, Ack)
    <3>1. Len(send_ack) = 2 /\ send_ack[1] = Byte("ACK")  BY DEF send_ack
    <3>2. QED  BY <1>8, <3>1 DEF Has, Ack
  <2>4. Has(lx \o out, Acks) /\ Has(lx \o out, Ack)  BY <2>2, <2>3, HasJoin
  <2>5. Coming(w, r, lx \o out)  BY <2>4 DEF Coming
  <2>6. QED  BY <1>8, <2>5 DEF Spent
<1>9. CASE out = send_ack /\ rest = ly /\ s.st = "DISCARDRETRANS" /\ r.st = "WAITSOH"
  <2>1. w.retrans <= n  BY <1>9 DEF Spent, Coming
  <2>2. QED  BY <1>8, <1>9, <2>1
<1>10. CASE out = send_nack /\ rest = ly /\ s.st = "DISCARDBYTES" /\ r.st = "WAITSOH"
  <2>1. ~Has(lx, Replies)  BY <1>10 DEF Alone, Delayed
  <2>2. ~Has(lx, Acks)  BY <1>3, <2>1 DEF Has
  <2>3. out \in {send_ack, send_nack} /\ send_nack # send_ack  BY <1>10 DEF send_nack, send_ack, Byte
  <2>4. out \in Seq(Items) /\ ~Has(out, Acks)  BY <1>10, <2>3, ReplyPair
  <2>5. ~Has(lx \o out, Acks)  BY <2>2, <2>4, HasJoin
  <2>6. Coming(w, r, lx \o out) <=> Coming(w, s, lx)  BY <1>10, <2>2, <2>5 DEF Coming
  <2>7. Spent(w, r, lx \o out, ly, p, n)  BY <1>1, <1>2, <2>6, SpentKept
  <2>8. QED  BY <1>10, <2>7
<1>11. CASE Continues(s, r, ly, rest, out)
       BY <1>5, <1>6, <1>7, <1>9, <1>10, <1>11 DEF Continues
<1>12. QED  BY <1>4, <1>11 DEF Silent

LEMMA AcceptSpent ==
    ASSUME Distinguishes, NEW w \in Writers, NEW s \in Readers, s.next = s.no % SeqMod,
           NEW k \in Nat, NEW p \in Nat, NEW n \in 0..MaxFaults,
           NEW lx \in Seq(Items), NEW ly \in Seq(Items),
           ~Has(ly, UpTo(p)), Exchanging(w, s, k, lx, ly, p, n), Spent(w, s, lx, ly, p, n),
           NEW r, NEW rest, NEW out, NEW g, NEW t, NEW h, NEW last,
           Accepts(s, r, ly, rest, out, g, t, h, last)
    PROVE  Spent(w, r, lx \o out, rest, p, n)
<1>1. /\ ly # <<>> /\ Head(ly).b = "SOH" /\ Head(ly).good /\ Head(ly).seqno = s.next
      /\ out = send_ack
      BY DEF Accepts
<1>2. Head(ly) \in After(p)  BY <1>1, HeadFrame
<1>3. s.no <= Len(w.cuts)  BY <1>1, <1>2, ExpectedFrame
<1>4. ~Stuck(w, s)
  <2>1. w.cuts \in Seq(Nat \ {0}) /\ s.no \in Nat \ {0}  BY DEF Writers, Readers
  <2>2. Len(w.cuts) \in Nat  BY <2>1
  <2>3. ~(s.no > Len(w.cuts))  BY <1>3, <2>1, <2>2
  <2>4. QED  BY <2>3 DEF Stuck
<1>5. w.retrans <= n  BY <1>4 DEF Spent
<1>6. out \in {send_ack, send_nack}  BY <1>1
<1>7. out \in Seq(Items) /\ Has(out, Acks)  BY <1>1, <1>6, ReplyPair
<1>8. Has(out, Ack)
  <2>1. Len(send_ack) = 2 /\ send_ack[1] = Byte("ACK")  BY DEF send_ack
  <2>2. QED  BY <1>1, <2>1 DEF Has, Ack
<1>9. Has(lx \o out, Acks) /\ Has(lx \o out, Ack)  BY <1>7, <1>8, HasJoin
<1>10. Coming(w, r, lx \o out)  BY <1>9 DEF Coming
<1>11. QED  BY <1>5, <1>10 DEF Spent

-----------------------------------------------------------------------------
(* The retries of the two ends.                                               *)

\* The other end reads, or is about to: it writes, and the acknowledgement that
\* ends its write is on its way.
Hears(x, y) == turn[y] = "read" \/ (Writing(y) /\ Has(line[y], Acks))

\* While the owner writes and is heard, its retries are paid for by damages.
RetryAt(x, y) ==
    Writing(x) /\ Hears(x, y) => Spent(wr[x], rd[y], line[x], line[y], Prev(x), faults)

LEMMA GoodSent ==
    ASSUME NEW w, Waiting(w), NEW event, NEW o, Result(o, w, event), NEW t, NEW last \in Nat,
           WriterOK(o.w, t, last), NEW p \in Nat, p < o.w.pdata
    PROVE  SendsGood(o, p)
<1>1. o.w \in Writers  BY DEF Result
<1>2. o.out = <<>> \/ (o.w.remain > 0 /\ \E again \in BOOLEAN : o.out = <<make_dmframe(o.w, again)>>)
  <2>1. Resends(o, w, event) => o.w.remain > 0  BY DEF Resends, SameNumbers, Waiting
  <2>2. QED  BY <2>1 DEF Result, Waits, Resends, GivesUp, MovesOn
<1>3. ASSUME NEW again \in BOOLEAN, o.w.remain > 0, o.out = <<make_dmframe(o.w, again)>>
      PROVE  SendsGood(o, p)
  <2> DEFINE f == make_dmframe(o.w, again)
  <2>1. f \in Frames /\ f.first = o.w.pdata /\ f.good  BY <1>1, <1>3, SentFrame
  <2>2. o.out = <<f>>  BY <1>3
  <2> HIDE DEF f
  <2>3. f \in GoodFrames(p)  BY <2>1 DEF GoodFrames, After
  <2>4. QED  BY <2>2, <2>3 DEF SendsGood
<1>4. o.out = <<>> => SendsGood(o, p)  BY DEF SendsGood
<1>5. QED  BY <1>2, <1>3, <1>4

\* An event of the owner.
LEMMA RetryOwner ==
    ASSUME TypeOK, EndsOK, NEW x \in Ends, LinkAt(x, Peer(x)), AckAt(x, Peer(x)),
           RetryAt(x, Peer(x)), LinkAt(x, Peer(x))',
           NEW w, NEW event, NEW o, NEW rest, EngineMove(x, w, event, o, rest)
    PROVE  RetryAt(x, Peer(x))'
<1> DEFINE y == Peer(x)
<1>1. y \in Ends /\ y # x /\ Peer(y) = x  BY Two
<1> HIDE DEF y
<1>2. AckAt(x, y) /\ RetryAt(x, y) /\ LinkAt(x, y)'  BY DEF y
<1>3. /\ line[x] \in Seq(Items) /\ line[y] \in Seq(Items) /\ Prev(x) \in Nat /\ LastByte(x) \in Nat
      /\ faults \in Nat
      BY <1>1, ByteTypes, Constants DEF TypeOK
<1>4. /\ Waiting(w) /\ Result(o, w, event) /\ WriterOK(o.w, TurnAfter(o), LastByte(x))
      /\ SameState(w, wr[x]) /\ Hearing(wr[x], w, event, line[x], rest)
      /\ wr'[x] = o.w /\ wr'[y] = wr[y] /\ faults' = faults + o.fault
      /\ line'[x] = rest /\ line'[y] = line[y] \o o.out /\ o.out \in Seq(Items)
      /\ turn'[y] = turn[y] /\ rd' = rd /\ ends' = ends /\ turn[x] = "write" /\ wr[x].st # "EXIT"
      BY <1>1 DEF EngineMove, y, SameState, SameNumbers, Hearing
<1>5. Prev(x)' = Prev(x) /\ (Writing(y)' <=> Writing(y))  BY <1>4 DEF Prev, Writing
<1>6. Prev(x) < o.w.pdata
  <2>1. Room(x, y)'  BY <1>2 DEF LinkAt
  <2>2. Prev(x)' < wr'[x].pdata  BY <2>1 DEF Room
  <2>3. QED  BY <1>4, <1>5, <2>2
<1>7. SendsGood(o, Prev(x))
  <2>1. PICK p \in Nat : p = Prev(x)  BY <1>3
  <2>2. PICK last \in Nat : last = LastByte(x)  BY <1>3
  <2>3. SendsGood(o, p)  BY <1>4, <1>6, <2>1, <2>2, GoodSent
  <2>4. QED  BY <2>1, <2>3
<1>8. SUFFICES ASSUME Writing(x)', Hears(x, y)'
               PROVE  Spent(o.w, rd[y], rest, line[y] \o o.out, Prev(x), faults + o.fault)
      BY <1>4, <1>5 DEF RetryAt, y
<1>9. o.w.st # "EXIT"  BY <1>4, <1>8 DEF Writing
<1>10. Hears(x, y)
  <2>1. ~Has(o.out, Acks)
    <3>1. CASE o.out = <<>>  BY <3>1, NoItem
    <3>2. CASE \E f \in GoodFrames(Prev(x)) : o.out = <<f>>
      <4>1. PICK f \in GoodFrames(Prev(x)) : o.out = <<f>>  BY <3>2
      <4>2. f \in Frames  BY <1>3, <4>1, GoodClosed
      <4>3. f \notin Acks  BY <4>2, ItemKinds, 0 \in Nat
      <4>4. ~Has(<<f>>, Acks)  BY <4>3, OneItem
      <4>5. QED  BY <4>1, <4>4
    <3>3. QED  BY <1>7, <3>1, <3>2 DEF SendsGood
  <2>2. Has(line[y] \o o.out, Acks) => Has(line[y], Acks)  BY <1>3, <1>4, <2>1, HasJoin
  <2>3. turn'[y] = "read" \/ (Writing(y)' /\ Has(line'[y], Acks))  BY <1>8 DEF Hears
  <2>4. QED  BY <1>4, <1>5, <2>2, <2>3 DEF Hears
<1>11. Spent(wr[x], rd[y], line[x], line[y], Prev(x), faults)
       BY <1>2, <1>4, <1>10 DEF RetryAt, Writing
<1>12. /\ Acked(wr[x], rd[y], line[x])
       /\ Alone(wr[x], rd[y], line[x], line[y], Prev(x))
  <2>1. turn[y] # "closed"  BY <1>10 DEF Hears, Writing
  <2>2. QED  BY <1>2, <2>1 DEF AckAt, ClosedOr
<1>13. Undelayed(rd[y], line[x])  BY <1>12 DEF Undelayed, Alone
<1>14. o.fault = 0
  <2>1. ~GivesUp(o, w, event)  BY <1>9 DEF GivesUp
  <2>2. QED  BY <1>4, <1>9, <2>1 DEF Result, Waits, Resends, MovesOn
<1>15. PICK p \in Nat, n \in Nat : p = Prev(x) /\ n = faults  BY <1>3
<1>16. n >= n /\ n + o.fault = n  BY <1>14
<1>17. /\ SendsGood(o, p) /\ Spent(wr[x], rd[y], line[x], line[y], p, n)
       /\ Alone(wr[x], rd[y], line[x], line[y], p)
       BY <1>7, <1>11, <1>12, <1>15
<1>18. Spent(o.w, rd[y], rest, line[y] \o o.out, p, n)
       BY <1>3, <1>4, <1>9, <1>12, <1>13, <1>16, <1>17, OwnerSpent
<1>19. QED  BY <1>15, <1>16, <1>18

\* An event of the other's writer.
LEMMA RetryOther ==
    ASSUME TypeOK, EndsOK, NEW x \in Ends, LinkAt(x, Peer(x)), RetryAt(x, Peer(x)),
           NEW w, NEW event, NEW o, NEW rest, EngineMove(Peer(x), w, event, o, rest)
    PROVE  RetryAt(x, Peer(x))'
<1> DEFINE y == Peer(x)
<1>1. y \in Ends /\ y # x /\ Peer(y) = x  BY Two
<1> HIDE DEF y
<1>2. LinkAt(x, y) /\ RetryAt(x, y) /\ EngineMove(y, w, event, o, rest)  BY DEF y
<1>3. /\ line[x] \in Seq(Items) /\ line[y] \in Seq(Items) /\ Prev(x) \in Nat /\ LastByte(y) \in Nat
      /\ faults \in Nat /\ wr[x] \in Writers
      BY <1>1, ByteTypes, Constants DEF TypeOK
<1>4. /\ turn[y] = "write" /\ wr[y].st # "EXIT" /\ Waiting(w) /\ Result(o, w, event)
      /\ WriterOK(o.w, TurnAfter(o), LastByte(y)) /\ Hearing(wr[y], w, event, line[y], rest)
      /\ rest = line[y] \/ (line[y] # <<>> /\ rest = Tail(line[y]))
      /\ wr'[y] = o.w /\ wr'[x] = wr[x] /\ faults' = faults + o.fault
      /\ line'[y] = rest /\ line'[x] = line[x] \o o.out /\ o.out \in Seq(Items)
      /\ turn'[y] = TurnAfter(o) /\ turn'[x] = turn[x] /\ rd' = rd /\ ends' = ends
      BY <1>1, <1>2 DEF EngineMove, Hearing
<1>5. Writing(y) /\ Prev(x)' = Prev(x) /\ (Writing(x)' <=> Writing(x))
      BY <1>4 DEF Writing, Prev
<1>6. SUFFICES ASSUME Writing(x)', Hears(x, y)'
               PROVE  Spent(wr[x], rd[y], line[x] \o o.out, rest, Prev(x), faults + o.fault)
      BY <1>4, <1>5 DEF RetryAt, y
<1>7. ~Has(line[x], Replies) /\ ~Before(line[y], After(Prev(x)), Replies)
      BY <1>2, <1>5 DEF LinkAt, Lines
<1>8. Acks \subseteq Replies  BY ItemKinds, 0 \in Nat
<1>9. Has(line[y], Acks)
  <2>1. CASE turn'[y] = "read"
    <3>1. o.w.st = "EXIT" /\ o.error = "NOERROR"  BY <1>4, <2>1, TurnAfterFacts
    <3>2. w.st # "EXIT" /\ "NOERROR" \notin Errors  BY <1>4 DEF Waiting, Errors
    <3>3. MovesOn(o, w, event)
          BY <1>4, <3>1, <3>2 DEF Result, Waits, Resends, GivesUp
    <3>4. event = "ACKCOMP"  BY <3>3 DEF MovesOn
    <3>5. event \in {"ACK", "ACKCOMP", "NACK", "NACKCOMP"}  BY <3>4
    <3>6. line[y] # <<>> /\ Head(line[y]) = Byte("ACKCOMP")  BY <1>3, <1>4, <3>4, <3>5, HearingReply
    <3>7. Head(line[y]) \in Acks  BY <3>6 DEF Acks
    <3>8. QED  BY <1>3, <3>6, <3>7, HeadHas
  <2>2. CASE Has(rest, Acks)
    <3>1. CASE rest = line[y]  BY <2>2, <3>1
    <3>2. CASE line[y] # <<>> /\ rest = Tail(line[y])  BY <1>3, <2>2, <3>2, HasTail
    <3>3. QED  BY <1>4, <3>1, <3>2
  <2>3. QED  BY <1>4, <1>6, <2>1, <2>2 DEF Hears
<1>10. Spent(wr[x], rd[y], line[x], line[y], Prev(x), faults)
  <2>1. Hears(x, y)  BY <1>5, <1>9 DEF Hears
  <2>2. QED  BY <1>2, <1>5, <1>6, <2>1 DEF RetryAt
<1>11. Has(line[y], GoodFrames(Prev(x))) => Has(rest, GoodFrames(Prev(x)))
  <2>1. CASE rest = line[y]  BY <2>1
  <2>2. CASE line[y] # <<>> /\ rest = Tail(line[y])
    <3>1. SUFFICES ASSUME Head(line[y]) \in GoodFrames(Prev(x)) PROVE FALSE
          BY <1>3, <2>2, HasTail
    <3>2. Head(line[y]) \in After(Prev(x)) /\ Head(line[y]) \in Frames
          BY <1>3, <3>1, GoodClosed
    <3>3. ~Has(Tail(line[y]), Replies)  BY <1>3, <1>7, <2>2, <3>2, HeadBefore
    <3>4. ~Has(Tail(line[y]), Acks)  BY <1>8, <3>3 DEF Has
    <3>5. Head(line[y]) \notin Acks  BY <3>2, ItemKinds, 0 \in Nat
    <3>6. QED  BY <1>3, <1>9, <2>2, <3>4, <3>5, HasTail
  <2>3. QED  BY <1>4, <2>1, <2>2
<1>12. ~Has(o.out, Acks)
  <2>1. OneOrNone(o.out, o.w.pdata, LastByte(y))  BY <1>3, <1>4, SentItems
  <2>2. CASE o.out = <<>>  BY <2>2, NoItem
  <2>3. CASE \E f \in Frames : o.out = <<f>>
    <3>1. PICK f \in Frames : o.out = <<f>>  BY <2>3
    <3>2. f \notin Acks  BY ItemKinds, 0 \in Nat
    <3>3. ~Has(<<f>>, Acks)  BY <3>2, OneItem
    <3>4. QED  BY <3>1, <3>3
  <2>4. QED  BY <2>1, <2>2, <2>3 DEF OneOrNone
<1>13. ~Has(line[x], Acks) /\ ~Has(line[x] \o o.out, Acks)
  <2>1. ~Has(line[x], Acks)  BY <1>7, <1>8 DEF Has
  <2>2. QED  BY <1>3, <1>4, <1>12, <2>1, HasJoin
<1>14. Coming(wr[x], rd[y], line[x] \o o.out) <=> Coming(wr[x], rd[y], line[x])
       BY <1>13 DEF Coming
<1>15. o.fault \in {0, 1}  BY <1>4 DEF Result, Waits, Resends, GivesUp, MovesOn
<1>16. PICK n \in Nat, m \in Nat : n = faults /\ m = faults + o.fault  BY <1>3, <1>15
<1>17. m >= n  BY <1>15, <1>16
<1>18. wr[x].retrans \in Nat  BY <1>3 DEF Writers
<1>19. Spent(wr[x], rd[y], line[x], line[y], Prev(x), n) /\ wr[x].retrans = wr[x].retrans
       /\ (Stuck(wr[x], rd[y]) <=> Stuck(wr[x], rd[y]))
       BY <1>10, <1>16
<1>20. PICK v, s, lx, kx, ly, p :
           /\ v = wr[x] /\ s = rd[y] /\ lx = line[x] /\ kx = line[x] \o o.out /\ ly = line[y]
           /\ p = Prev(x)
       OBVIOUS
<1>21. /\ v.retrans = v.retrans /\ v.retrans \in Nat /\ (Stuck(v, s) <=> Stuck(v, s))
       /\ (Coming(v, s, kx) <=> Coming(v, s, lx))
       /\ (Has(ly, GoodFrames(p)) => Has(rest, GoodFrames(p)))
       /\ Spent(v, s, lx, ly, p, n)
       BY <1>11, <1>14, <1>18, <1>19, <1>20
<1>22. Spent(v, s, kx, rest, p, m)  BY <1>17, <1>21, SpentKept
<1>23. QED  BY <1>16, <1>20, <1>22

\* A step of the other's reader.
LEMMA RetryOtherReads ==
    ASSUME Distinguishes, TypeOK, EndsOK, NEW x \in Ends, LinkAt(x, Peer(x)), AckAt(x, Peer(x)),
           RetryAt(x, Peer(x)),
           NEW r, NEW rest, NEW out, NEW t, NEW h, ReaderMove(Peer(x), r, rest, out, t, h)
    PROVE  RetryAt(x, Peer(x))'
<1> DEFINE y == Peer(x)
<1>1. y \in Ends /\ y # x /\ Peer(y) = x  BY Two
<1> HIDE DEF y
<1>2. LinkAt(x, y) /\ AckAt(x, y) /\ RetryAt(x, y) /\ ReaderMove(y, r, rest, out, t, h)  BY DEF y
<1>3. /\ wr[x] \in Writers /\ rd[y] \in Readers /\ line[x] \in Seq(Items) /\ line[y] \in Seq(Items)
      /\ Prev(x) \in Nat /\ faults \in 0..MaxFaults /\ Received(y) \in Nat
      BY <1>1, ByteTypes DEF TypeOK
<1>4. /\ turn[y] = "read" /\ ReadResult(rd[y], r, line[y], rest, out, got[y], t, h, LastByte(x))
      /\ rd'[y] = r /\ line'[y] = rest /\ line'[x] = line[x] \o out
      /\ turn'[y] = t /\ turn'[x] = turn[x] /\ wr' = wr /\ ends' = ends /\ faults' = faults
      BY <1>1, <1>2 DEF ReaderMove
<1>5. wr[y].st = "EXIT" /\ rd[y].next = rd[y].no % SeqMod
      BY <1>1, <1>4 DEF EndsOK, WriterOK, ReaderOK
<1>6. Prev(x)' = Prev(x) /\ ~Writing(y)' /\ (Writing(x)' <=> Writing(x))
      BY <1>4, <1>5 DEF Prev, Writing
<1>7. Acked(wr[x], rd[y], line[x]) /\ Alone(wr[x], rd[y], line[x], line[y], Prev(x))
      BY <1>2, <1>4 DEF AckAt, ClosedOr
<1>8. SUFFICES ASSUME Writing(x), t = "read"
               PROVE  Spent(wr[x], r, line[x] \o out, rest, Prev(x), faults)
      BY <1>4, <1>6 DEF RetryAt, Hears, y
<1>9. Spent(wr[x], rd[y], line[x], line[y], Prev(x), faults)
      BY <1>2, <1>4, <1>8 DEF RetryAt, Hears
<1>10. ~Has(line[y], UpTo(Prev(x)))  BY <1>2, <1>4 DEF LinkAt, Lines
<1>11. Exchanging(wr[x], rd[y], Received(y), line[x], line[y], Prev(x), faults)
       BY <1>2 DEF LinkAt, Exchange
<1>12. PICK p \in Nat, k \in Nat, n \in 0..MaxFaults :
           p = Prev(x) /\ k = Received(y) /\ n = faults
       BY <1>3
<1>13. /\ ~Has(line[y], UpTo(p)) /\ Exchanging(wr[x], rd[y], k, line[x], line[y], p, n)
       /\ Alone(wr[x], rd[y], line[x], line[y], p) /\ Spent(wr[x], rd[y], line[x], line[y], p, n)
       /\ n \in Nat
       BY <1>7, <1>9, <1>10, <1>11, <1>12, Constants
<1>14. CASE Stays(rd[y], r, got[y], t, h) /\ Silent(rd[y], r, line[y], rest, out)
  <2>1. r.no = rd[y].no /\ r.next = rd[y].next  BY <1>14 DEF Stays
  <2>2. Spent(wr[x], r, line[x] \o out, rest, p, n)
        BY <1>3, <1>5, <1>7, <1>13, <1>14, <2>1, SilentSpent
  <2>3. QED  BY <1>12, <2>2
<1>15. CASE Accepts(rd[y], r, line[y], rest, out, got[y], t, h, LastByte(x))
  <2>1. PICK last : last = LastByte(x)  OBVIOUS
  <2>2. Accepts(rd[y], r, line[y], rest, out, got[y], t, h, last)  BY <1>15, <2>1
  <2>3. Spent(wr[x], r, line[x] \o out, rest, p, n)
        BY <1>3, <1>5, <1>13, <2>2, AcceptSpent
  <2>4. QED  BY <1>12, <2>3
<1>16. QED  BY <1>4, <1>8, <1>14, <1>15 DEF ReadResult, Silent

\* A damage of the line that alters no number: it pays for one more retry.
LEMMA RetryLine ==
    ASSUME TypeOK, NEW x \in Ends, RetryAt(x, Peer(x)),
           NEW e \in Ends, NEW t, NEW b, LineMove(e, t, b), Punctual'
    PROVE  RetryAt(x, Peer(x))'
<1> DEFINE y == Peer(x)
<1>1. y \in Ends /\ y # x /\ \A z \in Ends : z = x \/ z = y  BY Two
<1> HIDE DEF y
<1>2. RetryAt(x, y) /\ Peer(y) = x /\ Peer(x) = y  BY Two DEF y
<1>3. /\ line[x] \in Seq(Items) /\ line[y] \in Seq(Items) /\ Prev(x) \in Nat /\ faults \in Nat
      /\ wr[x].retrans \in Nat
  <2>1. /\ line[x] \in Seq(Items) /\ line[y] \in Seq(Items) /\ Prev(x) \in Nat
        /\ wr[x] \in Writers /\ faults \in 0..MaxFaults
        BY <1>1, ByteTypes DEF TypeOK
  <2>2. QED  BY <2>1 DEF Writers
<1>4. b = FALSE  BY DEF LineMove, Alters, Punctual
<1>5. /\ t \in Seq(Items) /\ Remains(t, line[e], FALSE)
      /\ line'[e] = t /\ line'[Peer(e)] = line[Peer(e)] /\ faults' = faults + 1
      /\ wr' = wr /\ rd' = rd /\ turn' = turn /\ ends' = ends
      BY <1>4 DEF LineMove
<1>6. /\ line'[x] \in Seq(Items) /\ Remains(line'[x], line[x], FALSE)
      /\ line'[y] \in Seq(Items) /\ Remains(line'[y], line[y], FALSE)
  <2>1. Remains(line[x], line[x], FALSE) /\ Remains(line[y], line[y], FALSE)  BY <1>3, RemainsTail
  <2>2. CASE e = x  BY <1>2, <1>3, <1>5, <2>1, <2>2
  <2>3. CASE e = y  BY <1>2, <1>3, <1>5, <2>1, <2>3
  <2>4. QED  BY <1>1, <2>2, <2>3
<1>7. Closed(Acks, FALSE) /\ Closed(Ack, FALSE)  BY ClosedSets, GoodClosed, 0 \in Nat
<1>8. /\ Has(line'[x], Acks) => Has(line[x], Acks)
      /\ Has(line'[x], Ack) => Has(line[x], Ack)
      /\ Has(line'[y], Acks) => Has(line[y], Acks)
      BY <1>3, <1>6, <1>7, RemainsHas
<1>9. /\ Prev(x)' = Prev(x) /\ (Writing(x)' <=> Writing(x)) /\ (Writing(y)' <=> Writing(y))
      BY <1>5 DEF Prev, Writing
<1>10. SUFFICES ASSUME Writing(x), Hears(x, y)'
                PROVE  Spent(wr[x], rd[y], line'[x], line'[y], Prev(x), faults + 1)
       BY <1>5, <1>9 DEF RetryAt, y
<1>11. Hears(x, y)  BY <1>5, <1>8, <1>9, <1>10 DEF Hears
<1>12. Spent(wr[x], rd[y], line[x], line[y], Prev(x), faults)  BY <1>2, <1>10, <1>11 DEF RetryAt
<1>13. Coming(wr[x], rd[y], line'[x]) => Coming(wr[x], rd[y], line[x])  BY <1>8 DEF Coming
<1>14. Coming(wr[x], rd[y], line[x]) \/ ~Stuck(wr[x], rd[y]) => wr[x].retrans <= faults
       BY <1>12 DEF Spent
<1>15. wr[x].retrans <= faults => wr[x].retrans <= faults + 1 /\ wr[x].retrans < faults + 1
       BY <1>3
<1>16. QED  BY <1>13, <1>14, <1>15 DEF Spent

\* Only flags change.
LEMMA RetryFlags ==
    ASSUME NEW x \in Ends, NEW y \in Ends, RetryAt(x, y),
           line' = line, turn' = turn, ends' = ends, faults' = faults,
           wr'[x].st = wr[x].st, wr'[x].retrans = wr[x].retrans, wr'[x].cuts = wr[x].cuts,
           wr'[y].st = wr[y].st, SameReader(rd'[y], rd[y])
    PROVE  RetryAt(x, y)'
<1>1. /\ Prev(x)' = Prev(x) /\ (Writing(x)' <=> Writing(x)) /\ (Writing(y)' <=> Writing(y))
      BY DEF Prev, Writing
<1>2. Hears(x, y)' <=> Hears(x, y)  BY <1>1 DEF Hears
<1>3. /\ Stuck(wr'[x], rd'[y]) <=> Stuck(wr[x], rd[y])
      /\ Coming(wr'[x], rd'[y], line[x]) <=> Coming(wr[x], rd[y], line[x])
      BY DEF Stuck, Coming, SameReader
<1>4. Spent(wr'[x], rd'[y], line[x], line[y], Prev(x), faults)
        <=> Spent(wr[x], rd[y], line[x], line[y], Prev(x), faults)
      BY <1>3 DEF Spent
<1>5. QED  BY <1>1, <1>2, <1>4 DEF RetryAt

LEMMA RetryTimers ==
    ASSUME TypeOK, NEW x \in Ends, RetryAt(x, Peer(x)), NEW e \in Ends, TimerThread(e)
    PROVE  RetryAt(x, Peer(x))'
<1> DEFINE y == Peer(x)
<1>1. y \in Ends /\ y # x  BY Two
<1> HIDE DEF y
<1>2. RetryAt(x, y) /\ Peer(x) = y  BY DEF y
<1>3. wr \in [Ends -> Writers] /\ rd \in [Ends -> Readers]  BY DEF TypeOK
<1>4. line' = line /\ turn' = turn /\ ends' = ends /\ faults' = faults
      BY DEF TimerThread, OnlyFlags, txframe_timer_handler, txuplayer_timer_handler, rxuplayer_timer_handler
<1>5. \/ wr' = [wr EXCEPT ![e].frameTO = TRUE] /\ rd' = rd
      \/ wr' = [wr EXCEPT ![e].uplayerTO = TRUE] /\ rd' = rd
      \/ rd' = [rd EXCEPT ![e].uplayerTO = TRUE] /\ wr' = wr
      BY DEF TimerThread, txframe_timer_handler, txuplayer_timer_handler, rxuplayer_timer_handler
<1>6. /\ \A d \in Ends : /\ wr'[d].st = wr[d].st /\ wr'[d].retrans = wr[d].retrans
                         /\ wr'[d].cuts = wr[d].cuts /\ SameReader(rd'[d], rd[d])
  <2>1. CASE wr' = [wr EXCEPT ![e].frameTO = TRUE] /\ rd' = rd
        BY <1>3, <2>1 DEF Writers, SameReader
  <2>2. CASE wr' = [wr EXCEPT ![e].uplayerTO = TRUE] /\ rd' = rd
        BY <1>3, <2>2 DEF Writers, SameReader
  <2>3. CASE rd' = [rd EXCEPT ![e].uplayerTO = TRUE] /\ wr' = wr
        BY <1>3, <2>3 DEF Readers, SameReader
  <2>4. QED  BY <1>5, <2>1, <2>2, <2>3
<1>7. RetryAt(x, y)'  BY <1>1, <1>2, <1>4, <1>6, RetryFlags
<1>8. QED  BY <1>2, <1>7

\* A new write has not sent anything again; what kept its first frame was a damage.
LEMMA RetryWrite ==
    ASSUME TypeOK, NEW y \in Ends, NEW n, NEW o, WriteMove(y, n, o), EndsOK', TypeOK'
    PROVE  RetryAt(y, Peer(y))'
<1> DEFINE x == Peer(y)
<1>1. x \in Ends /\ y # x  BY Two
<1> HIDE DEF x
<1>2. /\ n \in Sizes /\ o.w \in Writers /\ o.w.st = "FRAMESENDED" /\ o.w.retrans = 0
      /\ o.w.remain = n /\ o.w.pdata = wr[y].pdata
      /\ o.out = <<>> => faults' > 0
      /\ o.out = <<>> \/ o.out = <<make_dmframe(o.w, FALSE)>>
      /\ wr'[y] = o.w /\ line'[x] = line[x] \o o.out /\ faults' \in Nat
      /\ ends'[y] = Append(ends[y], LastByte(y) + n) /\ ends'[x] = ends[x]
      BY DEF WriteMove, x
<1>3. n \in Nat /\ n > 0 /\ LastByte(y) \in Nat /\ line[x] \in Seq(Items) /\ o.w.pdata \in Nat
  <2>1. n \in Nat /\ n > 0 /\ o.w.pdata \in Nat  BY <1>2, Constants DEF Writers
  <2>2. QED  BY <1>1, <2>1, ByteTypes DEF TypeOK
<1>4. Prev(y)' = LastByte(y) /\ LastByte(y)' = LastByte(y) + n
      BY <1>1, <1>2, <1>3, WriteBytes
<1>5. WriterOK(o.w, turn'[y], LastByte(y) + n)  BY <1>2, <1>4 DEF EndsOK
<1>6. o.out # <<>> => Has(line'[x], GoodFrames(LastByte(y)))
  <2>1. SUFFICES ASSUME o.out = <<make_dmframe(o.w, FALSE)>>
                 PROVE  Has(line'[x], GoodFrames(LastByte(y)))
        BY <1>2
  <2> DEFINE f == make_dmframe(o.w, FALSE)
  <2>2. f \in Frames /\ f.first = o.w.pdata /\ f.good
        BY <1>2, <1>3, <1>5, SentFrame
  <2>3. o.w.pdata = LastByte(y) + 1
    <3>1. o.w.pdata + o.w.remain = (LastByte(y) + n) + 1  BY <1>5 DEF WriterOK
    <3>2. o.w.pdata + n = (LastByte(y) + n) + 1  BY <1>2, <3>1
    <3>3. QED  BY <1>3, <3>2
  <2>4. o.out = <<f>>  BY <2>1
  <2> HIDE DEF f
  <2>5. f \in GoodFrames(LastByte(y))  BY <1>3, <2>2, <2>3 DEF GoodFrames, After
  <2>6. Has(<<f>>, GoodFrames(LastByte(y))) /\ <<f>> \in Seq(Items)
    <3>1. f \in Items  BY <2>2 DEF Items
    <3>2. QED  BY <2>5, <3>1, OneItem
  <2>7. Has(line[x] \o <<f>>, GoodFrames(LastByte(y)))  BY <1>3, <2>6, HasJoin
  <2>8. QED  BY <1>2, <2>4, <2>7
<1>7. PICK m \in Nat : m = faults'  BY <1>2
<1> DEFINE v == o.w
<1>8. v.retrans = 0 /\ (Has(line'[x], GoodFrames(LastByte(y))) \/ v.retrans < m) /\ v.retrans <= m
  <2>1. v.retrans = 0 /\ (o.out = <<>> => 0 < m) /\ 0 <= m  BY <1>2, <1>7
  <2>2. QED  BY <1>6, <2>1
<1> HIDE DEF v
<1>9. Spent(v, rd'[x], line'[y], line'[x], LastByte(y), m)  BY <1>8 DEF Spent
<1>10. QED  BY <1>2, <1>4, <1>7, <1>9 DEF RetryAt, x, v

LEMMA RetrySameOwner ==
    ASSUME Distinguishes, TypeOK, EndsOK, NEW x \in Ends, LinkAt(x, Peer(x)), AckAt(x, Peer(x)),
           RetryAt(x, Peer(x)), SameOwner(x), LinkAt(x, Peer(x))', Punctual'
    PROVE  RetryAt(x, Peer(x))'
<1>1. CASE \E w, event, o, rest : EngineMove(x, w, event, o, rest)
  <2>1. PICK w, event, o, rest : EngineMove(x, w, event, o, rest)  BY <1>1
  <2>2. QED  BY <2>1, RetryOwner
<1>2. CASE \E w, event, o, rest : EngineMove(Peer(x), w, event, o, rest)
  <2>1. PICK w, event, o, rest : EngineMove(Peer(x), w, event, o, rest)  BY <1>2
  <2>2. QED  BY <2>1, RetryOther
<1>3. CASE \E r, rest, out, t, h : ReaderMove(x, r, rest, out, t, h)
  <2>1. turn[x] = "read" /\ wr' = wr  BY <1>3 DEF ReaderMove
  <2>2. wr'[x].st = "EXIT"  BY <2>1 DEF EndsOK, WriterOK
  <2>3. QED  BY <2>2 DEF RetryAt, Writing
<1>4. CASE \E r, rest, out, t, h : ReaderMove(Peer(x), r, rest, out, t, h)
  <2>1. PICK r, rest, out, t, h : ReaderMove(Peer(x), r, rest, out, t, h)  BY <1>4
  <2>2. QED  BY <2>1, RetryOtherReads
<1>5. CASE \E e \in Ends : \E t, b : LineMove(e, t, b)
  <2>1. PICK e \in Ends : \E t, b : LineMove(e, t, b)  BY <1>5
  <2>2. PICK t, b : LineMove(e, t, b)  BY <2>1
  <2>3. QED  BY <2>2, RetryLine
<1>6. CASE \E e \in Ends : TimerThread(e)
  <2>1. PICK e \in Ends : TimerThread(e)  BY <1>6
  <2>2. QED  BY <2>1, RetryTimers
<1>7. CASE vars' = vars
  <2>1. /\ wr' = wr /\ rd' = rd /\ line' = line /\ turn' = turn /\ ends' = ends /\ faults' = faults
        BY <1>7 DEF vars
  <2>2. Peer(x) \in Ends /\ SameReader(rd'[Peer(x)], rd[Peer(x)])  BY <2>1, Two DEF SameReader
  <2>3. QED  BY <2>1, <2>2, RetryFlags
<1>8. QED  BY <1>1, <1>2, <1>3, <1>4, <1>5, <1>6, <1>7 DEF SameOwner

-----------------------------------------------------------------------------
(* The error of a write that is given up.                                     *)

\* The session of an end that gave up is closed.
ErrAt(e) == err[e] = "MAXRETRIES" => turn[e] = "closed"

\* How the error of an end changes.
LEMMA ErrorMoves ==
    ASSUME TypeOK, EndsOK, NEW e \in Ends, [Next]_vars
    PROVE  \/ err'[e] = err[e] /\ turn'[e] = turn[e]
           \/ err'[e] \in {"NOERROR", "FATAL"}
           \/ turn[e] = "read" /\ turn'[e] = "closed"
           \/ \E w, event, o, rest : EngineMove(e, w, event, o, rest)
<1>1. /\ err \in [Ends -> {"NOERROR", "MAXRETRIES", "TXUPLAYER_TO", "RXUPLAYER_TO", "FATAL"}]
      /\ turn \in [Ends -> {"write", "read", "closed"}]
      BY DEF TypeOK
<1> DEFINE Same == err'[e] = err[e] /\ turn'[e] = turn[e]
<1>2. ASSUME NEW d \in Ends, wr_wait_byte(d) \/ wr_wait_flag(d)
      PROVE  Same \/ \E w, event, o, rest : EngineMove(e, w, event, o, rest)
  <2>1. CASE d = e  BY <1>2, <2>1, EngineMoves
  <2>2. CASE d # e
    <3>1. \E x, t : err' = [err EXCEPT ![d] = x] /\ turn' = [turn EXCEPT ![d] = t]
          BY <1>2 DEF wr_wait_byte, wr_wait_flag, WriterStep
    <3>2. QED  BY <1>1, <2>2, <3>1
  <2>3. QED  BY <2>1, <2>2
<1>3. ASSUME NEW d \in Ends, dmodem_write(d)
      PROVE  Same \/ err'[e] \in {"NOERROR", "FATAL"}
  <2>1. PICK n \in Sizes :
            WriterStep(d, wr_send_frame([wr[d] EXCEPT !.retrans = 0, !.remain = n,
                              !.frameTO = FALSE, !.uplayerTO = FALSE], "first"), line[d])
        BY <1>3 DEF dmodem_write
  <2>2. CASE d = e
    <3>1. PICK o \in wr_send_frame([wr[e] EXCEPT !.retrans = 0, !.remain = n,
                                    !.frameTO = FALSE, !.uplayerTO = FALSE], "first") :
              WriterStep(e, {o}, line[e])
          BY <2>1, <2>2 DEF WriterStep
    <3> DEFINE w == [wr[e] EXCEPT !.retrans = 0, !.remain = n, !.frameTO = FALSE, !.uplayerTO = FALSE]
    <3>2. w \in Writers
      <4>1. wr[e] \in Writers /\ n \in Nat /\ 0 \in 0..MaxRetries  BY <3>1, Constants DEF TypeOK
      <4>2. QED  BY <4>1 DEF Writers
    <3> HIDE DEF w
    <3>3. o \in wr_send_frame(w, "first")  BY <3>1 DEF w
    <3>4. o.error \in {"NOERROR", "FATAL"} /\ o.w.st = "FRAMESENDED"  BY <3>2, <3>3, FirstFrame
    <3>5. /\ err'[e] = IF o.w.st = "EXIT" \/ o.error # "NOERROR" THEN o.error ELSE err[e]
          /\ turn'[e] = IF o.w.st # "EXIT" THEN "write"
                        ELSE IF o.error # "NOERROR" THEN "closed" ELSE "read"
          BY <1>1, <3>1 DEF WriterStep
    <3>6. turn[e] = "write"  BY <1>3, <2>2 DEF dmodem_write
    <3>7. QED  BY <3>4, <3>5, <3>6
  <2>3. CASE d # e
    <3>1. \E x, t : err' = [err EXCEPT ![d] = x] /\ turn' = [turn EXCEPT ![d] = t]
          BY <2>1 DEF WriterStep
    <3>2. QED  BY <1>1, <2>3, <3>1
  <2>4. QED  BY <2>2, <2>3
<1>4. ASSUME NEW d \in Ends, dmodem_read(d)
      PROVE  Same \/ err'[e] \in {"NOERROR", "FATAL"}
  <2>1. err' = [err EXCEPT ![d] = "NOERROR"] /\ turn' = turn  BY <1>4 DEF dmodem_read
  <2>2. QED  BY <1>1, <2>1
<1>5. ASSUME NEW d \in Ends, rd_soh(d) \/ rd_discard_byte(d) \/ rd_quiet(d) \/ rd_exit_rxuplayerto(d)
      PROVE  \/ Same \/ err'[e] \in {"NOERROR", "FATAL"}
             \/ turn[e] = "read" /\ turn'[e] = "closed"
  <2>1. turn[d] = "read"
        BY <1>5 DEF EndsOK, ReaderOK, rd_soh, rd_discard_byte, rd_quiet, rd_exit_rxuplayerto
  <2>2. StillReading \/ \E r, x : ReturnData(d, r, x)
        BY <1>5 DEF rd_soh, rd_bad_frame, rd_good_frame, rd_discard_byte, rd_quiet, rd_exit_rxuplayerto
  <2>3. CASE StillReading  BY <2>3 DEF StillReading
  <2>4. CASE \E r, x : ReturnData(d, r, x)
    <3>1. PICK r, x : ReturnData(d, r, x)  BY <2>4
    <3>2. PICK t : /\ err' = [err EXCEPT ![d] = x] /\ turn' = [turn EXCEPT ![d] = t]
                   /\ x # "NOERROR" => t = "closed"
          BY <3>1 DEF ReturnData
    <3>3. QED  BY <1>1, <2>1, <3>2
  <2>5. QED  BY <2>2, <2>3, <2>4
<1>6. ASSUME NEW d \in Ends, TimerThread(d) \/ Lose(d) \/ Garble(d)
      PROVE  Same
      BY <1>6 DEF TimerThread, OnlyFlags, txframe_timer_handler, txuplayer_timer_handler,
             rxuplayer_timer_handler, Lose, Garble
<1>7. vars' = vars => Same  BY DEF vars
<1> HIDE DEF Same
<1>8. \/ \E d \in Ends : wr_wait_byte(d) \/ wr_wait_flag(d)
      \/ \E d \in Ends : dmodem_write(d)
      \/ \E d \in Ends : dmodem_read(d)
      \/ \E d \in Ends : rd_soh(d) \/ rd_discard_byte(d) \/ rd_quiet(d) \/ rd_exit_rxuplayerto(d)
      \/ \E d \in Ends : TimerThread(d) \/ Lose(d) \/ Garble(d)
      \/ vars' = vars
      BY DEF Next, Application, proto_engine
<1>9. QED  BY <1>2, <1>3, <1>4, <1>5, <1>6, <1>7, <1>8 DEF Same

\* The error of a retry given up closes the session, and stays with it.
LEMMA ErrorStep ==
    ASSUME TypeOK, EndsOK, NEW e \in Ends, ErrAt(e), [Next]_vars
    PROVE  ErrAt(e)'
<1>1. CASE err'[e] = err[e] /\ turn'[e] = turn[e]  BY <1>1 DEF ErrAt
<1>2. CASE err'[e] \in {"NOERROR", "FATAL"}  BY <1>2 DEF ErrAt
<1>3. CASE turn'[e] = "closed"  BY <1>3 DEF ErrAt
<1>4. CASE \E w, event, o, rest : EngineMove(e, w, event, o, rest)
  <2>1. PICK w, event, o, rest : EngineMove(e, w, event, o, rest)  BY <1>4
  <2>2. /\ turn[e] = "write" /\ turn'[e] = TurnAfter(o) /\ Result(o, w, event)
        /\ err'[e] = IF o.w.st = "EXIT" \/ o.error # "NOERROR" THEN o.error ELSE err[e]
        BY <2>1 DEF EngineMove
  <2>3. err[e] # "MAXRETRIES"  BY <2>2 DEF ErrAt
  <2>4. SUFFICES ASSUME o.error = "MAXRETRIES" PROVE turn'[e] = "closed"
        BY <2>2, <2>3 DEF ErrAt
  <2>5. o.w.st = "EXIT"  BY <2>2, <2>4 DEF Result, Waits, Resends, GivesUp, MovesOn
  <2>6. QED  BY <2>2, <2>4, <2>5, TurnAfterFacts
<1>5. QED  BY <1>1, <1>2, <1>3, <1>4, ErrorMoves

\* What is acknowledged and what the retries have cost, while the answers are
\* punctual.
Paid(x) == AckAt(x, Peer(x)) /\ RetryAt(x, Peer(x))
RetryInv ==
    /\ TypeOK /\ EndsOK /\ \A e \in Ends : ErrAt(e)
    /\ \E x \in Ends : LinkAt(x, Peer(x)) /\ (Punctual => Paid(x))

LEMMA InitRetry ==
    ASSUME Init
    PROVE  RetryInv
<1>1. AckInv  BY InitAcked
<1>2. PICK x \in Ends : LinkAt(x, Peer(x)) /\ (Punctual => AckAt(x, Peer(x)))  BY <1>1 DEF AckInv
<1>3. wr[x].st = "EXIT" /\ \A e \in Ends : err[e] = "NOERROR"  BY DEF Init
<1>4. RetryAt(x, Peer(x)) /\ \A e \in Ends : ErrAt(e)  BY <1>3 DEF RetryAt, Writing, ErrAt
<1>5. QED  BY <1>1, <1>2, <1>4 DEF AckInv, RetryInv, Paid

LEMMA StepRetry ==
    ASSUME Distinguishes, MessagesFit, RetryInv, [Next]_vars
    PROVE  RetryInv'
<1>1. TypeOK /\ EndsOK  BY DEF RetryInv
<1>2. PICK x \in Ends : LinkAt(x, Peer(x)) /\ (Punctual => Paid(x))  BY DEF RetryInv
<1>3. Peer(x) \in Ends /\ Peer(Peer(x)) = x  BY Two
<1>4. /\ TypeOK' /\ EndsOK'
      /\ (SameOwner(x) /\ LinkAt(x, Peer(x))') \/ (NewOwner(x) /\ LinkAt(Peer(x), x)')
      BY <1>1, <1>2, StepLink
<1>5. Punctual' => Punctual  BY <1>4, Punctuality
<1>6. (\A e \in Ends : ErrAt(e))'
  <2>1. \A e \in Ends : ErrAt(e)  BY DEF RetryInv
  <2>2. ASSUME NEW e \in Ends PROVE ErrAt(e)'  BY <1>1, <2>1, ErrorStep
  <2>3. QED  BY <2>2
<1>7. CASE SameOwner(x) /\ LinkAt(x, Peer(x))'
  <2>1. Punctual' => Paid(x)'
    <3>1. SUFFICES ASSUME Punctual' PROVE Paid(x)'  OBVIOUS
    <3>2. Punctual /\ AckAt(x, Peer(x)) /\ RetryAt(x, Peer(x))  BY <1>2, <1>5, <3>1 DEF Paid
    <3>3. AckAt(x, Peer(x))'  BY <1>1, <1>2, <1>7, <3>1, <3>2, AckSameOwner
    <3>4. RetryAt(x, Peer(x))'  BY <1>1, <1>2, <1>7, <3>1, <3>2, RetrySameOwner
    <3>5. QED  BY <3>3, <3>4 DEF Paid
  <2>2. QED  BY <1>4, <1>6, <1>7, <2>1 DEF RetryInv
<1>8. CASE NewOwner(x) /\ LinkAt(Peer(x), x)'
  <2>1. Punctual' => Paid(Peer(x))'
    <3>1. SUFFICES ASSUME Punctual' PROVE Paid(Peer(x))'  OBVIOUS
    <3>2. AckAt(x, Peer(x))  BY <1>2, <1>5, <3>1 DEF Paid
    <3>3. PICK n, o : WriteMove(Peer(x), n, o)  BY <1>8 DEF NewOwner
    <3>4. AckAt(Peer(x), x)'  BY <1>1, <1>2, <1>4, <3>2, <3>3, AckWrite
    <3>5. RetryAt(Peer(x), Peer(Peer(x)))'  BY <1>1, <1>3, <1>4, <3>3, RetryWrite
    <3>6. QED  BY <1>3, <3>4, <3>5 DEF Paid
  <2>2. LinkAt(Peer(x), Peer(Peer(x)))'  BY <1>3, <1>8
  <2>3. QED  BY <1>3, <1>4, <1>6, <2>1, <2>2 DEF RetryInv
<1>9. QED  BY <1>4, <1>7, <1>8

\* A write given up has used all its retries, which so many damages did not cost,
\* unless nobody reads or the frame it repeats is refused.
LEMMA RetriesStep ==
    ASSUME RetryInv, [Next]_vars, NEW e \in Ends, wr[e].st # "EXIT", err'[e] = "MAXRETRIES",
           ~late, ~garbled, faults < MaxRetries
    PROVE  turn[Peer(e)] # "read" \/ rd[Peer(e)].next = 0
<1> DEFINE y == Peer(e)
<1>1. SUFFICES ASSUME turn[y] = "read", rd[y].next # 0 PROVE FALSE  OBVIOUS
<1>2. TypeOK /\ EndsOK /\ ErrAt(e)  BY DEF RetryInv
<1>3. PICK x \in Ends : LinkAt(x, Peer(x)) /\ Paid(x)  BY DEF RetryInv, Punctual
<1>4. y \in Ends /\ Peer(y) = e  BY Two
<1> HIDE DEF y
<1>5. turn[e] = "write"  BY <1>2 DEF EndsOK, WriterOK
<1>6. \E w, event, o, rest : EngineMove(e, w, event, o, rest)
  <2>1. err[e] # "MAXRETRIES"  BY <1>2, <1>5 DEF ErrAt
  <2>2. QED  BY <1>2, <1>5, <2>1, ErrorMoves
<1>7. PICK w, event, o, rest : EngineMove(e, w, event, o, rest)  BY <1>6
<1>8. /\ Waiting(w) /\ Result(o, w, event) /\ SameState(w, wr[e])
      /\ Hearing(wr[e], w, event, line[e], rest)
      /\ err'[e] = IF o.w.st = "EXIT" \/ o.error # "NOERROR" THEN o.error ELSE err[e]
      BY <1>7 DEF EngineMove, SameState, SameNumbers, Hearing
<1>9. o.error = "MAXRETRIES"
  <2>1. err[e] # "MAXRETRIES"  BY <1>2, <1>5 DEF ErrAt
  <2>2. QED  BY <1>8, <2>1
<1>10. <<w.st, event>> \in wr_retrans /\ w.retrans + 1 = MaxRetries
       BY <1>8, <1>9 DEF Result, Waits, Resends, GivesUp, MovesOn
<1>11. e = x
  <2>1. SUFFICES ASSUME e # x PROVE FALSE  OBVIOUS
  <2>2. e = Peer(x) /\ y = x  BY <1>4, <2>1, Two
  <2>3. ~Writing(e)  BY <1>1, <1>3, <2>2 DEF LinkAt, Modes
  <2>4. QED  BY <1>5, <2>3 DEF Writing
<1>12. AckAt(e, y) /\ RetryAt(e, y)  BY <1>3, <1>11 DEF Paid, y
<1>13. Hears(e, y) /\ Writing(e) /\ turn[y] # "closed"  BY <1>1, <1>5 DEF Hears, Writing
<1>14. Spent(wr[e], rd[y], line[e], line[y], Prev(e), faults)  BY <1>12, <1>13 DEF RetryAt
<1>15. Acked(wr[e], rd[y], line[e]) /\ Alone(wr[e], rd[y], line[e], line[y], Prev(e))
       BY <1>12, <1>13 DEF AckAt, ClosedOr
<1>16. line[e] \in Seq(Items) /\ line[y] \in Seq(Items) /\ Prev(e) \in Nat /\ faults \in Nat
       BY <1>2, <1>4, ByteTypes, Constants DEF TypeOK
<1>17. PICK p \in Nat : p = Prev(e)  BY <1>16
<1>18. Alone(wr[e], rd[y], line[e], line[y], p)  BY <1>15, <1>17
<1>19. ~Has(line[y], GoodFrames(p)) /\ ~Coming(wr[e], rd[y], line[e])
       BY <1>8, <1>10, <1>15, <1>16, <1>18, NothingComing
<1>20. ~Stuck(wr[e], rd[y])  BY <1>1 DEF Stuck
<1>21. wr[e].retrans < faults  BY <1>14, <1>17, <1>19, <1>20 DEF Spent
<1>22. w.retrans = wr[e].retrans /\ w.retrans \in Nat  BY <1>8 DEF SameState, Waiting, Writers
<1>23. QED  BY <1>10, <1>16, <1>21, <1>22, Constants

\* With fewer damages than retries a write is given up only when the other end
\* does not read, or expects frame number 0 and so refuses the one before it:
\* every frame sent again was paid for by a damage of its own.
THEOREM RetriesSufficeAlways == ASSUME Distinguishes, MessagesFit PROVE Spec => RetriesSuffice
<1>1. Init => RetryInv  BY InitRetry
<1>2. RetryInv /\ [Next]_vars => RetryInv'  BY StepRetry
<1>3. RetryInv /\ [Next]_vars =>
        [\A e \in Ends :
            (wr[e].st # "EXIT" /\ err'[e] = "MAXRETRIES" /\ ~late /\ ~garbled /\ faults < MaxRetries)
                => turn[Peer(e)] # "read" \/ rd[Peer(e)].next = 0]_vars
      BY RetriesStep
<1>4. QED  BY <1>1, <1>2, <1>3, PTL DEF Spec, RetriesSuffice
=============================================================================

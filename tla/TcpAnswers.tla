----------------------------- MODULE TcpAnswers -----------------------------
(***************************************************************************)
(* What a client of the TCP server reads is what the handler answered, for *)
(* any sequence space that holds the answers, and whatever the network     *)
(* loses, repeats and reorders: a segment carries its position in its      *)
(* number, and the incarnations of a connection have their own numbers.    *)
(***************************************************************************)
EXTENDS TcpProofs

\* The numbers an incarnation may use, and the first of them.
Share == SeqMod \div MaxIncarnations
First(j) == j * Share

\* No incarnation answers more than its share of the sequence space holds.
InShare == \A k \in Keys : said[k] + 2 < Share

-----------------------------------------------------------------------------
(* Numbers *)

LEMMA Shares ==
  /\ Share \in Nat /\ SeqMod \in Nat \ {0} /\ MaxIncarnations \in Nat \ {0}
  /\ \A j \in 0..(MaxIncarnations - 1) : First(j) \in Nat /\ First(j) + Share <= SeqMod
  /\ \A i, j \in 0..(MaxIncarnations - 1) : i < j => First(i) + Share <= First(j)
<1>1. /\ SeqMod \in Nat \ {0} /\ MaxIncarnations \in Nat \ {0}
  BY StreamAssumption, BoundsAssumption
<1>2. PICK m \in Nat, s \in Nat : m = MaxIncarnations /\ s = Share /\ m * s <= SeqMod
  <2>1. Share \in Nat /\ MaxIncarnations * Share <= SeqMod
    BY <1>1 DEF Share
  <2> QED BY <1>1, <2>1
<1>3. \A j \in Nat : j * s \in Nat /\ (j + 1) * s = j * s + s
  BY <1>2
<1>4. ASSUME NEW i \in Nat, NEW j \in Nat, i <= j PROVE i * s <= j * s
  BY <1>2, <1>4
<1>5. ASSUME NEW j \in 0..(m - 1) PROVE j * s + s <= SeqMod
  <2>1. j + 1 \in Nat /\ j + 1 <= m
    BY <1>2
  <2>2. (j + 1) * s <= m * s
    BY <1>2, <1>4, <2>1
  <2>3. j * s \in Nat /\ m * s \in Nat /\ (j + 1) * s = j * s + s
    BY <1>2, <1>3
  <2> QED BY <1>1, <1>2, <2>2, <2>3
<1>6. ASSUME NEW i \in 0..(m - 1), NEW j \in 0..(m - 1), i < j PROVE i * s + s <= j * s
  <2>1. i + 1 \in Nat /\ i + 1 <= j /\ j \in Nat /\ i \in Nat
    BY <1>2, <1>6
  <2>2. (i + 1) * s <= j * s
    BY <1>4, <2>1
  <2> QED BY <1>3, <2>1, <2>2
<1> QED BY <1>1, <1>2, <1>3, <1>5, <1>6 DEF First

\* Two incarnations have no number in common.
LEMMA Apart ==
  ASSUME NEW i \in 0..(MaxIncarnations - 1), NEW j \in 0..(MaxIncarnations - 1),
         NEW a \in Nat, NEW b \in Nat, a < Share, b < Share, First(i) + a = First(j) + b
  PROVE  i = j /\ a = b
<1>1. First(i) \in Nat /\ First(j) \in Nat /\ Share \in Nat /\ i \in Int /\ j \in Int
  BY Shares
<1>2. ~ (i < j)
  <2> SUFFICES ASSUME i < j PROVE FALSE
    OBVIOUS
  <2>1. First(i) + Share <= First(j)
    BY Shares
  <2> QED BY <1>1, <2>1
<1>3. ~ (j < i)
  <2> SUFFICES ASSUME j < i PROVE FALSE
    OBVIOUS
  <2>1. First(j) + Share <= First(i)
    BY Shares
  <2> QED BY <1>1, <2>1
<1>4. i = j
  BY <1>1, <1>2, <1>3
<1> QED BY <1>1, <1>4

\* Within its share a number does not wrap.
LEMMA AddWithin ==
  ASSUME NEW j \in 0..(MaxIncarnations - 1), NEW a \in Nat, NEW n \in Nat, a + n < Share
  PROVE  Add(First(j) + a, n) = First(j) + a + n /\ First(j) + a + n \in 0..(SeqMod - 1)
<1>1. First(j) \in Nat /\ First(j) + Share <= SeqMod /\ Share \in Nat /\ SeqMod \in Nat \ {0}
  BY Shares
<1>2. First(j) + a + n \in 0..(SeqMod - 1)
  BY <1>1
<1>3. PICK t \in 0..(SeqMod - 1) : t = First(j) + a + n
  BY <1>2
<1>4. t % SeqMod = t
  BY ONLY <1>1, t \in 0..(SeqMod - 1)
<1> QED BY <1>2, <1>3, <1>4 DEF Add

-----------------------------------------------------------------------------
(* Traces: f tells, for each incarnation, how much it had answered when it   *)
(* sent its FIN, or Share if it has not sent one; inc is the number of       *)
(* incarnations, n what the last of them has answered.                       *)

Ends == [Nat -> Nat]
Most(j, inc, n) == IF j = inc - 1 THEN n ELSE Share - 3

\* A segment of incarnation j, whose FIN is at e and which answered m bytes at most.
\* Bytes that a closing connection still sends come behind the FIN.
Belongs(s, j, e, m) ==
  /\ "SYN" \in s.flags => s.seq = First(j) /\ s.len = 0 /\ "FIN" \notin s.flags
  /\ "FIN" \in s.flags => s.seq = First(j) + 1 + e /\ s.len = 0 /\ e <= m
  /\ s.len > 0 => /\ s.from + s.len <= m
                  /\ \/ s.seq = First(j) + 1 + s.from /\ s.from + s.len <= e
                     \/ s.seq = First(j) + 2 + s.from /\ e <= s.from
Segs(f, inc, n) ==
  {s \in ServerSegments : \E j \in 0..(inc - 1) : Belongs(s, j, f[j], Most(j, inc, n))}

\* A client that has read r bytes of incarnation j waits for the next one, or for
\* what comes behind the FIN.
Follows(c, j, e, m) ==
  /\ Len(c.read) <= m
  /\ \/ c.rcv = First(j) + 1 + Len(c.read) /\ Len(c.read) <= e
     \/ c.rcv = First(j) + 2 + Len(c.read) /\ e <= Len(c.read)
Reads(f, inc, n, c) ==
  /\ InOrder(c.read)
  /\ c.state \in {"closed", "syn_sent"} => c.read = <<>>
  /\ c.state \in {"open", "done"} =>
       \E j \in 0..(inc - 1) : Follows(c, j, f[j], Most(j, inc, n))

\* The server's numbers.
Numbered(conn, j, e, n) ==
  IF conn.state = "LAST_ACK" THEN conn.seq = First(j) + 2 + n /\ e = n
  ELSE conn.seq = First(j) + 1 + n /\ e = Share
Counted(f, inc, n, conn) ==
  conn.state # "LISTEN" => inc > 0 /\ Numbered(conn, inc - 1, f[inc - 1], n)

Traced(k, f) ==
  /\ incarnations[k] \in 0..MaxIncarnations
  /\ toClient[k] \in Seq(Segs(f, incarnations[k], said[k]))
  /\ Reads(f, incarnations[k], said[k], client[k])
  /\ MapHas(tcp_conn_table, k, Time) =>
       Counted(f, incarnations[k], said[k], SlotOf(tcp_conn_table, k, Time).val)

AnswersTraced == \A k \in Keys : \E f \in Ends : Traced(k, f)

-----------------------------------------------------------------------------
(* A client *)

LEMMA NoFlags ==
  ASSUME NEW F, "SYN" \notin F, NEW n \in Nat
  PROVE  bytes_in_flight(n, F) = IF "FIN" \in F THEN n + 1 ELSE n
<1>1. CASE "FIN" \in F
  <2>1. F \cap {"SYN", "FIN"} = {"FIN"}
    BY <1>1
  <2> QED BY <1>1, <2>1, FS_Singleton DEF bytes_in_flight
<1>2. CASE "FIN" \notin F
  <2>1. F \cap {"SYN", "FIN"} = {}
    BY <1>2
  <2> QED BY <1>2, <2>1, FS_EmptySet DEF bytes_in_flight
<1> QED BY <1>1, <1>2

\* Numbers of segments and clients lie within a share.
LEMMA MostRange ==
  ASSUME NEW inc \in 0..MaxIncarnations, NEW n \in Nat, n + 2 < Share, NEW j \in 0..(inc - 1)
  PROVE  /\ Most(j, inc, n) \in Nat /\ Most(j, inc, n) + 2 < Share
         /\ j \in 0..(MaxIncarnations - 1) /\ j \in Nat
BY Shares DEF Most

\* The segment a client waits for is of the incarnation it follows, and brings the
\* bytes behind those it has read, or the FIN in its place.
LEMMA Next1 ==
  ASSUME NEW f \in Ends, NEW inc \in 0..MaxIncarnations, NEW n \in Nat, n + 2 < Share,
         NEW c \in Clients, NEW j \in 0..(inc - 1), Follows(c, j, f[j], Most(j, inc, n)),
         NEW s \in Segs(f, inc, n), s.seq = c.rcv, "SYN" \notin s.flags,
         s.len > 0 \/ "FIN" \in s.flags
  PROVE  /\ Belongs(s, j, f[j], Most(j, inc, n))
         /\ s.len > 0 => /\ s.from = Len(c.read) /\ "FIN" \notin s.flags
                         /\ \/ c.rcv = First(j) + 1 + Len(c.read) /\ Len(c.read) + s.len <= f[j]
                            \/ c.rcv = First(j) + 2 + Len(c.read) /\ f[j] <= Len(c.read)
         /\ s.len = 0 => c.rcv = First(j) + 1 + Len(c.read) /\ f[j] = Len(c.read)
<1>1. PICK i \in 0..(inc - 1) : Belongs(s, i, f[i], Most(i, inc, n))
  BY DEF Segs
<1>2. PICK l, m, e, w, v : /\ l = Len(c.read) /\ m = Most(j, inc, n) /\ e = f[j]
                           /\ w = Most(i, inc, n) /\ v = f[i]
  OBVIOUS
<1>3. /\ l \in Nat /\ m \in Nat /\ m + 2 < Share /\ e \in Nat /\ w \in Nat /\ w + 2 < Share
      /\ v \in Nat /\ i \in 0..(MaxIncarnations - 1) /\ j \in 0..(MaxIncarnations - 1)
      /\ i \in Nat /\ j \in Nat /\ Share \in Nat
  <2>1. c.read \in Seq(Nat)
    BY DEF Clients
  <2>2. i \in Nat /\ j \in Nat
    BY MostRange
  <2> QED BY <1>2, <2>1, <2>2, LenProperties, MostRange, Shares DEF Ends
<1>4. s.len \in Nat /\ s.from \in Nat /\ First(i) \in Nat /\ First(j) \in Nat
  BY <1>3, Shares DEF ServerSegments, Segs
<1>5. /\ l <= m
      /\ (c.rcv = First(j) + 1 + l /\ l <= e) \/ (c.rcv = First(j) + 2 + l /\ e <= l)
  BY <1>2 DEF Follows
<1>6. PICK a \in Nat : c.rcv = First(j) + a /\ a < Share /\ ((a = 1 + l /\ l <= e) \/ (a = 2 + l /\ e <= l))
  <2>1. CASE c.rcv = First(j) + 1 + l /\ l <= e
    <3>1. 1 + l \in Nat /\ c.rcv = First(j) + (1 + l) /\ 1 + l < Share
      BY <1>3, <1>4, <1>5, <2>1
    <3> QED BY <2>1, <3>1
  <2>2. CASE c.rcv = First(j) + 2 + l /\ e <= l
    <3>1. 2 + l \in Nat /\ c.rcv = First(j) + (2 + l) /\ 2 + l < Share
      BY <1>3, <1>4, <1>5, <2>2
    <3> QED BY <2>2, <3>1
  <2> QED BY <1>5, <2>1, <2>2
<1>7. PICK b \in Nat : /\ s.seq = First(i) + b /\ b < Share
                       /\ \/ /\ s.len > 0 /\ s.from + s.len <= w
                             /\ (b = 1 + s.from /\ s.from + s.len <= v) \/ (b = 2 + s.from /\ v <= s.from)
                          \/ s.len = 0 /\ b = 1 + v /\ v <= w
  <2>1. CASE s.len > 0
    <3>1. s.from + s.len <= w
      BY <1>1, <1>2, <2>1 DEF Belongs
    <3>2. CASE s.seq = First(i) + 1 + s.from /\ s.from + s.len <= v
      <4>1. 1 + s.from \in Nat /\ s.seq = First(i) + (1 + s.from) /\ 1 + s.from < Share
        BY <1>3, <1>4, <2>1, <3>1, <3>2
      <4> QED BY <2>1, <3>1, <3>2, <4>1
    <3>3. CASE s.seq = First(i) + 2 + s.from /\ v <= s.from
      <4>1. 2 + s.from \in Nat /\ s.seq = First(i) + (2 + s.from) /\ 2 + s.from < Share
        BY <1>3, <1>4, <2>1, <3>1, <3>3
      <4> QED BY <2>1, <3>1, <3>3, <4>1
    <3> QED BY <1>1, <1>2, <2>1, <3>2, <3>3 DEF Belongs
  <2>2. CASE s.len = 0
    <3>1. s.seq = First(i) + 1 + v /\ v <= w
      BY <1>1, <1>2, <2>2 DEF Belongs
    <3>2. 1 + v \in Nat /\ s.seq = First(i) + (1 + v) /\ 1 + v < Share
      BY <1>3, <1>4, <3>1
    <3> QED BY <2>2, <3>1, <3>2
  <2> QED BY <1>4, <2>1, <2>2
<1>8. i = j /\ a = b
  BY <1>3, <1>6, <1>7, Apart
<1>9. v = e /\ w = m
  BY <1>2, <1>8
<1>10. s.len > 0 => "FIN" \notin s.flags
  BY <1>1, <1>4 DEF Belongs
<1>11. s.len > 0 => /\ s.from = l
                    /\ (a = 1 + l /\ l + s.len <= e) \/ (a = 2 + l /\ e <= l)
  BY <1>3, <1>4, <1>6, <1>7, <1>8, <1>9
<1>12. s.len = 0 => a = 1 + l /\ e = l
  BY <1>3, <1>4, <1>6, <1>7, <1>8, <1>9
<1>13. /\ a = 1 + l => c.rcv = First(j) + 1 + l
       /\ a = 2 + l => c.rcv = First(j) + 2 + l
  BY <1>3, <1>4, <1>6
<1> QED BY <1>1, <1>2, <1>8, <1>10, <1>11, <1>12, <1>13

\* A client that has the line open goes on in its incarnation.
LEMMA HeedTraces ==
  ASSUME NEW f \in Ends, NEW inc \in 0..MaxIncarnations, NEW n \in Nat, n + 2 < Share,
         NEW c \in Clients, c.state \in {"open", "done"}, Reads(f, inc, n, c),
         NEW s \in Segs(f, inc, n), NEW d, d = Heeded(c, s)
  PROVE  Reads(f, inc, n, d)
<1>1. PICK j \in 0..(inc - 1) : Follows(c, j, f[j], Most(j, inc, n))
  BY DEF Reads
<1>2. PICK news, r, u, rcv, read, state :
        /\ news \in BOOLEAN /\ news = (s.seq = c.rcv /\ "SYN" \notin s.flags)
        /\ r = [i \in 1..s.len |-> s.from + i]
        /\ u = IF AckedBy(s) \in c.una..c.snd THEN AckedBy(s) ELSE c.una
        /\ rcv = IF news THEN Add(c.rcv, Space(s)) ELSE c.rcv
        /\ read = IF news THEN c.read \o r ELSE c.read
        /\ state = IF news /\ "FIN" \in s.flags THEN "done" ELSE c.state
  OBVIOUS
<1>3. d = [c EXCEPT !.una = u, !.rcv = rcv, !.read = read, !.state = state]
  BY <1>2 DEF Heeded
<1>4. d.rcv = rcv /\ d.read = read /\ d.state = state
  BY ONLY <1>3, c \in Clients DEF Clients
<1>5. state \in {"open", "done"}
  BY <1>2
<1>6. PICK l, m, e : l = Len(c.read) /\ m = Most(j, inc, n) /\ e = f[j]
  OBVIOUS
<1>7. /\ l \in Nat /\ m \in Nat /\ m + 2 < Share /\ e \in Nat /\ j \in Nat
      /\ j \in 0..(MaxIncarnations - 1) /\ Share \in Nat /\ First(j) \in Nat
      /\ c.read \in Seq(Nat) /\ InOrder(c.read)
  <2>1. c.read \in Seq(Nat) /\ InOrder(c.read)
    BY DEF Clients, Reads
  <2> QED BY <1>6, <2>1, LenProperties, MostRange, Shares DEF Ends
<1>8. s.len \in Nat /\ s.from \in Nat
  BY DEF ServerSegments, Segs
<1>s. "SYN" \notin s.flags => Space(s) = IF "FIN" \in s.flags THEN s.len + 1 ELSE s.len
  <2>1. PICK F, w : F = s.flags /\ w = s.len
    OBVIOUS
  <2>2. "SYN" \notin F => bytes_in_flight(w, F) = IF "FIN" \in F THEN w + 1 ELSE w
    BY ONLY <1>8, <2>1, NoFlags
  <2> QED BY ONLY <2>1, <2>2 DEF Space
<1>9. CASE ~ news
  <2>1. Follows(d, j, f[j], Most(j, inc, n)) /\ InOrder(d.read)
    BY <1>1, <1>2, <1>4, <1>7, <1>9 DEF Follows
  <2> QED BY <1>4, <1>5, <2>1 DEF Reads
<1>10. CASE news /\ s.len > 0
  <2>1. /\ s.from = l /\ "FIN" \notin s.flags /\ s.from + s.len <= m
        /\ \/ c.rcv = First(j) + 1 + l /\ l + s.len <= e
           \/ c.rcv = First(j) + 2 + l /\ e <= l
    <3>1. /\ Belongs(s, j, f[j], Most(j, inc, n))
          /\ s.len > 0 => /\ s.from = Len(c.read) /\ "FIN" \notin s.flags
                          /\ \/ c.rcv = First(j) + 1 + Len(c.read) /\ Len(c.read) + s.len <= f[j]
                             \/ c.rcv = First(j) + 2 + Len(c.read) /\ f[j] <= Len(c.read)
      BY <1>1, <1>2, <1>10, Next1
    <3> QED BY <1>6, <1>10, <3>1 DEF Belongs
  <2>2. Space(s) = s.len
    BY <1>2, <1>s, <1>10, <2>1
  <2>3. /\ read \in Seq(Nat) /\ InOrder(read) /\ Len(read) = l + s.len
    <3>1. r = [i \in 1..s.len |-> Len(c.read) + i] /\ read = c.read \o r
      BY <1>2, <1>6, <1>10, <2>1
    <3> QED BY ONLY <1>6, <1>7, <1>8, <3>1, InOrderMore
  <2>4. /\ \/ rcv = First(j) + 1 + (l + s.len) /\ l + s.len <= e
           \/ rcv = First(j) + 2 + (l + s.len) /\ e <= l + s.len
    <3>1. CASE c.rcv = First(j) + 1 + l /\ l + s.len <= e
      <4>1. 1 + l \in Nat /\ c.rcv = First(j) + (1 + l) /\ (1 + l) + s.len < Share
        <5>1. l + s.len <= m
          BY <2>1
        <5> QED BY ONLY <1>7, <1>8, <3>1, <5>1
      <4>2. Add(c.rcv, s.len) = First(j) + (1 + l) + s.len
        BY ONLY <1>7, <1>8, <4>1, AddWithin
      <4>3. rcv = First(j) + (1 + l) + s.len
        BY <1>2, <1>10, <2>2, <4>2
      <4> QED BY ONLY <1>7, <1>8, <3>1, <4>3, <2>1
    <3>2. CASE c.rcv = First(j) + 2 + l /\ e <= l
      <4>1. 2 + l \in Nat /\ c.rcv = First(j) + (2 + l) /\ (2 + l) + s.len < Share
        <5>1. l + s.len <= m
          BY <2>1
        <5> QED BY ONLY <1>7, <1>8, <3>2, <5>1
      <4>2. Add(c.rcv, s.len) = First(j) + (2 + l) + s.len
        BY ONLY <1>7, <1>8, <4>1, AddWithin
      <4>3. rcv = First(j) + (2 + l) + s.len
        BY <1>2, <1>10, <2>2, <4>2
      <4>4. First(j) + (2 + l) + s.len = First(j) + 2 + (l + s.len)
        BY ONLY <1>7, <1>8
      <4>5. e <= l + s.len
        BY ONLY <1>7, <1>8, <3>2
      <4> QED BY ONLY <4>3, <4>4, <4>5
    <3> QED BY <2>1, <3>1, <3>2
  <2>5. Follows(d, j, f[j], Most(j, inc, n))
    BY <1>4, <1>6, <1>7, <1>8, <2>1, <2>3, <2>4 DEF Follows
  <2> QED BY <1>4, <1>5, <2>3, <2>5 DEF Reads
<1>11. CASE news /\ s.len = 0
  <2>1. r = <<>> /\ read = c.read
    <3>1. 1..s.len = {}
      BY <1>11
    <3>2. r = <<>>
      BY <1>2, <3>1
    <3> QED BY <1>2, <1>7, <1>11, <3>2
  <2>2. CASE "FIN" \in s.flags
    <3>1. c.rcv = First(j) + 1 + l /\ e = l
      <4>1. s.len = 0 => c.rcv = First(j) + 1 + Len(c.read) /\ f[j] = Len(c.read)
        <5>1. s.seq = c.rcv /\ "SYN" \notin s.flags
          BY <1>2, <1>11
        <5> QED BY <1>1, <2>2, <5>1, Next1
      <4> QED BY <1>6, <1>11, <4>1
    <3>2. Space(s) = 1
      <4>1. "SYN" \notin s.flags
        BY <1>2, <1>11
      <4> QED BY ONLY <1>s, <1>11, <2>2, <4>1
    <3>3. 1 + l \in Nat /\ c.rcv = First(j) + (1 + l) /\ (1 + l) + 1 < Share
      <4>1. l <= m
        BY <1>1, <1>6 DEF Follows
      <4> QED BY <1>7, <3>1, <4>1
    <3>4. Add(c.rcv, 1) = First(j) + (1 + l) + 1
      BY ONLY <1>7, <3>3, 1 \in Nat, AddWithin
    <3>5. rcv = First(j) + 2 + l
      BY <1>2, <1>7, <1>11, <3>2, <3>4
    <3>6. Follows(d, j, f[j], Most(j, inc, n))
      BY <1>1, <1>4, <1>6, <1>7, <2>1, <3>1, <3>5 DEF Follows
    <3> QED BY <1>4, <1>5, <1>7, <2>1, <3>6 DEF Reads
  <2>3. CASE "FIN" \notin s.flags
    <3>1. Space(s) = 0
      <4>1. "SYN" \notin s.flags
        BY <1>2, <1>11
      <4> QED BY ONLY <1>s, <1>11, <2>3, <4>1
    <3>2. rcv = c.rcv
      <4>1. c.rcv \in 0..(SeqMod - 1) /\ SeqMod \in Nat \ {0}
        BY Shares DEF Clients
      <4>2. c.rcv % SeqMod = c.rcv /\ c.rcv + 0 = c.rcv
        BY <4>1
      <4> QED BY <1>2, <3>1, <4>2 DEF Add
    <3>3. Follows(d, j, f[j], Most(j, inc, n))
      BY <1>1, <1>4, <2>1, <3>2 DEF Follows
    <3> QED BY <1>4, <1>5, <1>7, <2>1, <3>3 DEF Reads
  <2> QED BY <2>2, <2>3
<1> QED BY <1>2, <1>8, <1>9, <1>10, <1>11

\* A SYN-ACK opens the line at the first byte of its incarnation.
LEMMA OpenTraces ==
  ASSUME NEW f \in Ends, NEW inc \in 0..MaxIncarnations, NEW n \in Nat, n + 2 < Share,
         NEW c \in Clients, c.state = "syn_sent", Reads(f, inc, n, c),
         NEW s \in Segs(f, inc, n), "SYN" \in s.flags, NEW d, d = Opened(c, s)
  PROVE  Reads(f, inc, n, d)
<1>1. PICK j \in 0..(inc - 1) : Belongs(s, j, f[j], Most(j, inc, n))
  BY DEF Segs
<1>2. s.seq = First(j) + 0 /\ First(j) \in Nat /\ j \in 0..(MaxIncarnations - 1)
  <2>1. s.seq = First(j) /\ j \in 0..(MaxIncarnations - 1)
    BY <1>1, MostRange DEF Belongs
  <2> QED BY <2>1, Shares
<1>3. PICK rcv : rcv = Add(s.seq, 1)
  OBVIOUS
<1>4. rcv = First(j) + 1
  <2>1. 0 + 1 < Share
    BY Shares
  <2>2. Add(First(j) + 0, 1) = First(j) + 0 + 1
    BY ONLY <1>2, <2>1, 0 \in Nat, 1 \in Nat, AddWithin
  <2> QED BY <1>2, <1>3, <2>2
<1>5. c.read = <<>>
  BY DEF Reads
<1>6. d.state = "open" /\ d.rcv = rcv /\ d.read = <<>>
  BY <1>3, <1>5 DEF Opened, Clients
<1>7. Follows(d, j, f[j], Most(j, inc, n))
  <2>1. f[j] \in Nat /\ Most(j, inc, n) \in Nat
    BY MostRange DEF Ends
  <2> QED BY <1>2, <1>4, <1>6, <2>1 DEF Follows
<1> QED BY <1>6, <1>7 DEF Reads, InOrder

-----------------------------------------------------------------------------
(* What was traced stays traced when the server answers more, ends an        *)
(* incarnation with a FIN or begins another.                                 *)

Wider(e, m, e2, m2) == m <= m2 /\ (e2 = e \/ (e = Share /\ e2 = m))

LEMMA BelongsOn ==
  ASSUME NEW s \in ServerSegments, NEW j \in 0..(MaxIncarnations - 1),
         NEW e \in Nat, NEW m \in Nat, NEW e2 \in Nat, NEW m2 \in Nat, m + 2 < Share,
         Wider(e, m, e2, m2), Belongs(s, j, e, m)
  PROVE  Belongs(s, j, e2, m2)
<1>1. s.len \in Nat /\ s.from \in Nat /\ Share \in Nat /\ First(j) \in Nat
  BY Shares DEF ServerSegments
<1> QED BY <1>1 DEF Belongs, Wider

LEMMA FollowsOn ==
  ASSUME NEW c \in Clients, NEW j \in 0..(MaxIncarnations - 1),
         NEW e \in Nat, NEW m \in Nat, NEW e2 \in Nat, NEW m2 \in Nat, m + 2 < Share,
         Wider(e, m, e2, m2), Follows(c, j, e, m)
  PROVE  Follows(c, j, e2, m2)
<1>1. Share \in Nat /\ First(j) \in Nat /\ c.read \in Seq(Nat)
  BY Shares DEF Clients
<1>2. PICK l \in Nat : l = Len(c.read)
  BY <1>1, LenProperties
<1> QED BY <1>1, <1>2 DEF Follows, Wider

Grows(f, inc, n, f2, inc2, n2) ==
  /\ Segs(f, inc, n) \subseteq Segs(f2, inc2, n2)
  /\ \A c \in Clients : Reads(f, inc, n, c) => Reads(f2, inc2, n2, c)

LEMMA Widens ==
  ASSUME NEW f \in Ends, NEW inc \in 0..MaxIncarnations, NEW n \in Nat, n + 2 < Share,
         NEW f2 \in Ends, NEW inc2 \in inc..MaxIncarnations, NEW n2 \in Nat, n2 + 2 < Share,
         \A j \in 0..(inc - 1) : Wider(f[j], Most(j, inc, n), f2[j], Most(j, inc2, n2))
  PROVE  Grows(f, inc, n, f2, inc2, n2)
<1>0. inc2 \in 0..MaxIncarnations /\ 0..(inc - 1) \subseteq 0..(inc2 - 1)
  BY Shares
<1>1. ASSUME NEW j \in 0..(inc - 1)
      PROVE  /\ j \in 0..(MaxIncarnations - 1) /\ j \in 0..(inc2 - 1)
             /\ f[j] \in Nat /\ f2[j] \in Nat
             /\ Most(j, inc, n) \in Nat /\ Most(j, inc, n) + 2 < Share /\ Most(j, inc2, n2) \in Nat
  <2>1. j \in 0..(inc2 - 1)
    BY <1>0
  <2>2. j \in 0..(MaxIncarnations - 1) /\ j \in Nat /\ Most(j, inc, n) \in Nat /\ Most(j, inc, n) + 2 < Share
    BY MostRange
  <2>3. Most(j, inc2, n2) \in Nat
    BY <1>0, <2>1, MostRange
  <2> QED BY <2>1, <2>2, <2>3 DEF Ends
<1>2. ASSUME NEW s \in Segs(f, inc, n) PROVE s \in Segs(f2, inc2, n2)
  <2>1. PICK j \in 0..(inc - 1) : Belongs(s, j, f[j], Most(j, inc, n))
    BY DEF Segs
  <2>2. s \in ServerSegments
    BY DEF Segs
  <2>3. Belongs(s, j, f2[j], Most(j, inc2, n2))
    BY <1>1, <2>1, <2>2, BelongsOn
  <2> QED BY <1>1, <2>2, <2>3 DEF Segs
<1>3. ASSUME NEW c \in Clients, Reads(f, inc, n, c) PROVE Reads(f2, inc2, n2, c)
  <2>1. ASSUME NEW j \in 0..(inc - 1), Follows(c, j, f[j], Most(j, inc, n))
        PROVE  j \in 0..(inc2 - 1) /\ Follows(c, j, f2[j], Most(j, inc2, n2))
    BY <1>1, <2>1, FollowsOn
  <2> QED BY <1>3, <2>1 DEF Reads
<1> QED BY <1>2, <1>3 DEF Grows

\* Within an incarnation, which may answer more or send its FIN; and at the next one.
LEMMA GrowsOn ==
  ASSUME NEW f \in Ends, NEW inc \in 0..MaxIncarnations, NEW n \in Nat, n + 2 < Share,
         NEW n2 \in Nat, n <= n2, n2 + 2 < Share
  PROVE  Grows(f, inc, n, f, inc, n2)
<1>1. inc \in inc..MaxIncarnations
  BY Shares
<1>2. ASSUME NEW j \in 0..(inc - 1)
      PROVE  Wider(f[j], Most(j, inc, n), f[j], Most(j, inc, n2))
  BY Shares DEF Wider, Most
<1> QED BY <1>1, <1>2, Widens

Ended(f, inc, n, f2) == f2 = [f EXCEPT ![inc - 1] = n]

LEMMA GrowsEnd ==
  ASSUME NEW f \in Ends, NEW inc \in 0..MaxIncarnations, NEW n \in Nat, n + 2 < Share,
         inc > 0, f[inc - 1] = Share, NEW f2, Ended(f, inc, n, f2)
  PROVE  f2 \in Ends /\ f2[inc - 1] = n /\ Grows(f, inc, n, f2, inc, n)
<1>1. inc \in inc..MaxIncarnations /\ inc - 1 \in Nat
  BY Shares
<1>2. f2 \in Ends /\ f2[inc - 1] = n /\ \A j \in Nat : j # inc - 1 => f2[j] = f[j]
  BY <1>1 DEF Ends, Ended
<1>3. ASSUME NEW j \in 0..(inc - 1)
      PROVE  Wider(f[j], Most(j, inc, n), f2[j], Most(j, inc, n))
  <2>1. Most(j, inc, n) \in Nat /\ j \in Nat
    BY MostRange
  <2>2. CASE j = inc - 1
    BY <1>2, <2>1, <2>2 DEF Wider, Most
  <2>3. CASE j # inc - 1
    BY <1>2, <2>1, <2>3 DEF Wider
  <2> QED BY <2>2, <2>3
<1> QED BY <1>1, <1>2, <1>3, Widens

LEMMA GrowsNext ==
  ASSUME NEW f \in Ends, NEW inc \in 0..(MaxIncarnations - 1), NEW n \in Nat, n + 2 < Share,
         NEW f2, f2 = [f EXCEPT ![inc] = Share]
  PROVE  f2 \in Ends /\ f2[inc] = Share /\ Grows(f, inc, n, f2, inc + 1, 0)
<1>1. /\ inc + 1 \in inc..MaxIncarnations /\ inc \in Nat /\ inc \in 0..MaxIncarnations
      /\ Share \in Nat /\ 0 + 2 < Share
  BY Shares
<1>2. f2 \in Ends /\ f2[inc] = Share /\ \A j \in Nat : j # inc => f2[j] = f[j]
  BY <1>1 DEF Ends
<1>3. ASSUME NEW j \in 0..(inc - 1)
      PROVE  Wider(f[j], Most(j, inc, n), f2[j], Most(j, inc + 1, 0))
  <2>1. j \in Nat /\ j # inc /\ j # (inc + 1) - 1
    BY <1>1
  <2>2. f2[j] = f[j] /\ Most(j, inc + 1, 0) = Share - 3
    BY <1>2, <2>1 DEF Most
  <2>3. Most(j, inc, n) <= Share - 3
    BY <1>1 DEF Most
  <2> QED BY <2>2, <2>3 DEF Wider
<1> QED BY <1>1, <1>2, <1>3, Widens

-----------------------------------------------------------------------------
(* What tcp_in answers to a segment, state by state.                         *)

LEMMA SegmentShape ==
  ASSUME NEW seg \in ClientSegments
  PROVE  seg.len \in Nat /\ ("SYN" \in seg.flags \/ "FIN" \in seg.flags => seg.len = 0)
<1>1. seg \in Segments
  BY SegmentSays
<1>2. seg.len \in Nat
  BY <1>1 DEF Segments
<1>3. CASE \E y \in {0} \cup Cuts : seg = ClientSegment(y)
  <2>1. PICK y \in {0} \cup Cuts : seg = ClientSegment(y)
    BY <1>3
  <2>2. y \in 0..(Total + 1) /\ Total \in Nat
    BY CutsRange, StreamAssumption
  <2>3. CASE y \in 1..Total
    <3>1. y # 0 /\ y <= Total
      BY <2>2, <2>3
    <3>2. seg.flags = {"ACK"}
      BY ONLY <2>1, <3>1 DEF ClientSegment
    <3> QED BY <1>2, <3>2
  <2>4. CASE y \notin 1..Total
    BY <1>2, <2>1, <2>4 DEF ClientSegment
  <2> QED BY <2>3, <2>4
<1>4. CASE \E y \in {0} \cup Places : seg = BareAck(y) \/ seg = Abort(y)
  BY <1>2, <1>4 DEF BareAck, Abort
<1> QED BY <1>3, <1>4 DEF ClientSegments

LEMMA OutIn ==
  ASSUME NEW conn \in Conns, NEW flags \in SUBSET {"SYN", "ACK", "FIN"}, NEW len \in Nat,
         NEW from \in Nat, NEW y \in Places, conn.ack = At(y),
         NEW seg, seg = tcp_out(conn, flags, len, from),
         NEW f, NEW inc, NEW n, NEW j \in 0..(inc - 1), Belongs(seg, j, f[j], Most(j, inc, n))
  PROVE  seg \in Segs(f, inc, n)
<1>1. seg \in ServerSegments
  BY TcpOut
<1> QED BY <1>1 DEF Segs

\* tcp_send's bytes come behind those sent before.
AtEnd(conn, j, e, n) ==
  (conn.seq = First(j) + 1 + n /\ e = Share) \/ (conn.seq = First(j) + 2 + n /\ e = n)

LEMMA SentIn ==
  ASSUME NEW f \in Ends, NEW inc \in 0..MaxIncarnations, inc > 0, NEW n \in Nat, NEW len \in Nat,
         n + len + 2 < Share, NEW one \in Conns, NEW y \in Places, one.ack = At(y),
         AtEnd(one, inc - 1, f[inc - 1], n), NEW two, two = tcp_send(one, len)
  PROVE  Sent(one, len, n) \in Seq(Segs(f, inc, n + len)) /\ two.seq = one.seq + len
<1>0. PICK j \in 0..(MaxIncarnations - 1) : j = inc - 1 /\ j \in Nat /\ j \in 0..(inc - 1)
  BY Shares
<1>1. /\ First(j) \in Nat /\ Share \in Nat /\ f[j] \in Nat /\ AtEnd(one, j, f[j], n)
      /\ one.seq \in 0..(SeqMod - 1) /\ SeqMod \in Nat
  BY <1>0, Shares DEF Ends, Conns
<1>2. CASE len = 0
  BY <1>1, <1>2 DEF Sent, tcp_send
<1>3. CASE len # 0
  <2>1. PICK seg : seg = tcp_out(one, {"ACK"}, len, n)
    OBVIOUS
  <2>2. /\ seg.flags = {"ACK"} /\ seg.seq = one.seq /\ seg.len = len /\ seg.from = n
    BY <2>1 DEF tcp_out
  <2>3. PICK m \in Nat : m = Most(j, inc, n + len) /\ m = n + len
    BY <1>0 DEF Most
  <2>4. Belongs(seg, j, f[j], m)
    BY <1>1, <2>2, <2>3 DEF Belongs, AtEnd
  <2>5. seg \in Segs(f, inc, n + len)
    <3>1. {"ACK"} \in SUBSET {"SYN", "ACK", "FIN"} /\ Belongs(seg, j, f[j], Most(j, inc, n + len))
      BY <2>3, <2>4
    <3> QED BY <1>0, <2>1, <3>1, OutIn
  <2>6. Add(one.seq, len) = one.seq + len
    <3>1. PICK a \in Nat : one.seq = First(j) + a /\ a + len < Share
      <4>1. CASE one.seq = First(j) + 1 + n
        <5>1. 1 + n \in Nat /\ one.seq = First(j) + (1 + n) /\ (1 + n) + len < Share
          BY <1>1, <4>1
        <5> QED BY <5>1
      <4>2. CASE one.seq = First(j) + 2 + n
        <5>1. 2 + n \in Nat /\ one.seq = First(j) + (2 + n) /\ (2 + n) + len < Share
          BY <1>1, <4>2
        <5> QED BY <5>1
      <4> QED BY <1>1, <4>1, <4>2 DEF AtEnd
    <3>2. Add(First(j) + a, len) = First(j) + a + len
      BY ONLY <3>1, len \in Nat, a \in Nat, j \in 0..(MaxIncarnations - 1), AddWithin
    <3> QED BY <3>1, <3>2
  <2>7. two.seq = one.seq + len
    BY <1>3, <2>6 DEF tcp_send, Conns
  <2> QED BY <1>3, <2>1, <2>5, <2>7 DEF Sent
<1> QED BY <1>2, <1>3

\* What the answer to a segment leaves behind.
Answered(f2, inc2, n2, conn, three, out) ==
  /\ out \in Seq(Segs(f2, inc2, n2))
  /\ conn.state # "LAST_ACK" => Counted(f2, inc2, n2, three.conn)

LEMMA AnswerSyn ==
  ASSUME NEW f \in Ends, NEW inc \in 0..(MaxIncarnations - 1), NEW n \in Nat, n + 2 < Share,
         NEW conn \in Conns, conn.state = "LISTEN", NEW seg, NEW iss, iss = (inc * Share) % SeqMod,
         NEW one \in Conns, one = Advanced(conn, seg, iss), NEW y \in Places, one.ack = At(y),
         NEW three, three = Finished(one, ReplyFlags(conn, seg), 0)
  PROVE  \E f2 \in Ends : /\ Grows(f, inc, n, f2, inc + 1, 0)
                          /\ Answered(f2, inc + 1, 0, conn, three, <<>> \o three.out)
<1>1. PICK f2 \in Ends : f2[inc] = Share /\ Grows(f, inc, n, f2, inc + 1, 0)
  <2>1. PICK f2 : f2 = [f EXCEPT ![inc] = Share]
    OBVIOUS
  <2>2. f2 \in Ends /\ f2[inc] = Share /\ Grows(f, inc, n, f2, inc + 1, 0)
    BY ONLY <2>1, f \in Ends, inc \in 0..(MaxIncarnations - 1), n \in Nat, n + 2 < Share, GrowsNext
  <2> QED BY <2>2
<1>2. /\ inc \in Nat /\ First(inc) \in 0..(SeqMod - 1) /\ First(inc) \in Nat /\ Share \in Nat
      /\ SeqMod \in Nat \ {0} /\ inc + 1 > 0 /\ (inc + 1) - 1 = inc /\ inc \in 0..((inc + 1) - 1)
  <2>1. First(inc) \in Nat /\ First(inc) + Share <= SeqMod /\ Share > 2
    BY Shares
  <2> QED BY <2>1, Shares
<1>3. iss = First(inc)
  <2>1. iss = First(inc) % SeqMod
    BY DEF First
  <2>2. PICK t \in 0..(SeqMod - 1) : t = First(inc)
    BY <1>2
  <2>3. t % SeqMod = t
    BY ONLY <1>2, t \in 0..(SeqMod - 1)
  <2> QED BY <2>1, <2>2, <2>3
<1>4. one.seq = First(inc) /\ one.state = "SYN_RECEIVED"
  BY ONLY <1>3, conn \in Conns, conn.state = "LISTEN", one = Advanced(conn, seg, iss)
     DEF Advanced, Conns
<1>5. ReplyFlags(conn, seg) = {"SYN", "ACK"}
  BY ONLY conn.state = "LISTEN" DEF ReplyFlags
<1>6. /\ three.conn = [one EXCEPT !.seq = Add(one.seq, bytes_in_flight(0, {"SYN", "ACK"}))]
      /\ three.out = <<tcp_out(one, {"SYN", "ACK"}, 0, 0)>>
  <2>1. {"SYN", "ACK"} # {} /\ {"SYN", "ACK"} # {"ACK"}
    OBVIOUS
  <2>2. three = [conn |-> [one EXCEPT !.seq = Add(@, bytes_in_flight(0, {"SYN", "ACK"}))],
                 out |-> <<tcp_out(one, {"SYN", "ACK"}, 0, 0)>>]
    BY <1>5, <2>1 DEF Finished
  <2> QED BY <2>2
<1>7. three.conn.seq = First(inc) + 1 /\ three.conn.state = "SYN_RECEIVED"
  <2>1. bytes_in_flight(0, {"SYN", "ACK"}) = 1
    BY Flight
  <2>2. Add(First(inc) + 0, 1) = First(inc) + 0 + 1
    <3>1. 0 + 1 < Share
      BY <1>2
    <3> QED BY ONLY <3>1, 0 \in Nat, 1 \in Nat, inc \in 0..(MaxIncarnations - 1), AddWithin
  <2>3. Add(one.seq, 1) = First(inc) + 1
    BY <1>2, <1>4, <2>2
  <2> QED BY <1>4, <1>6, <2>1, <2>3 DEF Conns
<1>8. PICK s : s = tcp_out(one, {"SYN", "ACK"}, 0, 0)
  OBVIOUS
<1>9. s \in Segs(f2, inc + 1, 0)
  <2>1. s.flags = {"SYN", "ACK"} /\ s.seq = First(inc) /\ s.len = 0
    BY <1>4, <1>8 DEF tcp_out
  <2>2. Belongs(s, inc, f2[inc], Most(inc, inc + 1, 0))
    BY <2>1 DEF Belongs
  <2>3. {"SYN", "ACK"} \in SUBSET {"SYN", "ACK", "FIN"} /\ 0 \in Nat
    OBVIOUS
  <2> QED BY <1>2, <1>8, <2>2, <2>3, OutIn
<1>10. <<>> \o three.out \in Seq(Segs(f2, inc + 1, 0))
  <2>1. three.out = <<s>> /\ <<>> \o <<s>> = <<s>>
    BY <1>6, <1>8
  <2>2. PICK S : S = Segs(f2, inc + 1, 0)
    OBVIOUS
  <2>3. <<s>> \in Seq(S)
    BY <1>9, <2>2
  <2> QED BY <2>1, <2>2, <2>3
<1>11. Counted(f2, inc + 1, 0, three.conn)
  BY <1>1, <1>2, <1>7 DEF Counted, Numbered
<1> QED BY <1>1, <1>10, <1>11 DEF Answered

\* A bare ACK takes no number and belongs to every incarnation.
LEMMA AckIn ==
  ASSUME NEW conn \in Conns, NEW y \in Places, conn.ack = At(y), NEW from \in Nat,
         NEW f, NEW inc \in Nat \ {0}, NEW n, NEW s, s = tcp_out(conn, {"ACK"}, 0, from)
  PROVE  s \in Segs(f, inc, n)
<1>1. s.flags = {"ACK"} /\ s.len = 0
  BY DEF tcp_out
<1>2. 0 \in 0..(inc - 1) /\ Belongs(s, 0, f[0], Most(0, inc, n))
  BY <1>1 DEF Belongs
<1>3. {"ACK"} \in SUBSET {"SYN", "ACK", "FIN"} /\ 0 \in Nat
  OBVIOUS
<1> QED BY <1>2, <1>3, OutIn

Bare(flags) == flags \in {{}, {"ACK"}}

\* What the end of tcp_in makes of a connection that has acknowledged place y.
AckOnly(two, y, flags, n, three) ==
  /\ two \in Conns /\ y \in Places /\ two.ack = At(y)
  /\ Bare(flags) /\ n \in Nat /\ three = Finished(two, flags, n)

LEMMA AckOut ==
  ASSUME NEW two, NEW y, NEW flags, NEW n, NEW three, AckOnly(two, y, flags, n, three),
         NEW f, NEW inc \in Nat \ {0}
  PROVE  /\ three.out \in Seq(Segs(f, inc, n))
         /\ three.conn.seq = two.seq /\ three.conn.state = two.state
<1>0. /\ two \in Conns /\ y \in Places /\ two.ack = At(y)
      /\ Bare(flags) /\ n \in Nat /\ three = Finished(two, flags, n)
  BY DEF AckOnly
<1>1. PICK S, s : S = Segs(f, inc, n) /\ s = tcp_out(two, {"ACK"}, 0, n)
  OBVIOUS
<1>2. s \in S
  BY <1>0, <1>1, AckIn
<1>3. <<s>> \in Seq(S) /\ <<>> \in Seq(S)
  BY <1>2
<1>4. CASE flags = {}
  <2>1. three = [conn |-> two, out |-> <<>>]
    BY <1>0, <1>4 DEF Finished
  <2> QED BY <1>1, <1>3, <2>1
<1>5. CASE flags = {"ACK"} /\ two.not_send_empty_ack
  <2>1. PICK c : c = [two EXCEPT !.not_send_empty_ack = FALSE]
    OBVIOUS
  <2>2. three = [conn |-> c, out |-> <<>>]
    BY <1>0, <1>5, <2>1 DEF Finished
  <2>3. c.seq = two.seq /\ c.state = two.state
    BY ONLY <1>0, <2>1 DEF Conns
  <2> QED BY <1>1, <1>3, <2>2, <2>3
<1>6. CASE flags = {"ACK"} /\ ~ two.not_send_empty_ack
  <2>1. PICK c : c = [two EXCEPT !.seq = Add(@, bytes_in_flight(0, {"ACK"}))]
    OBVIOUS
  <2>2. three = [conn |-> c, out |-> <<s>>]
    BY <1>0, <1>1, <1>6, <2>1 DEF Finished
  <2>3. c.seq = two.seq /\ c.state = two.state
    <3>1. bytes_in_flight(0, {"ACK"}) = 0
      BY Flight
    <3>2. two.seq \in 0..(SeqMod - 1) /\ SeqMod \in Nat \ {0}
      BY <1>0, Shares DEF Conns
    <3>3. two.seq % SeqMod = two.seq /\ two.seq + 0 = two.seq
      BY <3>2
    <3>4. Add(two.seq, 0) = two.seq
      BY ONLY <3>3 DEF Add
    <3> QED BY ONLY <1>0, <2>1, <3>1, <3>4 DEF Conns
  <2> QED BY <1>1, <1>3, <2>2, <2>3
<1> QED BY <1>0, <1>4, <1>5, <1>6 DEF Bare

\* The handshake's last ACK and data: the application's bytes and at most a bare ACK.
LEMMA AnswerData ==
  ASSUME NEW f \in Ends, NEW inc \in 0..MaxIncarnations, inc > 0, NEW n \in Nat, NEW len \in Nat,
         n + len + 2 < Share, NEW conn \in Conns, NEW seg, NEW iss,
         \/ conn.state = "SYN_RECEIVED"
         \/ conn.state = "ESTABLISHED" /\ "FIN" \notin seg.flags,
         Numbered(conn, inc - 1, f[inc - 1], n),
         NEW one \in Conns, one = Advanced(conn, seg, iss), NEW y \in Places, one.ack = At(y),
         NEW two \in Conns, two = tcp_send(one, len), two.state = one.state, two.ack = one.ack,
         NEW three, three = Finished(two, ReplyFlags(conn, seg), n + len)
  PROVE  /\ Grows(f, inc, n, f, inc, n + len)
         /\ Answered(f, inc, n + len, conn, three, Sent(one, len, n) \o three.out)
<1>1. n + 2 < Share /\ n <= n + len /\ n + len \in Nat
  BY Shares
<1>2. Grows(f, inc, n, f, inc, n + len)
  BY <1>1, GrowsOn
<1>3. conn.seq = First(inc - 1) + 1 + n /\ f[inc - 1] = Share
  BY DEF Numbered
<1>4. one.seq = conn.seq /\ one.state = "ESTABLISHED"
  <2>1. CASE conn.state = "SYN_RECEIVED"
    BY ONLY <2>1, conn \in Conns, one = Advanced(conn, seg, iss) DEF Advanced, Conns
  <2>2. CASE conn.state = "ESTABLISHED" /\ "FIN" \notin seg.flags
    BY ONLY <2>2, conn \in Conns, one = Advanced(conn, seg, iss) DEF Advanced, Conns
  <2> QED BY <2>1, <2>2
<1>5. ReplyFlags(conn, seg) \in {{}, {"ACK"}}
  <2>1. CASE conn.state = "SYN_RECEIVED"
    BY ONLY <2>1 DEF ReplyFlags
  <2>2. CASE conn.state = "ESTABLISHED" /\ "FIN" \notin seg.flags
    BY ONLY <2>2 DEF ReplyFlags
  <2> QED BY <2>1, <2>2
<1>6. AtEnd(one, inc - 1, f[inc - 1], n)
  BY <1>3, <1>4 DEF AtEnd
<1>7. Sent(one, len, n) \in Seq(Segs(f, inc, n + len)) /\ two.seq = one.seq + len
  BY ONLY <1>6, f \in Ends, inc \in 0..MaxIncarnations, inc > 0, n \in Nat, len \in Nat,
          n + len + 2 < Share, one \in Conns, y \in Places, one.ack = At(y),
          two = tcp_send(one, len), SentIn
<1>8. /\ three.out \in Seq(Segs(f, inc, n + len))
      /\ three.conn.seq = two.seq /\ three.conn.state = two.state
  <2>1. two.ack = At(y) /\ inc \in Nat \ {0}
    BY Shares
  <2>b. inc \in Nat \ {0}
    BY <2>1
  <2>2. PICK flags : flags = ReplyFlags(conn, seg) /\ Bare(flags)
    BY <1>5 DEF Bare
  <2>3. PICK w \in Nat : w = n + len
    BY <1>1
  <2>4. AckOnly(two, y, flags, w, three)
    BY <2>1, <2>2, <2>3 DEF AckOnly
  <2>5. /\ three.out \in Seq(Segs(f, inc, w))
        /\ three.conn.seq = two.seq /\ three.conn.state = two.state
    BY ONLY <2>b, <2>4, AckOut
  <2> QED BY <2>3, <2>5
<1>9. Sent(one, len, n) \o three.out \in Seq(Segs(f, inc, n + len))
  BY <1>7, <1>8, ConcatProperties
<1>10. three.conn.seq = First(inc - 1) + 1 + (n + len)
  <2>1. inc - 1 \in 0..(MaxIncarnations - 1)
    BY Shares
  <2>2. First(inc - 1) \in Nat
    BY <2>1, Shares
  <2> QED BY ONLY <1>3, <1>4, <1>7, <1>8, <2>2, n \in Nat, len \in Nat
<1>11. Counted(f, inc, n + len, three.conn)
  BY <1>3, <1>4, <1>8, <1>10 DEF Counted, Numbered
<1> QED BY <1>2, <1>9, <1>11 DEF Answered

\* A FIN is answered with a FIN: the incarnation ends with what it has answered.
LEMMA AnswerFin ==
  ASSUME NEW f \in Ends, NEW inc \in 0..MaxIncarnations, inc > 0, NEW n \in Nat,
         n + 2 < Share, NEW conn \in Conns, NEW seg, NEW iss,
         conn.state = "ESTABLISHED", "FIN" \in seg.flags,
         Numbered(conn, inc - 1, f[inc - 1], n),
         NEW one \in Conns, one = Advanced(conn, seg, iss), NEW y \in Places, one.ack = At(y),
         NEW three, three = Finished(one, ReplyFlags(conn, seg), n)
  PROVE  \E f2 \in Ends : /\ Grows(f, inc, n, f2, inc, n)
                          /\ Answered(f2, inc, n, conn, three, <<>> \o three.out)
<1>0. PICK j \in 0..(MaxIncarnations - 1) : j = inc - 1 /\ j \in Nat /\ j \in 0..(inc - 1)
  BY Shares
<1>1. conn.seq = First(j) + 1 + n /\ f[j] = Share
  BY <1>0 DEF Numbered
<1>2. PICK f2 \in Ends : f2[j] = n /\ Grows(f, inc, n, f2, inc, n)
  <2>1. PICK f2 : Ended(f, inc, n, f2)
    BY DEF Ended
  <2>2. f[inc - 1] = Share
    BY <1>0, <1>1
  <2>3. f2 \in Ends /\ f2[inc - 1] = n /\ Grows(f, inc, n, f2, inc, n)
    BY ONLY <2>1, <2>2, f \in Ends, inc \in 0..MaxIncarnations, inc > 0, n \in Nat,
            n + 2 < Share, GrowsEnd
  <2> QED BY <1>0, <2>3
<1>3. one.seq = conn.seq /\ one.state = "LAST_ACK"
  BY ONLY conn.state = "ESTABLISHED", "FIN" \in seg.flags, conn \in Conns,
          one = Advanced(conn, seg, iss) DEF Advanced, Conns
<1>4. ReplyFlags(conn, seg) = {"ACK", "FIN"}
  BY ONLY conn.state = "ESTABLISHED", "FIN" \in seg.flags DEF ReplyFlags
<1>5. PICK s, S : s = tcp_out(one, {"ACK", "FIN"}, 0, n) /\ S = Segs(f2, inc, n)
  OBVIOUS
<1>6. /\ three.conn = [one EXCEPT !.seq = Add(one.seq, bytes_in_flight(0, {"ACK", "FIN"}))]
      /\ three.out = <<s>>
  <2>1. {"ACK", "FIN"} # {} /\ {"ACK", "FIN"} # {"ACK"}
    OBVIOUS
  <2>2. three = [conn |-> [one EXCEPT !.seq = Add(@, bytes_in_flight(0, {"ACK", "FIN"}))],
                 out |-> <<tcp_out(one, {"ACK", "FIN"}, 0, n)>>]
    BY <1>4, <2>1 DEF Finished
  <2> QED BY <1>5, <2>2
<1>7. three.conn.seq = First(j) + 2 + n /\ three.conn.state = "LAST_ACK"
  <2>0. First(j) \in Nat /\ Share \in Nat
    BY Shares
  <2>1. bytes_in_flight(0, {"ACK", "FIN"}) = 1
    BY Flight
  <2>2. Add(First(j) + (1 + n), 1) = First(j) + (1 + n) + 1
    <3>1. 1 + n \in Nat /\ (1 + n) + 1 < Share
      BY <2>0
    <3> QED BY ONLY <3>1, 1 \in Nat, j \in 0..(MaxIncarnations - 1), AddWithin
  <2>3. one.seq = First(j) + (1 + n)
    BY ONLY <1>1, <1>3, <2>0, n \in Nat
  <2>4. Add(one.seq, 1) = First(j) + 2 + n
    BY ONLY <2>0, <2>2, <2>3, n \in Nat
  <2> QED BY <1>3, <1>6, <2>1, <2>4 DEF Conns
<1>8. s \in S
  <2>1. s.flags = {"ACK", "FIN"} /\ s.seq = First(j) + 1 + n /\ s.len = 0
    BY <1>1, <1>3, <1>5 DEF tcp_out
  <2>2. Belongs(s, j, f2[j], Most(j, inc, n))
    BY <1>0, <1>2, <2>1 DEF Belongs, Most
  <2>3. {"ACK", "FIN"} \in SUBSET {"SYN", "ACK", "FIN"} /\ 0 \in Nat
    OBVIOUS
  <2> QED BY <1>0, <1>5, <2>2, <2>3, OutIn
<1>9. <<>> \o three.out \in Seq(S)
  <2>1. <<>> \o <<s>> = <<s>> /\ <<s>> \in Seq(S)
    BY <1>8
  <2> QED BY <1>6, <2>1
<1>10. Counted(f2, inc, n, three.conn)
  BY <1>0, <1>2, <1>7 DEF Counted, Numbered
<1> QED BY <1>2, <1>5, <1>9, <1>10 DEF Answered

\* A connection that waits for the last ACK may still send the application's bytes.
LEMMA AnswerLast ==
  ASSUME NEW f \in Ends, NEW inc \in 0..MaxIncarnations, inc > 0, NEW n \in Nat, NEW len \in Nat,
         n + len + 2 < Share, NEW conn \in Conns, conn.state = "LAST_ACK", NEW seg, NEW iss,
         Numbered(conn, inc - 1, f[inc - 1], n),
         NEW one \in Conns, one = Advanced(conn, seg, iss), NEW y \in Places, one.ack = At(y),
         NEW two \in Conns, two = tcp_send(one, len),
         NEW three, three = Finished(two, ReplyFlags(conn, seg), n + len)
  PROVE  /\ Grows(f, inc, n, f, inc, n + len)
         /\ Answered(f, inc, n + len, conn, three, Sent(one, len, n) \o three.out)
<1>1. n + 2 < Share /\ n <= n + len /\ n + len \in Nat
  BY Shares
<1>2. Grows(f, inc, n, f, inc, n + len)
  BY <1>1, GrowsOn
<1>3. one = conn
  BY ONLY conn.state = "LAST_ACK", one = Advanced(conn, seg, iss) DEF Advanced
<1>4. AtEnd(one, inc - 1, f[inc - 1], n)
  BY <1>3 DEF AtEnd, Numbered
<1>5. Sent(one, len, n) \in Seq(Segs(f, inc, n + len))
  BY <1>4, SentIn
<1>6. three.out = <<>>
  <2>1. ReplyFlags(conn, seg) = {}
    BY ONLY conn.state = "LAST_ACK" DEF ReplyFlags
  <2> QED BY <2>1 DEF Finished
<1>7. Sent(one, len, n) \o three.out \in Seq(Segs(f, inc, n + len))
  <2>1. <<>> \in Seq(Segs(f, inc, n + len))
    OBVIOUS
  <2> QED BY <1>5, <1>6, <2>1, ConcatProperties
<1> QED BY <1>2, <1>7 DEF Answered

-----------------------------------------------------------------------------
(* The steps *)

Same(q) ==
  /\ incarnations'[q] = incarnations[q] /\ said'[q] = said[q]
  /\ client'[q] = client[q] /\ toClient'[q] = toClient[q]
  /\ MapHas(tcp_conn_table', q, Time) =>
       /\ MapHas(tcp_conn_table, q, Time)
       /\ SlotOf(tcp_conn_table', q, Time).val = SlotOf(tcp_conn_table, q, Time).val

LEMMA SameTraced ==
  ASSUME NEW q, NEW f, Traced(q, f), Same(q)
  PROVE  Traced(q, f)'
BY DEF Traced, Same

LEMMA OneStep ==
  ASSUME AnswersTraced, NEW k \in Keys, \A q \in Keys : q # k => Same(q),
         \E f \in Ends : Traced(k, f)'
  PROVE  AnswersTraced'
<1>1. ASSUME NEW q \in Keys PROVE \E f \in Ends : Traced(q, f)'
  <2>1. CASE q = k
    BY <2>1
  <2>2. CASE q # k
    <3>1. PICK f \in Ends : Traced(q, f)
      BY DEF AnswersTraced
    <3> QED BY <2>2, <3>1, SameTraced
  <2> QED BY <2>1, <2>2
<1> QED BY <1>1 DEF AnswersTraced

\* A client and the line to it change, the server does not.
LEMMA ClientMoves ==
  ASSUME Inv, AnswersTraced, NEW k \in Keys, UNCHANGED server, NEW c, NEW b,
         client' = [client EXCEPT ![k] = c], toClient' = [toClient EXCEPT ![k] = b],
         \A f \in Ends : Traced(k, f) => /\ b \in Seq(Segs(f, incarnations[k], said[k]))
                                         /\ Reads(f, incarnations[k], said[k], c)
  PROVE  AnswersTraced'
<1>1. tcp_conn_table' = tcp_conn_table /\ incarnations' = incarnations /\ said' = said
  BY DEF server
<1>2. client \in [Keys -> Clients] /\ toClient \in [Keys -> Seq(ServerSegments)]
  BY DEF Inv
<1>3. \A q \in Keys : q # k => Same(q)
  BY <1>1, <1>2 DEF Same
<1>4. PICK f \in Ends : Traced(k, f)
  BY DEF AnswersTraced
<1>5. client'[k] = c /\ toClient'[k] = b
  BY <1>2
<1>6. Traced(k, f)'
  BY <1>1, <1>4, <1>5 DEF Traced
<1> QED BY <1>3, <1>6, OneStep

\* The server changes, but for nobody.
LEMMA AllSame ==
  ASSUME AnswersTraced, \A q \in Keys : Same(q)
  PROVE  AnswersTraced'
<1>1. ASSUME NEW q \in Keys PROVE \E f \in Ends : Traced(q, f)'
  BY SameTraced DEF AnswersTraced
<1> QED BY <1>1 DEF AnswersTraced

LEMMA SendsTraces ==
  ASSUME Inv, AnswersTraced, NEW k \in Keys, ClientSends(k)
  PROVE  AnswersTraced'
<1>1. PICK c, b, x : /\ c = [client[k] EXCEPT !.snd = x,
                             !.state = IF client[k].state = "closed" THEN "syn_sent" ELSE client[k].state]
                     /\ x = After(client[k].snd) /\ b = toClient[k]
  OBVIOUS
<1>2. client[k] \in Clients /\ client \in [Keys -> Clients] /\ toClient \in [Keys -> Seq(ServerSegments)]
  BY DEF Inv
<1>3. /\ UNCHANGED server /\ toClient' = [toClient EXCEPT ![k] = b]
      /\ client[k].state \in {"closed", "open"}
  BY <1>1, <1>2 DEF ClientSends, Established
<1>4. client' = [client EXCEPT ![k] = c]
  BY <1>1, <1>2 DEF ClientSends, Clients
<1>5. /\ c.read = client[k].read /\ c.rcv = client[k].rcv
      /\ c.state = IF client[k].state = "closed" THEN "syn_sent" ELSE client[k].state
  BY ONLY <1>1, <1>2 DEF Clients
<1>6. ASSUME NEW f \in Ends, Traced(k, f)
      PROVE  /\ b \in Seq(Segs(f, incarnations[k], said[k]))
             /\ Reads(f, incarnations[k], said[k], c)
  BY <1>1, <1>3, <1>5, <1>6 DEF Traced, Reads, Follows
<1> QED BY <1>3, <1>4, <1>6, ClientMoves

LEMMA AbortsTraces ==
  ASSUME Inv, AnswersTraced, NEW k \in Keys, ClientAborts(k)
  PROVE  AnswersTraced'
<1>1. PICK c, b : c = [client[k] EXCEPT !.state = "aborted"] /\ b = toClient[k]
  OBVIOUS
<1>2. client[k] \in Clients /\ client \in [Keys -> Clients] /\ toClient \in [Keys -> Seq(ServerSegments)]
  BY DEF Inv
<1>3. /\ UNCHANGED server /\ toClient' = [toClient EXCEPT ![k] = b]
      /\ client' = [client EXCEPT ![k] = c]
  BY <1>1, <1>2 DEF ClientAborts
<1>4. c.read = client[k].read /\ c.state = "aborted"
  BY ONLY <1>1, <1>2 DEF Clients
<1>5. ASSUME NEW f \in Ends, Traced(k, f)
      PROVE  /\ b \in Seq(Segs(f, incarnations[k], said[k]))
             /\ Reads(f, incarnations[k], said[k], c)
  BY <1>1, <1>4, <1>5 DEF Traced, Reads
<1> QED BY <1>3, <1>5, ClientMoves

\* Losing something, or resending to the server, leaves a part of the line.
LEMMA LineTraces ==
  ASSUME Inv, AnswersTraced, NEW k \in Keys, UNCHANGED server, client' = client,
         \/ toClient' = toClient
         \/ \E i \in 1..Len(toClient[k]) : toClient' = [toClient EXCEPT ![k] = WithoutAt(@, i)]
  PROVE  AnswersTraced'
<1>1. client \in [Keys -> Clients] /\ toClient \in [Keys -> Seq(ServerSegments)]
  BY DEF Inv
<1>2. CASE toClient' = toClient
  <2>1. \A q \in Keys : Same(q)
    BY <1>2 DEF Same, server
  <2> QED BY <2>1, AllSame
<1>3. CASE \E i \in 1..Len(toClient[k]) : toClient' = [toClient EXCEPT ![k] = WithoutAt(@, i)]
  <2>1. PICK i \in 1..Len(toClient[k]) : toClient' = [toClient EXCEPT ![k] = WithoutAt(@, i)]
    BY <1>3
  <2>2. PICK b, c : b = WithoutAt(toClient[k], i) /\ c = client[k]
    OBVIOUS
  <2>3. toClient' = [toClient EXCEPT ![k] = b] /\ client' = [client EXCEPT ![k] = c]
    BY <1>1, <2>1, <2>2
  <2>4. ASSUME NEW f \in Ends, Traced(k, f)
        PROVE  /\ b \in Seq(Segs(f, incarnations[k], said[k]))
               /\ Reads(f, incarnations[k], said[k], c)
    BY <2>2, <2>4, Shorter DEF Traced
  <2> QED BY <2>3, <2>4, ClientMoves
<1> QED BY <1>2, <1>3

LEMMA ToClientTraces ==
  ASSUME Inv, InShare, AnswersTraced, NEW k \in Keys, NEW i \in Nat \ {0}, NEW again \in BOOLEAN,
         ToClient(k, i, again)
  PROVE  AnswersTraced'
<1>1. PICK seg, b, c : /\ seg = toClient[k][i] /\ c = client[k]
                       /\ b = IF again THEN toClient[k] ELSE WithoutAt(toClient[k], i)
  OBVIOUS
<1>2. /\ i <= Len(toClient[k]) /\ ClientReceives(k, seg)
      /\ toClient' = IF again THEN toClient ELSE [toClient EXCEPT ![k] = WithoutAt(@, i)]
  BY <1>1 DEF ToClient
<1>3. /\ toClient[k] \in Seq(ServerSegments) /\ c \in Clients
      /\ client \in [Keys -> Clients] /\ toClient \in [Keys -> Seq(ServerSegments)]
      /\ said[k] \in Nat /\ said[k] + 2 < Share
  BY <1>1 DEF Inv, ServerTyped, InShare
<1>4. i \in 1..Len(toClient[k])
  BY <1>2, <1>3
<1>5. UNCHANGED server /\ toClient' = [toClient EXCEPT ![k] = b]
  BY <1>1, <1>2, <1>3 DEF ClientReceives
<1>6. \/ client' = client
      \/ c.state = "syn_sent" /\ "SYN" \in seg.flags /\ client' = [client EXCEPT ![k] = Opened(c, seg)]
      \/ c.state \in {"open", "done"} /\ client' = [client EXCEPT ![k] = Heeded(c, seg)]
  <2>1. CASE "UNREACH" \in seg.flags
    BY <1>2, <2>1 DEF ClientReceives
  <2>2. CASE "UNREACH" \notin seg.flags
    BY <1>1, <1>2, <2>2 DEF ClientReceives
  <2> QED BY <2>1, <2>2
<1>7. PICK d : /\ client' = [client EXCEPT ![k] = d]
               /\ \/ d = c
                  \/ c.state = "syn_sent" /\ "SYN" \in seg.flags /\ d = Opened(c, seg)
                  \/ c.state \in {"open", "done"} /\ d = Heeded(c, seg)
  <2>1. client' = client => client' = [client EXCEPT ![k] = c]
    BY <1>1, <1>3
  <2> QED BY <1>6, <2>1
<1>8. ASSUME NEW f \in Ends, Traced(k, f)
      PROVE  /\ b \in Seq(Segs(f, incarnations[k], said[k]))
             /\ Reads(f, incarnations[k], said[k], d)
  <2>1. PICK inc, n, S : inc = incarnations[k] /\ n = said[k] /\ S = Segs(f, inc, n)
    OBVIOUS
  <2>2. /\ inc \in 0..MaxIncarnations /\ n \in Nat /\ n + 2 < Share
        /\ toClient[k] \in Seq(S) /\ Reads(f, inc, n, c)
    BY <1>1, <1>3, <1>8, <2>1 DEF Traced
  <2>3. seg \in S
    BY <1>1, <1>4, <2>2
  <2>4. b \in Seq(S)
    BY <1>1, <1>4, <2>2, Shorter
  <2>5. CASE d = c
    BY <2>1, <2>2, <2>4, <2>5
  <2>6. CASE c.state = "syn_sent" /\ "SYN" \in seg.flags /\ d = Opened(c, seg)
    <3>1. Reads(f, inc, n, d)
      BY <1>3, <2>1, <2>2, <2>3, <2>6, OpenTraces
    <3> QED BY <2>1, <2>4, <3>1
  <2>7. CASE c.state \in {"open", "done"} /\ d = Heeded(c, seg)
    <3>1. Reads(f, inc, n, d)
      BY <1>3, <2>1, <2>2, <2>3, <2>7, HeedTraces
    <3> QED BY <2>1, <2>4, <3>1
  <2> QED BY <1>7, <2>5, <2>6, <2>7
<1> QED BY <1>5, <1>7, <1>8, ClientMoves

\* A closed port takes its connections along.
LEMMA ClosingTraces ==
  ASSUME Inv, AnswersTraced, Closing
  PROVE  AnswersTraced'
<1>1. PICK port \in Closable \cap tcp_handler_table : tcp_close(port)
  BY DEF Closing
<1>2. /\ tcp_conn_table' = MapSweep(tcp_conn_table, Hosts \X {port}, Time)
      /\ incarnations' = incarnations /\ said' = said
      /\ toClient' = toClient /\ client' = client
  BY <1>1 DEF tcp_close
<1>3. MapInv(tcp_conn_table, Keys, Conns, Time) /\ Time \in Nat \ {0}
  BY DEF Inv, ServerTyped, Time
<1>4. PICK S, w : S = Hosts \X {port} /\ w = tcp_conn_table'
  OBVIOUS
<1>5. AfterSweep(tcp_conn_table, S, Time, w)
  BY <1>2, <1>4 DEF AfterSweep
<1>6. /\ \A k \in Keys \cap S : ~ MapHas(w, k, Time)
      /\ Others(Keys, S, tcp_conn_table, w, Time)
  BY ONLY <1>3, <1>5, MapSweepEffect
<1>7. \A q \in Keys : MapHas(w, q, Time) =>
        MapHas(tcp_conn_table, q, Time) /\ SlotOf(w, q, Time) = SlotOf(tcp_conn_table, q, Time)
  BY <1>6 DEF Others, SameFor, SlotOf
<1>8. \A q \in Keys : Same(q)
  BY ONLY <1>2, <1>4, <1>7 DEF Same
<1> QED BY <1>8, AllSame

\* tcp_get_connection adds at most an unaccepted connection.
Held(t, q) ==
  MapHas(t, q, Time) => /\ MapHas(tcp_conn_table, q, Time)
                        /\ SlotOf(t, q, Time).val = SlotOf(tcp_conn_table, q, Time).val

LEMMA GetTraces ==
  ASSUME ServerTyped, NEW k \in Keys, NEW t, t = tcp_get_connection(k)
  PROVE  /\ \A q \in Keys : q # k => Held(t, q)
         /\ Held(t, k) \/ (MapHas(t, k, Time) => SlotOf(t, k, Time).val.state = "LISTEN")
<1>0. Time \in Nat \ {0} /\ MapInv(tcp_conn_table, Keys, Conns, Time) /\ Fresh \in Conns
  BY FreshConn DEF ServerTyped, FreshOK, Time
<1>1. CASE MapHas(tcp_conn_table, k, Time)
  <2>1. t = tcp_conn_table
    BY <1>1 DEF tcp_get_connection
  <2> QED BY <2>1 DEF Held
<1>2. CASE ~ MapHas(tcp_conn_table, k, Time)
  <2>1. AfterSet(tcp_conn_table, k, Fresh, Time, t)
    BY <1>2 DEF tcp_get_connection, AfterSet
  <2>2. Others(Keys, {k}, tcp_conn_table, t, Time)
    BY ONLY <1>0, <2>1, k \in Keys, MapSetEffect
  <2>3. MapHas(t, k, Time) => SlotOf(t, k, Time) = Entry(k, Fresh, Time)
    <3> HAVE MapHas(t, k, Time)
    <3> QED BY ONLY <1>0, <2>1, k \in Keys, MapHas(t, k, Time), SetShows
  <2>4. MapHas(t, k, Time) => SlotOf(t, k, Time).val.state = "LISTEN"
    BY <2>3 DEF Entry, Fresh
  <2>5. \A q \in Keys : q # k => Held(t, q)
    BY <2>2 DEF Others, SameFor, SlotOf, Held
  <2> QED BY <2>4, <2>5
<1> QED BY <1>1, <1>2

\* Every answer, whatever the state.
Reply(conn, seg, inc, n, len, before, inc2, n2, one, two, three) ==
  /\ before = IF Accepts(conn) THEN 0 ELSE n
  /\ inc2 = IF Accepts(conn) THEN inc + 1 ELSE inc
  /\ n2 = before + len
  /\ \E iss : iss = (inc * Share) % SeqMod /\ one = Advanced(conn, seg, iss)
  /\ two = tcp_send(one, len) /\ two.state = one.state /\ two.ack = one.ack
  /\ three = Finished(two, ReplyFlags(conn, seg), n2)
Speaks(conn, seg, inc, len) ==
  /\ ~ Ignored(conn, seg)
  /\ Accepts(conn) => inc < MaxIncarnations
  /\ seg.len = 0 => len = 0

LEMMA Answering ==
  ASSUME NEW f \in Ends, NEW inc \in 0..MaxIncarnations, NEW n \in Nat, n + 2 < Share,
         NEW conn \in Conns, Counted(f, inc, n, conn), NEW seg \in ClientSegments,
         NEW len \in Nat, Speaks(conn, seg, inc, len),
         NEW before, NEW inc2, NEW n2 \in Nat, n2 + 2 < Share,
         NEW one \in Conns, NEW y \in Places, one.ack = At(y), NEW two \in Conns, NEW three,
         Reply(conn, seg, inc, n, len, before, inc2, n2, one, two, three)
  PROVE  \E f2 \in Ends : /\ Grows(f, inc, n, f2, inc2, n2)
                          /\ Answered(f2, inc2, n2, conn, three, Sent(one, len, before) \o three.out)
<1>1. seg.len \in Nat /\ ("SYN" \in seg.flags \/ "FIN" \in seg.flags => seg.len = 0)
  BY SegmentShape
<1>2. conn.state \in {"LISTEN", "SYN_RECEIVED", "ESTABLISHED", "LAST_ACK"}
  BY DEF Conns
<1>a. /\ ~ Ignored(conn, seg) /\ (Accepts(conn) => inc < MaxIncarnations)
      /\ seg.len = 0 => len = 0
  BY DEF Speaks
<1>b. /\ before = IF Accepts(conn) THEN 0 ELSE n
      /\ inc2 = IF Accepts(conn) THEN inc + 1 ELSE inc
      /\ n2 = before + len
      /\ two = tcp_send(one, len) /\ two.state = one.state /\ two.ack = one.ack
      /\ three = Finished(two, ReplyFlags(conn, seg), n2)
  BY DEF Reply
<1>c. PICK iss : iss = (inc * Share) % SeqMod /\ one = Advanced(conn, seg, iss)
  BY DEF Reply
<1>3. CASE conn.state = "LISTEN"
  <2>1. Accepts(conn) /\ inc \in 0..(MaxIncarnations - 1) /\ before = 0 /\ inc2 = inc + 1
    BY <1>a, <1>b, <1>3, Shares DEF Accepts
  <2>2. len = 0
    BY <1>1, <1>a, <1>3 DEF Ignored
  <2>3. n2 = 0 /\ two = one /\ Sent(one, len, before) = <<>>
    BY <1>b, <2>1, <2>2 DEF tcp_send, Sent
  <2>4. three = Finished(one, ReplyFlags(conn, seg), 0)
    BY <1>b, <2>3
  <2>5. \E f2 \in Ends : /\ Grows(f, inc, n, f2, inc + 1, 0)
                         /\ Answered(f2, inc + 1, 0, conn, three, <<>> \o three.out)
    BY ONLY <1>3, <2>1, <2>4, f \in Ends, n \in Nat, n + 2 < Share, conn \in Conns,
            <1>c, one \in Conns, y \in Places, one.ack = At(y), AnswerSyn
  <2> QED BY <2>1, <2>3, <2>5
<1>4. ASSUME conn.state # "LISTEN"
      PROVE  /\ inc > 0 /\ Numbered(conn, inc - 1, f[inc - 1], n)
             /\ before = n /\ inc2 = inc /\ n2 = n + len /\ n + len + 2 < Share
  BY <1>b, <1>4 DEF Counted, Accepts
<1>5. CASE conn.state = "SYN_RECEIVED" \/ (conn.state = "ESTABLISHED" /\ "FIN" \notin seg.flags)
  <2>1. /\ inc > 0 /\ Numbered(conn, inc - 1, f[inc - 1], n)
        /\ before = n /\ inc2 = inc /\ n2 = n + len /\ n + len + 2 < Share
    BY <1>4, <1>5
  <2>2. three = Finished(two, ReplyFlags(conn, seg), n + len)
    BY <1>b, <2>1
  <2>3. /\ Grows(f, inc, n, f, inc, n + len)
        /\ Answered(f, inc, n + len, conn, three, Sent(one, len, n) \o three.out)
    BY ONLY <1>5, <2>1, <2>2, f \in Ends, inc \in 0..MaxIncarnations, n \in Nat, len \in Nat,
            conn \in Conns, one \in Conns, <1>c,
            y \in Places, one.ack = At(y), two \in Conns, <1>b, AnswerData
  <2> QED BY <2>1, <2>3
<1>6. CASE conn.state = "ESTABLISHED" /\ "FIN" \in seg.flags
  <2>1. /\ inc > 0 /\ Numbered(conn, inc - 1, f[inc - 1], n)
        /\ before = n /\ inc2 = inc /\ n2 = n + len
    BY <1>4, <1>6
  <2>2. len = 0 /\ n2 = n
    BY <1>1, <1>a, <1>6, <2>1
  <2>3. two = one /\ Sent(one, len, before) = <<>>
    BY <1>b, <2>2 DEF tcp_send, Sent
  <2>4. three = Finished(one, ReplyFlags(conn, seg), n)
    BY <1>b, <2>2, <2>3
  <2>5. \E f2 \in Ends : /\ Grows(f, inc, n, f2, inc, n)
                         /\ Answered(f2, inc, n, conn, three, <<>> \o three.out)
    BY ONLY <1>6, <2>1, <2>4, f \in Ends, inc \in 0..MaxIncarnations, n \in Nat, n + 2 < Share,
            conn \in Conns, one \in Conns, <1>c,
            y \in Places, one.ack = At(y), AnswerFin
  <2> QED BY <2>1, <2>2, <2>3, <2>5
<1>7. CASE conn.state = "LAST_ACK"
  <2>1. /\ inc > 0 /\ Numbered(conn, inc - 1, f[inc - 1], n)
        /\ before = n /\ inc2 = inc /\ n2 = n + len /\ n + len + 2 < Share
    BY <1>4, <1>7
  <2>2. three = Finished(two, ReplyFlags(conn, seg), n + len)
    BY <1>b, <2>1
  <2>3. /\ Grows(f, inc, n, f, inc, n + len)
        /\ Answered(f, inc, n + len, conn, three, Sent(one, len, n) \o three.out)
    BY ONLY <1>7, <2>1, <2>2, f \in Ends, inc \in 0..MaxIncarnations, n \in Nat, len \in Nat,
            conn \in Conns, one \in Conns, <1>c,
            y \in Places, one.ack = At(y), two \in Conns, <1>b, AnswerLast
  <2> QED BY <2>1, <2>3
<1> QED BY <1>2, <1>3, <1>5, <1>6, <1>7

\* Data for a closed port moves no number of the server.
LEMMA Refusing ==
  ASSUME NEW f \in Ends, NEW inc \in 0..MaxIncarnations, NEW n \in Nat,
         NEW conn \in Conns, Counted(f, inc, n, conn), NEW seg \in ClientSegments,
         ~ Ignored(conn, seg), seg.len > 0, NEW iss, NEW one, one = Advanced(conn, seg, iss)
  PROVE  /\ ~ Accepts(conn) /\ PortUnreachable \in Segs(f, inc, n)
         /\ conn.state # "LAST_ACK" => Counted(f, inc, n, one)
<1>1. seg.len \in Nat /\ ("SYN" \in seg.flags \/ "FIN" \in seg.flags => seg.len = 0)
  BY SegmentShape
<1>2. conn.state \in {"SYN_RECEIVED", "ESTABLISHED", "LAST_ACK"}
  BY <1>1 DEF Conns, Ignored
<1>3. inc > 0 /\ inc \in Nat /\ Numbered(conn, inc - 1, f[inc - 1], n)
  BY <1>2, Shares DEF Counted
<1>4. PortUnreachable \in Segs(f, inc, n)
  <2>1. PortUnreachable \in ServerSegments
    BY StreamAssumption DEF PortUnreachable, ServerSegments
  <2>2. 0 \in 0..(inc - 1) /\ Belongs(PortUnreachable, 0, f[0], Most(0, inc, n))
    BY <1>3 DEF PortUnreachable, Belongs
  <2> QED BY <2>1, <2>2 DEF Segs
<1>5. conn.state # "LAST_ACK" => one.seq = conn.seq /\ one.state = "ESTABLISHED"
  <2>1. CASE conn.state = "SYN_RECEIVED"
    BY ONLY <2>1, conn \in Conns, one = Advanced(conn, seg, iss) DEF Advanced, Conns
  <2>2. CASE conn.state = "ESTABLISHED"
    <3>1. "FIN" \notin seg.flags
      BY <1>1
    <3> QED BY ONLY <2>2, <3>1, conn \in Conns, one = Advanced(conn, seg, iss) DEF Advanced, Conns
  <2> QED BY <1>2, <2>1, <2>2
<1>6. conn.state # "LAST_ACK" => Counted(f, inc, n, one)
  BY <1>3, <1>5 DEF Counted, Numbered
<1> QED BY <1>2, <1>4, <1>6 DEF Accepts

\* The connection of k under its new value: what is kept of the others.
LEMMA RevisedOthers ==
  ASSUME NEW t, MapInv(t, Keys, Conns, Time), NEW k \in Keys, NEW gone \in BOOLEAN,
         NEW kept, kept = IF gone THEN MapDelete(t, k, Time) ELSE t,
         NEW c \in Conns, NEW w, w = MapRevise(kept, k, c, Time)
  PROVE  /\ MapHas(w, k, Time) => ~ gone /\ SlotOf(w, k, Time).val = c
         /\ \A q \in Keys : q # k /\ MapHas(w, q, Time) =>
              MapHas(t, q, Time) /\ SlotOf(w, q, Time).val = SlotOf(t, q, Time).val
<1>1. /\ MapInv(kept, Keys, Conns, Time)
      /\ gone => ~ MapHas(kept, k, Time)
      /\ \A q \in Keys : MapHas(kept, q, Time) =>
           MapHas(t, q, Time) /\ SlotOf(kept, q, Time) = SlotOf(t, q, Time)
  <2>1. CASE gone
    <3>1. AfterDelete(t, k, Time, kept)
      BY <2>1 DEF AfterDelete
    <3> QED BY <3>1, Deleted
  <2>2. CASE ~ gone
    BY <2>2
  <2> QED BY <2>1, <2>2
<1>2. AfterRevise(kept, k, c, Time, w)
  BY DEF AfterRevise
<1>3. \A q \in Keys : MapHas(w, q, Time) =>
        /\ MapHas(kept, q, Time)
        /\ SlotOf(w, q, Time).val = IF q = k THEN c ELSE SlotOf(kept, q, Time).val
  BY ONLY <1>1, <1>2, k \in Keys, c \in Conns, Revised
<1> QED BY <1>1, <1>3

LEMMA ProcessTraces ==
  ASSUME Inv, Inv', InShare, InShare', NEW k \in Keys, NEW seg \in ClientSegments,
         "RST" \notin seg.flags,
         NEW t, MapInv(t, Keys, Conns, Time), MapHas(t, k, Time),
         ConnOK(k, SlotOf(t, k, Time).val), \A q \in Keys : q # k => Held(t, q),
         NEW f \in Ends, Traced(k, f), Counted(f, incarnations[k], said[k], SlotOf(t, k, Time).val),
         Process(k, t, seg), client' = client
  PROVE  (\A q \in Keys : q # k => Same(q)) /\ \E f2 \in Ends : Traced(k, f2)'
<1> DEFINE conn   == MapGet(t, k, Time)
           accept == conn.state = "LISTEN"
           kept   == IF conn.state = "LAST_ACK" THEN MapDelete(t, k, Time) ELSE t
           iss    == (incarnations[k] * (SeqMod \div MaxIncarnations)) % SeqMod
           one    == Advanced(conn, seg, iss)
           before == IF accept THEN 0 ELSE said[k]
           flags  == ReplyFlags(conn, seg)
<1>2. /\ ~ Ignored(conn, seg) /\ ~ OutOfOrder(conn, seg)
      /\ accept => incarnations[k] < MaxIncarnations
      /\ incarnations' = IF accept THEN [incarnations EXCEPT ![k] = @ + 1] ELSE incarnations
      /\ IF seg.len > 0 /\ k[2] \notin tcp_handler_table
         THEN /\ tcp_conn_table' = MapRevise(kept, k, one, Time)
              /\ toClient' = [toClient EXCEPT ![k] = Append(@, PortUnreachable)]
              /\ said' = said
         ELSE \E len \in IF seg.len > 0 THEN Answers ELSE {0} :
                LET two   == tcp_send(one, len)
                    three == Finished(two, flags, before + len)
                IN  /\ tcp_conn_table' = MapRevise(kept, k, three.conn, Time)
                    /\ toClient' = [toClient EXCEPT ![k] =
                                      @ \o Sent(one, len, before) \o three.out]
                    /\ said' = [said EXCEPT ![k] = before + len]
  BY DEF Process
<1>1. PICK gone, inc, n, inc2, n2 :
        /\ gone \in BOOLEAN /\ gone = (conn.state = "LAST_ACK")
        /\ inc = incarnations[k] /\ n = said[k]
        /\ inc2 = incarnations'[k] /\ n2 = said'[k]
  OBVIOUS
<1>d. /\ conn = MapGet(t, k, Time) /\ kept = IF gone THEN MapDelete(t, k, Time) ELSE t
      /\ iss = (inc * Share) % SeqMod /\ one = Advanced(conn, seg, iss)
      /\ before = (IF Accepts(conn) THEN 0 ELSE n) /\ flags = ReplyFlags(conn, seg)
      /\ accept <=> Accepts(conn)
  BY <1>1 DEF Share, Accepts
<1> HIDE DEF conn, accept, kept, iss, one, before, flags
<1>3. /\ incarnations \in [Keys -> Nat] /\ said \in [Keys -> Nat]
      /\ toClient \in [Keys -> Seq(ServerSegments)] /\ client \in [Keys -> Clients]
      /\ n \in Nat /\ n + 2 < Share /\ n2 \in Nat /\ n2 + 2 < Share
  <2>1. said' \in [Keys -> Nat] /\ said'[k] + 2 < Share
    BY DEF Inv, ServerTyped, InShare, Keys
  <2> QED BY <1>1, <2>1 DEF Inv, ServerTyped, InShare
<1>4. /\ conn \in Conns /\ ConnOK(k, conn) /\ Counted(f, inc, n, conn)
      /\ SlotOf(t, k, Time).val = conn
  <2>1. MapTyped(t, Keys, Conns, Time) /\ Time \in Nat \ {0}
    BY DEF MapInv, Time
  <2>2. conn = SlotOf(t, k, Time).val
    BY <1>d DEF MapGet, SlotOf
  <2>3. SlotOf(t, k, Time).val \in Conns
    BY ONLY <2>1, MapHas(t, k, Time), SlotFilled
  <2> QED BY <1>1, <2>2, <2>3
<1>5. /\ inc \in 0..MaxIncarnations /\ toClient[k] \in Seq(Segs(f, inc, n))
      /\ Reads(f, inc, n, client[k])
  BY <1>1 DEF Traced
<1>6. /\ one \in Conns /\ \E x \in Places : one.ack = At(x)
  <2>1. iss \in 0..(SeqMod - 1)
    <3>1. PICK p \in Nat : p = inc * Share
      BY <1>5, Shares
    <3> QED BY <1>d, <3>1, Shares
  <2>2. /\ one \in Conns /\ one.state # "LISTEN"
        /\ \E x \in Places :
             /\ one.ack = At(x)
             /\ k[2] \in tcp_handler_table => Before(x) \subseteq HeardBefore(k, conn) \cup DataOf(seg)
    BY <1>d, <1>2, <1>4, <2>1, Step1
  <2> QED BY <2>2
<1>7. PICK y \in Places : one.ack = At(y)
  BY <1>6
<1>8. inc2 = IF Accepts(conn) THEN inc + 1 ELSE inc
  BY <1>1, <1>d, <1>2, <1>3
<1>9. ASSUME NEW c \in Conns, tcp_conn_table' = MapRevise(kept, k, c, Time),
             NEW out, toClient' = [toClient EXCEPT ![k] = out],
             NEW f2 \in Ends, Grows(f, inc, n, f2, inc2, n2), out \in Seq(Segs(f2, inc2, n2)),
             conn.state # "LAST_ACK" => Counted(f2, inc2, n2, c),
             \A q \in Keys : q # k => said'[q] = said[q]
      PROVE  (\A q \in Keys : q # k => Same(q)) /\ Traced(k, f2)'
  <2>1. PICK w : w = tcp_conn_table' /\ w = MapRevise(kept, k, c, Time)
    BY <1>9
  <2>2. /\ MapHas(w, k, Time) => ~ gone /\ SlotOf(w, k, Time).val = c
        /\ \A q \in Keys : q # k /\ MapHas(w, q, Time) =>
             MapHas(t, q, Time) /\ SlotOf(w, q, Time).val = SlotOf(t, q, Time).val
    <3>1. gone \in BOOLEAN /\ kept = IF gone THEN MapDelete(t, k, Time) ELSE t
      BY <1>1, <1>d
    <3> QED BY ONLY <2>1, <3>1, MapInv(t, Keys, Conns, Time), k \in Keys, c \in Conns, RevisedOthers
  <2>3. \A q \in Keys : q # k => Same(q)
    <3>1. \A q \in Keys : q # k => incarnations'[q] = incarnations[q]
      BY <1>2, <1>3
    <3>2. \A q \in Keys : q # k => toClient'[q] = toClient[q]
      BY <1>3, <1>9
    <3> QED BY <1>9, <2>1, <2>2, <3>1, <3>2 DEF Same, Held
  <2>4. inc2 \in 0..MaxIncarnations
    BY <1>d, <1>2, <1>1, <1>5, <1>8, Shares
  <2>5. Reads(f2, inc2, n2, client[k])
    BY <1>3, <1>5, <1>9 DEF Grows
  <2>6. toClient'[k] = out
    BY <1>3, <1>9
  <2>7. MapHas(w, k, Time) => Counted(f2, inc2, n2, SlotOf(w, k, Time).val)
    BY <1>1, <1>9, <2>2
  <2>8. Traced(k, f2)'
    BY <1>1, <1>9, <2>1, <2>4, <2>5, <2>6, <2>7 DEF Traced, Time
  <2> QED BY <2>3, <2>8
<1>10. CASE seg.len > 0 /\ k[2] \notin tcp_handler_table
  <2>1. /\ tcp_conn_table' = MapRevise(kept, k, one, Time)
        /\ toClient' = [toClient EXCEPT ![k] = Append(@, PortUnreachable)]
        /\ said' = said
    BY <1>2, <1>10
  <2>2. /\ ~ Accepts(conn) /\ PortUnreachable \in Segs(f, inc, n)
        /\ conn.state # "LAST_ACK" => Counted(f, inc, n, one)
    BY <1>d, <1>2, <1>3, <1>4, <1>5, <1>10, Refusing
  <2>3. inc2 = inc /\ n2 = n
    BY <1>1, <1>8, <2>1, <2>2
  <2>4. PICK out : out = Append(toClient[k], PortUnreachable)
    OBVIOUS
  <2>5. out \in Seq(Segs(f, inc, n)) /\ toClient' = [toClient EXCEPT ![k] = out]
    BY <1>5, <2>1, <2>2, <2>4
  <2>6. Grows(f, inc, n, f, inc, n)
    BY DEF Grows
  <2>7. Traced(k, f)' /\ \A q \in Keys : q # k => Same(q)
    BY <1>6, <1>9, <2>1, <2>2, <2>3, <2>5, <2>6
  <2> QED BY <2>7
<1>11. CASE ~ (seg.len > 0 /\ k[2] \notin tcp_handler_table)
  <2>0. PICK len \in IF seg.len > 0 THEN Answers ELSE {0} :
          \E two, three :
            /\ two = tcp_send(one, len)
            /\ three = Finished(two, flags, before + len)
            /\ tcp_conn_table' = MapRevise(kept, k, three.conn, Time)
            /\ toClient' = [toClient EXCEPT ![k] = @ \o Sent(one, len, before) \o three.out]
            /\ said' = [said EXCEPT ![k] = before + len]
    BY <1>2, <1>11
  <2>1. PICK two, three :
            /\ two = tcp_send(one, len)
            /\ three = Finished(two, flags, before + len)
            /\ tcp_conn_table' = MapRevise(kept, k, three.conn, Time)
            /\ toClient' = [toClient EXCEPT ![k] = @ \o Sent(one, len, before) \o three.out]
            /\ said' = [said EXCEPT ![k] = before + len]
    BY <2>0
  <2>2. len \in Nat /\ (seg.len = 0 => len = 0)
    <3>1. CASE seg.len > 0
      <4>1. len \in Answers
        BY <3>1
      <4> QED BY <3>1, <4>1, StreamAssumption
    <3>2. CASE ~ (seg.len > 0)
      BY <3>2
    <3> QED BY <3>1, <3>2
  <2>3. n2 = before + len /\ three = Finished(two, flags, n2) /\ before \in Nat
    BY <1>1, <1>d, <1>3, <2>1
  <2>4. /\ two \in Conns /\ two.state = one.state /\ two.ack = one.ack
        /\ Sent(one, len, before) \in Seq(ServerSegments)
    BY <1>6, <1>7, <2>1, <2>2, <2>3, Step2
  <2>6. three.conn \in Conns /\ three.out \in Seq(ServerSegments)
    <3>1. flags \in SUBSET {"SYN", "ACK", "FIN"} /\ bytes_in_flight(0, flags) \in Nat
      BY <1>4, <1>d, FlagsOK
    <3>2. two.ack = At(y) /\ three = Finished(two, flags, n2)
      BY <1>7, <2>3, <2>4
    <3> QED BY ONLY <1>3, <2>4, <3>1, <3>2, y \in Places, Step3
  <2>7. PICK f2 \in Ends :
          /\ Grows(f, inc, n, f2, inc2, n2)
          /\ Answered(f2, inc2, n2, conn, three, Sent(one, len, before) \o three.out)
    <3>1. Speaks(conn, seg, inc, len)
      BY <1>1, <1>d, <1>2, <2>2 DEF Speaks
    <3>2. Reply(conn, seg, inc, n, len, before, inc2, n2, one, two, three)
      BY ONLY <1>d, <1>8, <2>1, <2>3, <2>4 DEF Reply
    <3> QED BY ONLY <1>3, <1>4, <1>5, <1>6, <1>7, <2>2, <2>4, <3>1, <3>2,
                    f \in Ends, seg \in ClientSegments, Answering
  <2>8. PICK line, out : line = toClient[k] /\ out = line \o (Sent(one, len, before) \o three.out)
    OBVIOUS
  <2>9. toClient' = [toClient EXCEPT ![k] = out]
    <3>1. line \in Seq(ServerSegments)
      BY <1>3, <2>8
    <3>2. \A a, b, c \in Seq(ServerSegments) : (a \o b) \o c = a \o (b \o c)
      BY ConcatAssociative
    <3>3. line \o Sent(one, len, before) \o three.out = out
      BY <2>4, <2>6, <2>8, <3>1, <3>2
    <3> QED BY <2>1, <2>8, <3>3
  <2>10. out \in Seq(Segs(f2, inc2, n2))
    <3>1. PICK S, R : S = Segs(f2, inc2, n2) /\ R = Segs(f, inc, n)
      OBVIOUS
    <3>2. R \subseteq S /\ line \in Seq(R)
      BY <1>5, <2>7, <2>8, <3>1 DEF Grows
    <3>3. line \in Seq(S)
      BY ONLY <3>2
    <3>4. Sent(one, len, before) \o three.out \in Seq(S)
      BY <2>7, <3>1 DEF Answered
    <3> QED BY ONLY <2>8, <3>1, <3>3, <3>4, ConcatProperties
  <2>11. \A q \in Keys : q # k => said'[q] = said[q]
    BY <1>3, <2>1
  <2>12. conn.state # "LAST_ACK" => Counted(f2, inc2, n2, three.conn)
    BY <2>7 DEF Answered
  <2>13. (\A q \in Keys : q # k => Same(q)) /\ Traced(k, f2)'
    BY <1>9, <2>1, <2>6, <2>7, <2>9, <2>10, <2>11, <2>12
  <2> QED BY <2>13
<1> QED BY <1>10, <1>11

LEMMA DiscardTraces ==
  ASSUME Inv, NEW k \in Keys, NEW seg,
         NEW t, MapInv(t, Keys, Conns, Time), MapHas(t, k, Time),
         ConnOK(k, SlotOf(t, k, Time).val), \A q \in Keys : q # k => Held(t, q),
         NEW f \in Ends, Traced(k, f), Counted(f, incarnations[k], said[k], SlotOf(t, k, Time).val),
         Discard(k, t, seg), client' = client
  PROVE  (\A q \in Keys : q # k => Same(q)) /\ Traced(k, f)'
<1>1. PICK conn, x : conn = MapGet(t, k, Time) /\ x = tcp_out(conn, {"ACK"}, 0, said[k])
  OBVIOUS
<1>2. /\ Ignored(conn, seg) \/ OutOfOrder(conn, seg)
      /\ tcp_conn_table' = t
      /\ toClient' = IF Ignored(conn, seg) THEN toClient
                     ELSE [toClient EXCEPT ![k] = Append(@, x)]
      /\ incarnations' = incarnations /\ said' = said
  BY <1>1 DEF Discard
<1>3. conn \in Conns /\ conn = SlotOf(t, k, Time).val /\ ConnOK(k, conn)
  <2>1. MapTyped(t, Keys, Conns, Time) /\ Time \in Nat \ {0}
    BY DEF MapInv, Time
  <2>2. conn = SlotOf(t, k, Time).val
    BY <1>1 DEF MapGet, SlotOf
  <2>3. SlotOf(t, k, Time).val \in Conns
    BY ONLY <2>1, MapHas(t, k, Time), SlotFilled
  <2> QED BY <2>2, <2>3
<1>4. /\ toClient \in [Keys -> Seq(ServerSegments)] /\ said[k] \in Nat
      /\ incarnations[k] \in 0..MaxIncarnations
  BY DEF Inv, ServerTyped, Traced
<1>5. \A q \in Keys : q # k => Same(q)
  <2>1. \A q \in Keys : q # k => toClient'[q] = toClient[q]
    BY <1>2, <1>4
  <2> QED BY <1>2, <2>1 DEF Same, Held
<1>6. toClient'[k] \in Seq(Segs(f, incarnations[k], said[k]))
  <2>1. toClient[k] \in Seq(Segs(f, incarnations[k], said[k]))
    BY DEF Traced
  <2>2. CASE Ignored(conn, seg)
    BY <1>2, <2>1, <2>2
  <2>3. CASE ~ Ignored(conn, seg)
    <3>1. conn.state = "ESTABLISHED"
      BY <1>2, <2>3 DEF OutOfOrder
    <3>2. PICK y \in Places : conn.ack = At(y)
      BY <1>3, <3>1 DEF ConnOK
    <3>3. incarnations[k] \in Nat \ {0}
      BY <1>3, <1>4, <3>1, Shares DEF Counted
    <3>4. x \in Segs(f, incarnations[k], said[k])
      BY <1>1, <1>3, <1>4, <3>2, <3>3, AckIn
    <3>5. toClient'[k] = Append(toClient[k], x)
      BY <1>2, <1>4, <2>3
    <3> QED BY <2>1, <3>4, <3>5
  <2> QED BY <2>2, <2>3
<1>7. Traced(k, f)'
  BY <1>2, <1>3, <1>6 DEF Traced, Time
<1> QED BY <1>5, <1>7

LEMMA ToServerTraces ==
  ASSUME Inv, Inv', InShare, InShare', AnswersTraced,
         NEW k \in Keys, NEW i \in Nat \ {0}, NEW again \in BOOLEAN, ToServer(k, i, again)
  PROVE  AnswersTraced'
<1>1. PICK seg, t : seg = toServer[k][i] /\ t = tcp_get_connection(k)
  OBVIOUS
<1>2. i <= Len(toServer[k]) /\ tcp_in(k, seg) /\ client' = client
  BY <1>1 DEF ToServer, tcp_in
<1>3. seg \in ClientSegments
  <2>1. toServer[k] \in Seq(ClientSegments)
    BY DEF Inv
  <2> QED BY <1>1, <1>2, <2>1
<1>4. /\ MapInv(t, Keys, Conns, Time)
      /\ \A q \in Keys : MapHas(t, q, Time) => ConnOK(q, SlotOf(t, q, Time).val)
  BY <1>1, GetConnection DEF Inv
<1>5. /\ \A q \in Keys : q # k => Held(t, q)
      /\ Held(t, k) \/ (MapHas(t, k, Time) => SlotOf(t, k, Time).val.state = "LISTEN")
  BY <1>1, GetTraces DEF Inv
<1>6. IF "RST" \in seg.flags THEN Reset(k, t)
      ELSE \/ NullConnection(k, t)
           \/ MapHas(t, k, Time) /\ Discard(k, t, seg)
           \/ MapHas(t, k, Time) /\ Process(k, t, seg)
  BY <1>1, <1>2 DEF tcp_in
<1>7. PICK f \in Ends : Traced(k, f)
  BY DEF AnswersTraced
<1>8. MapHas(t, k, Time) => Counted(f, incarnations[k], said[k], SlotOf(t, k, Time).val)
  BY <1>5, <1>7 DEF Traced, Held, Counted
<1>9. CASE "RST" \in seg.flags /\ Reset(k, t)
  <2>1. PICK w : w = tcp_conn_table'
    OBVIOUS
  <2>2. /\ AfterDelete(t, k, Time, w)
        /\ toClient' = toClient /\ incarnations' = incarnations /\ said' = said
    BY <1>9, <2>1 DEF Reset, AfterDelete
  <2>3. /\ ~ MapHas(w, k, Time)
        /\ \A q \in Keys : MapHas(w, q, Time) =>
             MapHas(t, q, Time) /\ SlotOf(w, q, Time) = SlotOf(t, q, Time)
    BY ONLY <1>4, <2>2, k \in Keys, Deleted
  <2>4. \A q \in Keys : Same(q)
    BY <1>2, <1>5, <2>1, <2>2, <2>3 DEF Same, Held
  <2> QED BY <2>4, AllSame
<1>10. CASE NullConnection(k, t)
  <2>1. \A q \in Keys : Same(q)
    BY <1>2, <1>10 DEF Same, NullConnection
  <2> QED BY <2>1, AllSame
<1>11. CASE MapHas(t, k, Time) /\ Discard(k, t, seg)
  <2>1. (\A q \in Keys : q # k => Same(q)) /\ Traced(k, f)'
    BY <1>2, <1>4, <1>5, <1>7, <1>8, <1>11, DiscardTraces
  <2> QED BY <2>1, OneStep
<1>12. CASE "RST" \notin seg.flags /\ MapHas(t, k, Time) /\ Process(k, t, seg)
  <2>1. (\A q \in Keys : q # k => Same(q)) /\ \E f2 \in Ends : Traced(k, f2)'
    BY <1>2, <1>3, <1>4, <1>5, <1>7, <1>8, <1>12, ProcessTraces
  <2> QED BY <2>1, OneStep
<1> QED BY <1>6, <1>9, <1>10, <1>11, <1>12

LEMMA InitTraces == Init => AnswersTraced
<1> SUFFICES ASSUME Init PROVE AnswersTraced
  OBVIOUS
<1>1. /\ tcp_conn_table = MapInit(ConnSlots, 0) /\ said = [k \in Keys |-> 0]
      /\ incarnations = [k \in Keys |-> 0] /\ toClient = [k \in Keys |-> <<>>]
      /\ client = [k \in Keys |-> [state |-> "closed", snd |-> 0, una |-> 0, rcv |-> 0,
                                   read |-> <<>>]]
  BY DEF Init
<1>2. \A k : ~ MapHas(tcp_conn_table, k, 1)
  <2>1. ConnSlots \in Nat \ {0} /\ 0 \in Nat /\ tcp_conn_table = MapInit(ConnSlots, 0)
    BY <1>1, BoundsAssumption
  <2> QED BY ONLY <2>1, NewMap
<1>3. PICK f \in Ends : TRUE
  <2>1. [j \in Nat |-> 0] \in Ends
    BY DEF Ends
  <2> QED BY <2>1
<1>4. ASSUME NEW k \in Keys PROVE Traced(k, f)
  <2>1. /\ incarnations[k] = 0 /\ toClient[k] = <<>> /\ client[k].read = <<>>
        /\ client[k].state = "closed" /\ 0 \in 0..MaxIncarnations
    BY <1>1, BoundsAssumption
  <2>2. InOrder(<<>>) /\ <<>> \in Seq(Segs(f, incarnations[k], said[k]))
    BY DEF InOrder
  <2> QED BY <1>2, <2>1, <2>2 DEF Traced, Reads, Time
<1> QED BY <1>4 DEF AnswersTraced

LEMMA NextTraces ==
  ASSUME Inv, Inv', InShare, InShare', AnswersTraced, [Next]_vars
  PROVE  AnswersTraced'
<1>1. ASSUME NEW k \in Keys, ClientSends(k) PROVE AnswersTraced'
  BY <1>1, SendsTraces
<1>2. ASSUME NEW k \in Keys, ClientResends(k) PROVE AnswersTraced'
  <2>1. UNCHANGED server /\ client' = client /\ toClient' = toClient
    BY <1>2 DEF ClientResends
  <2> QED BY <2>1, LineTraces
<1>3. ASSUME NEW k \in Keys, ClientAborts(k) PROVE AnswersTraced'
  <2>1. toClient' = toClient
    BY <1>3 DEF ClientAborts
  <2> QED BY <1>3, AbortsTraces
<1>4. ASSUME NEW k \in Keys, Deliver(k) PROVE AnswersTraced'
  <2>1. 1 \in Nat \ {0} /\ FALSE \in BOOLEAN
    OBVIOUS
  <2>2. ToServer(k, 1, FALSE) \/ ToClient(k, 1, FALSE)
    BY <1>4 DEF Deliver
  <2> QED BY <2>1, <2>2, ToServerTraces, ToClientTraces
<1>5. ASSUME NEW k \in Keys, Misdeliver(k) PROVE AnswersTraced'
  <2>1. PICK i \in 1..MaxBacklog, again \in BOOLEAN : ToServer(k, i, again) \/ ToClient(k, i, again)
    BY <1>5 DEF Misdeliver
  <2>2. i \in Nat \ {0}
    BY BoundsAssumption
  <2> QED BY <2>1, <2>2, ToServerTraces, ToClientTraces
<1>6. ASSUME NEW k \in Keys, Lose(k) PROVE AnswersTraced'
  <2>1. UNCHANGED server /\ client' = client
    BY <1>6 DEF Lose
  <2>2. \/ toClient' = toClient
        \/ \E i \in 1..Len(toClient[k]) : toClient' = [toClient EXCEPT ![k] = WithoutAt(@, i)]
    BY <1>6 DEF Lose
  <2> QED BY <2>1, <2>2, LineTraces
<1>7. CASE Closing
  BY <1>7, ClosingTraces
<1>8. CASE UNCHANGED vars
  <2>1. \A q \in Keys : Same(q)
    BY <1>8 DEF vars, server, Same
  <2> QED BY <2>1, AllSame
<1> QED BY <1>1, <1>2, <1>3, <1>4, <1>5, <1>6, <1>7, <1>8 DEF Next

-----------------------------------------------------------------------------
(* How much an incarnation answers: the handler is called once for each      *)
(* segment it takes, once more with the handshake's last ACK and once more   *)
(* in LAST_ACK.                                                              *)

Pieces == Total \div SegLen
Cut(j) == 1 + j * SegLen
Upto(a, n, conn) ==
  /\ conn.state = "SYN_RECEIVED" => n = 0 /\ conn.ack = At(1)
  /\ conn.state = "ESTABLISHED" => \E j \in 0..Pieces : conn.ack = At(Cut(j)) /\ n <= a * (1 + j)
  /\ conn.state = "LAST_ACK" => n <= a * (1 + Pieces)
Modest(a) ==
  \A k \in Keys :
    /\ said[k] <= a * (2 + Pieces)
    /\ MapHas(tcp_conn_table, k, Time) => Upto(a, said[k], SlotOf(tcp_conn_table, k, Time).val)

LEMMA CutsAre ==
  /\ Pieces \in Nat /\ Cut(0) = 1
  /\ \A j \in 0..Pieces : Cut(j) \in 1..(Total + 1)
  /\ \A j \in 0..Pieces : Cut(j) <= Total => j + 1 \in 0..Pieces /\ Cut(j + 1) = Cut(j) + SegLen
<1>1. PICK n \in Nat, l \in Nat \ {0} : n = Pieces /\ l = SegLen /\ Total = n * l
  BY StreamAssumption DEF Pieces
<1>2. ASSUME NEW j \in 0..n
      PROVE  /\ j * l \in Nat /\ j * l <= Total
             /\ j * l < Total => j + 1 \in 0..n /\ (j + 1) * l = j * l + l
  <2>1. j * l \in Nat /\ j * l <= n * l /\ (j + 1) * l = j * l + l
    BY <1>1
  <2>2. j * l < Total => j # n
    BY <1>1, <2>1
  <2> QED BY <1>1, <2>1, <2>2
<1>3. \A j \in 0..n : Cut(j) = 1 + j * l
  BY <1>1 DEF Cut
<1>4. Cut(0) = 1
  <2>1. 0 * l = 0 /\ 0 \in 0..n
    BY <1>1
  <2> QED BY <1>3, <2>1
<1>5. \A j \in 0..n : Cut(j) \in 1..(Total + 1)
  BY <1>2, <1>3, StreamAssumption
<1>6. ASSUME NEW j \in 0..n, Cut(j) <= Total
      PROVE  j + 1 \in 0..n /\ Cut(j + 1) = Cut(j) + l
  <2>1. j * l \in Nat /\ j * l < Total
    BY <1>2, <1>3, <1>6, StreamAssumption
  <2>2. j + 1 \in 0..n /\ (j + 1) * l = j * l + l
    BY <1>2, <2>1
  <2> QED BY <1>1, <1>3, <2>1, <2>2
<1> QED BY <1>1, <1>4, <1>5, <1>6

LEMMA Times ==
  ASSUME NEW a \in Nat, NEW i \in Nat, NEW j \in Nat, i <= j
  PROVE  a * i \in Nat /\ a * i <= a * j /\ a * (1 + i) = a * i + a
OBVIOUS

\* A segment taken in ESTABLISHED at a cut brings the piece from there, the FIN, or
\* nothing.
LEMMA TakenAt ==
  ASSUME NEW j \in 0..Pieces, NEW seg \in ClientSegments, "RST" \notin seg.flags,
         seg.seq = At(Cut(j)), NEW r, r = Add(At(Cut(j)), bytes_in_flight(seg.len, seg.flags))
  PROVE  \/ /\ seg.len > 0 /\ "FIN" \notin seg.flags
            /\ j + 1 \in 0..Pieces /\ r = At(Cut(j + 1))
         \/ seg.len = 0 /\ "FIN" \in seg.flags
         \/ seg.len = 0 /\ "FIN" \notin seg.flags /\ r = At(Cut(j))
<1>1. PICK c : c = Cut(j)
  OBVIOUS
<1>2. /\ c \in 1..(Total + 1) /\ c \in 0..(Total + 2) /\ Total \in Nat /\ SegLen \in Nat \ {0}
      /\ c <= Total => j + 1 \in 0..Pieces /\ Cut(j + 1) = c + SegLen /\ Cut(j + 1) \in 1..(Total + 1)
  BY <1>1, CutsAre, StreamAssumption
<1>3. r = Add(At(c), bytes_in_flight(seg.len, seg.flags)) /\ seg.seq = At(c)
  BY <1>1
<1>4. \A y \in {0} \cup Places : y \in 0..(Total + 2)
  BY <1>2, PlacesRange
<1>5. CASE \E y \in {0} \cup Cuts : seg = ClientSegment(y)
  <2>1. PICK y \in {0} \cup Cuts : seg = ClientSegment(y)
    BY <1>5
  <2>2. seg.seq = At(y) /\ y \in 0..(Total + 2)
    BY <1>4, <2>1 DEF ClientSegment, At, Places
  <2>3. y = c
    BY <1>2, <1>3, <2>2, PlaceOnce
  <2>4. CASE c <= Total
    <3>1. y \in 1..Total /\ y # 0 /\ y <= Total
      BY <1>2, <2>3, <2>4
    <3>2. seg.flags = {"ACK"} /\ seg.len = SegLen
      BY ONLY <2>1, <3>1 DEF ClientSegment
    <3>3. bytes_in_flight(seg.len, seg.flags) = SegLen
      BY <1>2, <3>2, Flight
    <3>4. Add(At(c), SegLen) = At(c + SegLen)
      BY <1>2, <2>4, PlaceNext
    <3> QED BY <1>2, <1>3, <2>4, <3>2, <3>3, <3>4
  <2>5. CASE ~ (c <= Total)
    <3>1. y \notin 1..Total /\ y # 0 /\ ~ (y <= Total)
      BY <1>2, <2>3, <2>5
    <3>2. seg.flags = {"ACK", "FIN"} /\ seg.len = 0
      BY ONLY <2>1, <3>1 DEF ClientSegment
    <3> QED BY <3>2
  <2> QED BY <2>4, <2>5
<1>6. CASE \E y \in {0} \cup Places : seg = BareAck(y)
  <2>1. seg.flags = {"ACK"} /\ seg.len = 0
    BY <1>6 DEF BareAck
  <2>2. bytes_in_flight(seg.len, seg.flags) = 0
    BY <2>1, Flight
  <2>3. Add(At(c), 0) = At(c)
    <3>1. 0 \in Nat /\ c \in Nat /\ c + 0 = c /\ c + 0 <= Total + 2
      BY <1>2
    <3> QED BY <3>1, PlaceNext
  <2> QED BY <1>1, <1>3, <2>1, <2>2, <2>3
<1>7. CASE \E y \in {0} \cup Places : seg = Abort(y)
  BY <1>7 DEF Abort
<1> QED BY <1>5, <1>6, <1>7 DEF ClientSegments

Longer(a, n, len, conn, before, n2) ==
  /\ Upto(a, n, conn) /\ n <= a * (2 + Pieces) /\ len <= a
  /\ before = IF Accepts(conn) THEN 0 ELSE n
  /\ n2 = before + len

LEMMA ModestAnswer ==
  ASSUME NEW a \in Nat, NEW n \in Nat, NEW len \in Nat, NEW conn \in Conns, NEW before, NEW n2,
         Longer(a, n, len, conn, before, n2), NEW seg \in ClientSegments, "RST" \notin seg.flags,
         ~ Ignored(conn, seg), ~ OutOfOrder(conn, seg), seg.len = 0 => len = 0,
         NEW iss, NEW one, one = Advanced(conn, seg, iss),
         NEW c, c.state = one.state, c.ack = one.ack
  PROVE  n2 <= a * (2 + Pieces) /\ (conn.state # "LAST_ACK" => Upto(a, n2, c))
<1>0. /\ Upto(a, n, conn) /\ n <= a * (2 + Pieces) /\ len <= a
      /\ before = (IF Accepts(conn) THEN 0 ELSE n) /\ n2 = before + len
  BY DEF Longer
<1>1. conn.state \in {"LISTEN", "SYN_RECEIVED", "ESTABLISHED", "LAST_ACK"}
  BY DEF Conns
<1>2. PICK N \in Nat : N = Pieces
  BY CutsAre
<1>3. /\ a * (2 + N) \in Nat /\ a * (1 + N) \in Nat /\ a * (2 + N) = a * (1 + N) + a
      /\ \A j \in 0..N : a * (1 + j) \in Nat /\ a * (1 + j) <= a * (1 + N)
                         /\ a * (1 + (j + 1)) = a * (1 + j) + a
  <2>1. a * (1 + (1 + N)) = a * (1 + N) + a /\ 1 + (1 + N) = 2 + N /\ a * (1 + N) \in Nat
    <3>1. 1 + N \in Nat
      BY <1>2
    <3>2. a * (1 + N) \in Nat /\ a * (1 + (1 + N)) = a * (1 + N) + a
      BY ONLY <3>1, a \in Nat, Times
    <3> QED BY <1>2, <3>2
  <2>2. ASSUME NEW j \in 0..N
        PROVE  /\ a * (1 + j) \in Nat /\ a * (1 + j) <= a * (1 + N)
               /\ a * (1 + (j + 1)) = a * (1 + j) + a
    <3>1. 1 + j \in Nat /\ 1 + N \in Nat /\ 1 + j <= 1 + N /\ j + 1 = 1 + j
      BY <1>2
    <3>2. /\ a * (1 + j) \in Nat /\ a * (1 + j) <= a * (1 + N)
          /\ a * (1 + (1 + j)) = a * (1 + j) + a
      BY ONLY <3>1, a \in Nat, Times
    <3> QED BY <3>1, <3>2
  <2> QED BY <2>1, <2>2
<1>4. seg.len \in Nat /\ ("SYN" \in seg.flags \/ "FIN" \in seg.flags => seg.len = 0)
  BY SegmentShape
<1>5. CASE conn.state = "LISTEN"
  <2>1. n2 = 0
    BY <1>0, <1>4, <1>5 DEF Ignored, Accepts
  <2>2. one.state = "SYN_RECEIVED" /\ one.ack = At(1)
    <3>1. Add(seg.seq, 1) = At(1)
      <4>1. PICK y \in {0} \cup Places : seg.seq = At(y) /\ ("SYN" \in seg.flags => y = 0)
        BY SegmentSays
      <4>2. y = 0
        BY <1>5, <4>1 DEF Ignored
      <4>3. Add(At(0), 1) = At(1)
        <5>1. 0 + 1 <= Total + 2 /\ 0 + 1 = 1
          BY StreamAssumption
        <5> QED BY <5>1, PlaceNext
      <4> QED BY <4>1, <4>2, <4>3
    <3> QED BY ONLY <1>5, <3>1, conn \in Conns, one = Advanced(conn, seg, iss) DEF Advanced, Conns
  <2> QED BY <1>2, <1>3, <2>1, <2>2 DEF Upto
<1>6. CASE conn.state = "SYN_RECEIVED"
  <2>1. n = 0 /\ conn.ack = At(1) /\ n2 = len
    BY <1>0, <1>6 DEF Upto, Accepts
  <2>2. one.state = "ESTABLISHED" /\ one.ack = At(1)
    BY ONLY <1>6, <2>1, conn \in Conns, one = Advanced(conn, seg, iss) DEF Advanced, Conns
  <2>3. Cut(0) = 1 /\ 0 \in 0..N /\ a * (1 + 0) = a
    BY <1>2, CutsAre
  <2>4. a <= a * (2 + N)
    <3>1. a * (1 + 0) <= a * (1 + N)
      BY <1>3, <2>3
    <3> QED BY <1>3, <2>3, <3>1
  <2>5. n2 <= a * (1 + 0)
    BY <1>0, <2>1, <2>3
  <2>6. Upto(a, n2, c)
    BY <1>2, <2>2, <2>3, <2>5 DEF Upto
  <2> QED BY <1>0, <1>2, <1>3, <2>1, <2>4, <2>6
<1>7. CASE conn.state = "ESTABLISHED"
  <2>1. PICK j \in 0..N : conn.ack = At(Cut(j)) /\ n <= a * (1 + j)
    BY <1>0, <1>2, <1>7 DEF Upto
  <2>2. seg.seq = At(Cut(j)) /\ n2 = n + len
    BY <1>0, <1>7, <2>1 DEF OutOfOrder, Accepts
  <2>3. PICK r : r = Add(At(Cut(j)), bytes_in_flight(seg.len, seg.flags))
    OBVIOUS
  <2>4. \/ /\ seg.len > 0 /\ "FIN" \notin seg.flags
           /\ j + 1 \in 0..N /\ r = At(Cut(j + 1))
        \/ seg.len = 0 /\ "FIN" \in seg.flags
        \/ seg.len = 0 /\ "FIN" \notin seg.flags /\ r = At(Cut(j))
    BY <1>2, <2>2, <2>3, TakenAt
  <2>5. /\ one.ack = r
        /\ one.state = IF "FIN" \in seg.flags THEN "LAST_ACK" ELSE "ESTABLISHED"
    BY ONLY <1>7, <2>1, <2>3, conn \in Conns, one = Advanced(conn, seg, iss) DEF Advanced, Conns
  <2>6. CASE seg.len > 0 /\ "FIN" \notin seg.flags /\ j + 1 \in 0..N /\ r = At(Cut(j + 1))
    <3>1. n2 <= a * (1 + (j + 1))
      BY <1>0, <1>3, <2>1, <2>2
    <3>2. a * (1 + (j + 1)) <= a * (1 + N)
      BY <1>3, <2>6
    <3>3. n2 <= a * (2 + N)
      BY <1>0, <1>3, <2>2, <2>6, <3>1, <3>2
    <3>4. Upto(a, n2, c)
      BY <1>2, <2>5, <2>6, <3>1 DEF Upto
    <3> QED BY <1>2, <3>3, <3>4
  <2>7. CASE seg.len = 0 /\ "FIN" \in seg.flags
    <3>1. n2 = n /\ n <= a * (1 + N)
      BY <1>3, <2>1, <2>2, <2>7
    <3>2. Upto(a, n2, c)
      BY <1>2, <2>5, <2>7, <3>1 DEF Upto
    <3> QED BY <1>0, <3>1, <3>2
  <2>8. CASE seg.len = 0 /\ "FIN" \notin seg.flags /\ r = At(Cut(j))
    <3>1. n2 = n
      BY <2>2, <2>8
    <3>2. Upto(a, n2, c)
      BY <1>2, <2>1, <2>5, <2>8, <3>1 DEF Upto
    <3> QED BY <1>0, <3>1, <3>2
  <2> QED BY <2>4, <2>6, <2>7, <2>8
<1>8. CASE conn.state = "LAST_ACK"
  <2>1. n <= a * (1 + N) /\ n2 = n + len
    BY <1>0, <1>2, <1>8 DEF Upto, Accepts
  <2> QED BY <1>0, <1>2, <1>3, <1>8, <2>1
<1> QED BY <1>1, <1>5, <1>6, <1>7, <1>8

\* Counting needs of a step only that the others' connections and numbers stay.
Quiet(q) ==
  /\ said'[q] = said[q]
  /\ MapHas(tcp_conn_table', q, Time) =>
       /\ MapHas(tcp_conn_table, q, Time)
       /\ SlotOf(tcp_conn_table', q, Time).val = SlotOf(tcp_conn_table, q, Time).val

LEMMA ModestStep ==
  ASSUME NEW a \in Nat, Modest(a), NEW k \in Keys, \A q \in Keys : q # k => Quiet(q),
         NEW n, n = said'[k], n <= a * (2 + Pieces),
         MapHas(tcp_conn_table', k, Time) => Upto(a, n, SlotOf(tcp_conn_table', k, Time).val)
  PROVE  Modest(a)'
<1>1. ASSUME NEW q \in Keys
      PROVE  /\ said'[q] <= a * (2 + Pieces)
             /\ MapHas(tcp_conn_table', q, Time) =>
                  Upto(a, said'[q], SlotOf(tcp_conn_table', q, Time).val)
  <2>1. CASE q = k
    BY <2>1
  <2>2. CASE q # k
    BY <2>2 DEF Quiet, Modest
  <2> QED BY <2>1, <2>2
<1> QED BY <1>1 DEF Modest

LEMMA ModestSame ==
  ASSUME NEW a \in Nat, Modest(a), \A q \in Keys : Quiet(q)
  PROVE  Modest(a)'
<1>1. ASSUME NEW q \in Keys
      PROVE  /\ said'[q] <= a * (2 + Pieces)
             /\ MapHas(tcp_conn_table', q, Time) =>
                  Upto(a, said'[q], SlotOf(tcp_conn_table', q, Time).val)
  BY DEF Quiet, Modest
<1> QED BY <1>1 DEF Modest

LEMMA ModestProcess ==
  ASSUME Inv, Inv', NEW a \in Nat, \A x \in Answers : x <= a, Modest(a),
         NEW k \in Keys, NEW seg \in ClientSegments, "RST" \notin seg.flags,
         NEW t, MapInv(t, Keys, Conns, Time), MapHas(t, k, Time),
         ConnOK(k, SlotOf(t, k, Time).val), \A q \in Keys : q # k => Held(t, q),
         Upto(a, said[k], SlotOf(t, k, Time).val), Process(k, t, seg)
  PROVE  Modest(a)'
<1> DEFINE conn   == MapGet(t, k, Time)
           accept == conn.state = "LISTEN"
           kept   == IF conn.state = "LAST_ACK" THEN MapDelete(t, k, Time) ELSE t
           iss    == (incarnations[k] * (SeqMod \div MaxIncarnations)) % SeqMod
           one    == Advanced(conn, seg, iss)
           before == IF accept THEN 0 ELSE said[k]
           flags  == ReplyFlags(conn, seg)
<1>2. /\ ~ Ignored(conn, seg) /\ ~ OutOfOrder(conn, seg)
      /\ IF seg.len > 0 /\ k[2] \notin tcp_handler_table
         THEN tcp_conn_table' = MapRevise(kept, k, one, Time) /\ said' = said
         ELSE \E len \in IF seg.len > 0 THEN Answers ELSE {0} :
                LET two   == tcp_send(one, len)
                    three == Finished(two, flags, before + len)
                IN  /\ tcp_conn_table' = MapRevise(kept, k, three.conn, Time)
                    /\ said' = [said EXCEPT ![k] = before + len]
  BY DEF Process
<1>1. PICK gone, n, n2 : /\ gone \in BOOLEAN /\ gone = (conn.state = "LAST_ACK")
                         /\ n = said[k] /\ n2 = said'[k]
  OBVIOUS
<1>d. /\ conn = MapGet(t, k, Time) /\ kept = IF gone THEN MapDelete(t, k, Time) ELSE t
      /\ one = Advanced(conn, seg, iss)
      /\ before = (IF Accepts(conn) THEN 0 ELSE n) /\ flags = ReplyFlags(conn, seg)
      /\ accept <=> Accepts(conn)
  BY <1>1 DEF Accepts
<1>i. iss \in 0..(SeqMod - 1)
  <2>1. incarnations[k] \in Nat /\ Share \in Nat /\ SeqMod \in Nat \ {0}
    BY Shares DEF Inv, ServerTyped
  <2>2. PICK p \in Nat : p = incarnations[k] * Share
    BY <2>1
  <2>3. iss = p % SeqMod
    BY <2>2 DEF Share
  <2> QED BY <2>1, <2>3
<1> HIDE DEF conn, accept, kept, iss, one, before, flags
<1>3. said \in [Keys -> Nat] /\ n \in Nat /\ n2 \in Nat /\ n <= a * (2 + Pieces)
  <2>1. said' \in [Keys -> Nat]
    BY DEF Inv, ServerTyped, Keys
  <2> QED BY <1>1, <2>1 DEF Inv, ServerTyped, Modest
<1>4. conn \in Conns /\ ConnOK(k, conn) /\ Upto(a, n, conn) /\ SlotOf(t, k, Time).val = conn
  <2>1. MapTyped(t, Keys, Conns, Time) /\ Time \in Nat \ {0}
    BY DEF MapInv, Time
  <2>2. conn = SlotOf(t, k, Time).val
    BY <1>d DEF MapGet, SlotOf
  <2>3. SlotOf(t, k, Time).val \in Conns
    BY ONLY <2>1, MapHas(t, k, Time), SlotFilled
  <2> QED BY <1>1, <2>2, <2>3
<1>5. one \in Conns /\ \E x \in Places : one.ack = At(x)
  <2>1. /\ one \in Conns /\ one.state # "LISTEN"
        /\ \E x \in Places :
             /\ one.ack = At(x)
             /\ k[2] \in tcp_handler_table => Before(x) \subseteq HeardBefore(k, conn) \cup DataOf(seg)
    BY <1>d, <1>i, <1>2, <1>4, Step1
  <2> QED BY <2>1
<1>6. PICK y \in Places : one.ack = At(y)
  BY <1>5
<1>7. ASSUME NEW c \in Conns, c.state = one.state, c.ack = one.ack,
             tcp_conn_table' = MapRevise(kept, k, c, Time),
             NEW len \in Nat, len <= a, seg.len = 0 => len = 0, n2 = before + len,
             \A q \in Keys : q # k => said'[q] = said[q]
      PROVE  Modest(a)'
  <2>1. PICK w : w = tcp_conn_table' /\ w = MapRevise(kept, k, c, Time)
    BY <1>7
  <2>2. /\ MapHas(w, k, Time) => ~ gone /\ SlotOf(w, k, Time).val = c
        /\ \A q \in Keys : q # k /\ MapHas(w, q, Time) =>
             MapHas(t, q, Time) /\ SlotOf(w, q, Time).val = SlotOf(t, q, Time).val
    <3>1. gone \in BOOLEAN /\ kept = IF gone THEN MapDelete(t, k, Time) ELSE t
      BY <1>1, <1>d
    <3> QED BY ONLY <2>1, <3>1, MapInv(t, Keys, Conns, Time), k \in Keys, c \in Conns, RevisedOthers
  <2>3. \A q \in Keys : q # k => Quiet(q)
    BY <1>7, <2>1, <2>2 DEF Quiet, Held
  <2>4. Longer(a, n, len, conn, before, n2)
    BY <1>d, <1>3, <1>4, <1>7 DEF Longer
  <2>5. n2 <= a * (2 + Pieces) /\ (conn.state # "LAST_ACK" => Upto(a, n2, c))
    <3>1. ~ Ignored(conn, seg) /\ ~ OutOfOrder(conn, seg) /\ one = Advanced(conn, seg, iss)
      BY <1>2, <1>d
    <3> QED BY ONLY <1>3, <1>4, <1>7, <2>4, <3>1, a \in Nat, seg \in ClientSegments,
                    "RST" \notin seg.flags, ModestAnswer
  <2>6. MapHas(tcp_conn_table', k, Time) => Upto(a, n2, SlotOf(tcp_conn_table', k, Time).val)
    BY <1>1, <2>1, <2>2, <2>5
  <2> QED BY <1>1, <2>3, <2>5, <2>6, ModestStep
<1>8. CASE seg.len > 0 /\ k[2] \notin tcp_handler_table
  <2>1. tcp_conn_table' = MapRevise(kept, k, one, Time) /\ said' = said
    BY <1>2, <1>8
  <2>2. ~ Accepts(conn)
    <3>1. "SYN" \notin seg.flags
      BY <1>8, SegmentShape
    <3> QED BY <1>2, <3>1 DEF Ignored, Accepts
  <2>3. n2 = before + 0 /\ 0 \in Nat /\ 0 <= a
    BY <1>1, <1>d, <1>3, <2>1, <2>2
  <2>4. \A q \in Keys : q # k => said'[q] = said[q]
    BY <2>1
  <2> QED BY <1>5, <1>7, <2>1, <2>3, <2>4
<1>9. CASE ~ (seg.len > 0 /\ k[2] \notin tcp_handler_table)
  <2>0. PICK len \in IF seg.len > 0 THEN Answers ELSE {0} :
          \E two, three :
            /\ two = tcp_send(one, len)
            /\ three = Finished(two, flags, before + len)
            /\ tcp_conn_table' = MapRevise(kept, k, three.conn, Time)
            /\ said' = [said EXCEPT ![k] = before + len]
    BY <1>2, <1>9
  <2>1. PICK two, three :
            /\ two = tcp_send(one, len)
            /\ three = Finished(two, flags, before + len)
            /\ tcp_conn_table' = MapRevise(kept, k, three.conn, Time)
            /\ said' = [said EXCEPT ![k] = before + len]
    BY <2>0
  <2>2. len \in Nat /\ (seg.len = 0 => len = 0) /\ len <= a
    <3>1. CASE seg.len > 0
      <4>1. len \in Answers
        BY <3>1
      <4>2. len \in Nat /\ len <= a
        BY <4>1, StreamAssumption
      <4> QED BY <3>1, <4>2
    <3>2. CASE ~ (seg.len > 0)
      BY <3>2
    <3> QED BY <3>1, <3>2
  <2>3. n2 = before + len /\ three = Finished(two, flags, n2) /\ before \in Nat
    BY <1>1, <1>d, <1>3, <2>1
  <2>4. two \in Conns /\ two.state = one.state /\ two.ack = one.ack
    BY <1>5, <1>6, <2>1, <2>2, <2>3, Step2
  <2>5. three.conn \in Conns /\ three.conn.state = two.state /\ three.conn.ack = two.ack
    <3>1. flags \in SUBSET {"SYN", "ACK", "FIN"} /\ bytes_in_flight(0, flags) \in Nat
      BY <1>4, <1>d, FlagsOK
    <3>2. two.ack = At(y) /\ three = Finished(two, flags, n2)
      BY <1>6, <2>3, <2>4
    <3> QED BY ONLY <1>3, <2>4, <3>1, <3>2, y \in Places, Step3
  <2>6. \A q \in Keys : q # k => said'[q] = said[q]
    BY <1>3, <2>1
  <2> QED BY <1>7, <2>1, <2>2, <2>3, <2>4, <2>5, <2>6
<1> QED BY <1>8, <1>9

LEMMA ModestIn ==
  ASSUME Inv, Inv', NEW a \in Nat, \A x \in Answers : x <= a, Modest(a),
         NEW k \in Keys, NEW i \in Nat \ {0}, NEW again \in BOOLEAN, ToServer(k, i, again)
  PROVE  Modest(a)'
<1>1. PICK seg, t : seg = toServer[k][i] /\ t = tcp_get_connection(k)
  OBVIOUS
<1>2. i <= Len(toServer[k]) /\ tcp_in(k, seg)
  BY <1>1 DEF ToServer
<1>3. seg \in ClientSegments
  <2>1. toServer[k] \in Seq(ClientSegments)
    BY DEF Inv
  <2> QED BY <1>1, <1>2, <2>1
<1>4. /\ MapInv(t, Keys, Conns, Time)
      /\ \A q \in Keys : MapHas(t, q, Time) => ConnOK(q, SlotOf(t, q, Time).val)
  BY <1>1, GetConnection DEF Inv
<1>5. /\ \A q \in Keys : q # k => Held(t, q)
      /\ Held(t, k) \/ (MapHas(t, k, Time) => SlotOf(t, k, Time).val.state = "LISTEN")
  BY <1>1, GetTraces DEF Inv
<1>6. IF "RST" \in seg.flags THEN Reset(k, t)
      ELSE \/ NullConnection(k, t)
           \/ MapHas(t, k, Time) /\ Discard(k, t, seg)
           \/ MapHas(t, k, Time) /\ Process(k, t, seg)
  BY <1>1, <1>2 DEF tcp_in
<1>7. said[k] <= a * (2 + Pieces)
      /\ (MapHas(t, k, Time) => Upto(a, said[k], SlotOf(t, k, Time).val))
  BY <1>5 DEF Modest, Held, Upto
<1>8. CASE "RST" \in seg.flags /\ Reset(k, t)
  <2>1. PICK w : w = tcp_conn_table'
    OBVIOUS
  <2>2. AfterDelete(t, k, Time, w) /\ said' = said
    BY <1>8, <2>1 DEF Reset, AfterDelete
  <2>3. /\ ~ MapHas(w, k, Time)
        /\ \A q \in Keys : MapHas(w, q, Time) =>
             MapHas(t, q, Time) /\ SlotOf(w, q, Time) = SlotOf(t, q, Time)
    BY ONLY <1>4, <2>2, k \in Keys, Deleted
  <2>4. \A q \in Keys : Quiet(q)
    BY <1>5, <2>1, <2>2, <2>3 DEF Quiet, Held
  <2> QED BY <2>4, ModestSame
<1>9. CASE NullConnection(k, t)
  <2>1. \A q \in Keys : Quiet(q)
    BY <1>9 DEF Quiet, NullConnection
  <2> QED BY <2>1, ModestSame
<1>10. CASE MapHas(t, k, Time) /\ Discard(k, t, seg)
  <2>1. tcp_conn_table' = t /\ said' = said
    BY <1>10 DEF Discard
  <2>2. \A q \in Keys : q # k => Quiet(q)
    BY <1>5, <2>1 DEF Quiet, Held
  <2> QED BY <1>7, <2>1, <2>2, ModestStep
<1>11. CASE "RST" \notin seg.flags /\ MapHas(t, k, Time) /\ Process(k, t, seg)
  BY <1>3, <1>4, <1>5, <1>7, <1>11, ModestProcess
<1> QED BY <1>6, <1>8, <1>9, <1>10, <1>11

LEMMA ModestClosing ==
  ASSUME Inv, NEW a \in Nat, Modest(a), Closing
  PROVE  Modest(a)'
<1>1. PICK port \in Closable \cap tcp_handler_table : tcp_close(port)
  BY DEF Closing
<1>2. tcp_conn_table' = MapSweep(tcp_conn_table, Hosts \X {port}, Time) /\ said' = said
  BY <1>1 DEF tcp_close
<1>3. MapInv(tcp_conn_table, Keys, Conns, Time) /\ Time \in Nat \ {0}
  BY DEF Inv, ServerTyped, Time
<1>4. PICK S, w : S = Hosts \X {port} /\ w = tcp_conn_table'
  OBVIOUS
<1>5. AfterSweep(tcp_conn_table, S, Time, w)
  BY <1>2, <1>4 DEF AfterSweep
<1>6. /\ \A k \in Keys \cap S : ~ MapHas(w, k, Time)
      /\ Others(Keys, S, tcp_conn_table, w, Time)
  BY ONLY <1>3, <1>5, MapSweepEffect
<1>7. \A q \in Keys : MapHas(w, q, Time) =>
        MapHas(tcp_conn_table, q, Time) /\ SlotOf(w, q, Time) = SlotOf(tcp_conn_table, q, Time)
  BY <1>6 DEF Others, SameFor, SlotOf
<1>8. \A q \in Keys : Quiet(q)
  BY ONLY <1>2, <1>4, <1>7 DEF Quiet
<1> QED BY <1>8, ModestSame

LEMMA ModestNext ==
  ASSUME Inv, Inv', NEW a \in Nat, \A x \in Answers : x <= a, Modest(a), [Next]_vars
  PROVE  Modest(a)'
<1>1. ASSUME UNCHANGED server PROVE Modest(a)'
  <2>1. \A q \in Keys : Quiet(q)
    BY <1>1 DEF server, Quiet
  <2> QED BY <2>1, ModestSame
<1>2. ASSUME NEW k \in Keys, NEW i \in Nat \ {0}, NEW again \in BOOLEAN,
             ToServer(k, i, again) \/ ToClient(k, i, again)
      PROVE  Modest(a)'
  <2>1. CASE ToServer(k, i, again)
    BY <2>1, ModestIn
  <2>2. CASE ToClient(k, i, again)
    <3>1. UNCHANGED server
      BY <2>2 DEF ToClient, ClientReceives
    <3> QED BY <1>1, <3>1
  <2> QED BY <1>2, <2>1, <2>2
<1>3. ASSUME NEW k \in Keys, ClientSends(k) \/ ClientResends(k) \/ ClientAborts(k) \/ Lose(k)
      PROVE  Modest(a)'
  <2>1. UNCHANGED server
    BY <1>3 DEF ClientSends, ClientResends, ClientAborts, Lose
  <2> QED BY <1>1, <2>1
<1>4. ASSUME NEW k \in Keys, Deliver(k) PROVE Modest(a)'
  <2>1. 1 \in Nat \ {0} /\ FALSE \in BOOLEAN
    OBVIOUS
  <2>2. ToServer(k, 1, FALSE) \/ ToClient(k, 1, FALSE)
    BY <1>4 DEF Deliver
  <2> QED BY <1>2, <2>1, <2>2
<1>5. ASSUME NEW k \in Keys, Misdeliver(k) PROVE Modest(a)'
  <2>1. PICK i \in 1..MaxBacklog, again \in BOOLEAN : ToServer(k, i, again) \/ ToClient(k, i, again)
    BY <1>5 DEF Misdeliver
  <2>2. i \in Nat \ {0}
    BY BoundsAssumption
  <2> QED BY <1>2, <2>1, <2>2
<1>6. CASE UNCHANGED vars
  BY <1>1, <1>6 DEF vars
<1>7. CASE Closing
  BY <1>7, ModestClosing
<1> QED BY <1>3, <1>4, <1>5, <1>6, <1>7 DEF Next

LEMMA ModestInit ==
  ASSUME NEW a \in Nat, Init
  PROVE  Modest(a)
<1>1. tcp_conn_table = MapInit(ConnSlots, 0) /\ said = [k \in Keys |-> 0]
  BY DEF Init
<1>2. \A k : ~ MapHas(tcp_conn_table, k, 1)
  <2>1. ConnSlots \in Nat \ {0} /\ 0 \in Nat /\ tcp_conn_table = MapInit(ConnSlots, 0)
    BY <1>1, BoundsAssumption
  <2> QED BY ONLY <2>1, NewMap
<1>3. 0 <= a * (2 + Pieces)
  <2>1. 2 + Pieces \in Nat
    BY CutsAre
  <2>2. PICK m \in Nat : m = 2 + Pieces
    BY <2>1
  <2>3. a * m \in Nat
    OBVIOUS
  <2> QED BY <2>2, <2>3
<1> QED BY <1>1, <1>2, <1>3 DEF Modest, Time

\* The answers of an incarnation fit into its share of the sequence space.
Roomy(a) == (\A x \in Answers : x <= a) /\ a * (2 + Pieces) + 2 < Share

LEMMA ModestFits ==
  ASSUME Inv, NEW a \in Nat, Modest(a), Roomy(a)
  PROVE  InShare
<1>1. PICK m : m = a * (2 + Pieces)
  OBVIOUS
<1>2. m \in Nat
  <2>1. 2 + Pieces \in Nat
    BY CutsAre
  <2>2. PICK p \in Nat : p = 2 + Pieces
    BY <2>1
  <2>3. a * p \in Nat
    OBVIOUS
  <2> QED BY <1>1, <2>2, <2>3
<1>3. Share \in Nat /\ m + 2 < Share
  BY <1>1, Shares DEF Roomy
<1>4. ASSUME NEW k \in Keys PROVE said[k] + 2 < Share
  <2>1. said[k] \in Nat /\ said[k] <= m
    BY <1>1 DEF Inv, ServerTyped, Modest
  <2> QED BY <1>2, <1>3, <2>1
<1> QED BY <1>4 DEF InShare

-----------------------------------------------------------------------------

\* No incarnation of a connection answers more than the longest answer for each
\* segment of the stream and two more (tcp_in calls the handler once per segment).
THEOREM AnswersBounded ==
  ASSUME NEW a \in Nat, \A x \in Answers : x <= a
  PROVE  Spec => []Modest(a)
<1>1. Init => Modest(a)
  BY ModestInit
<1>2. Modest(a) /\ Inv /\ Inv' /\ [Next]_vars => Modest(a)'
  BY ModestNext
<1> QED BY <1>1, <1>2, Invariance, PTL DEF Spec

\* While no incarnation answers more than its share of the sequence space, all that
\* is on its way to a client, and all it has read, can be traced to one incarnation
\* of the connection and a position in what that one answered (tcp_in, tcp_send).
THEOREM Tracing == Spec /\ []InShare => []AnswersTraced
<1>1. Init => AnswersTraced
  BY InitTraces
<1>2. AnswersTraced /\ Inv /\ Inv' /\ InShare /\ InShare' /\ [Next]_vars => AnswersTraced'
  BY NextTraces
<1> QED BY <1>1, <1>2, Invariance, PTL DEF Spec

\* What a client reads is what the handler answered, from the first byte on, with
\* no gap, no repetition and nothing from another incarnation, if the sequence
\* space has room for the answers of all incarnations.
THEOREM AnswersRead ==
  ASSUME NEW a \in Nat, Roomy(a)
  PROVE  Spec => []AnswersInOrder
<1>1. AnswersTraced => AnswersInOrder
  BY DEF AnswersTraced, Traced, Reads, AnswersInOrder, InOrder
<1>2. Inv /\ Modest(a) => InShare
  BY ModestFits
<1>3. Spec => []Modest(a)
  <2>1. \A x \in Answers : x <= a
    BY DEF Roomy
  <2> QED BY <2>1, AnswersBounded
<1> QED BY <1>1, <1>2, <1>3, Invariance, Tracing, PTL
=============================================================================

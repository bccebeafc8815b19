------------------------------ MODULE IpProofs ------------------------------
(***************************************************************************)
(* Reassembly for any peers, lengths, widths, number of nodes, limit and   *)
(* time-out: the nodes keep their type, the array of a node is never       *)
(* overrun, pieces that are handed up are fresh, and, as long as ids are   *)
(* not used again and offsets do not wrap, the pieces of a node are sorted *)
(* and distinct, what is handed up is what was sent, and it is handed up   *)
(* as soon as it is whole.                                                 *)
(***************************************************************************)
EXTENDS Ip, TimedMapTheorems, SequenceTheorems

-----------------------------------------------------------------------------
(* Sequences *)

\* c is a followed by b; the lemmas speak of it by name, so that a prover does not
\* join what it has joined.
JoinOf(a, b, c) == c = a \o b

LEMMA Joined ==
  ASSUME NEW S, NEW a \in Seq(S), NEW b \in Seq(S), NEW c, JoinOf(a, b, c)
  PROVE  /\ c \in Seq(S) /\ Len(c) = Len(a) + Len(b)
         /\ \A i \in 1..Len(c) : c[i] = IF i <= Len(a) THEN a[i] ELSE b[i - Len(a)]
BY ConcatProperties DEF JoinOf

\* One piece between two arrays.
LEMMA Between ==
  ASSUME NEW S, NEW a \in Seq(S), NEW one \in Seq(S), NEW b \in Seq(S), NEW x \in S,
         Len(one) = 1, one[1] = x,
         NEW ax, JoinOf(a, one, ax), NEW r, JoinOf(ax, b, r)
  PROVE  /\ r \in Seq(S) /\ Len(r) = Len(a) + 1 + Len(b)
         /\ \A i \in 1..Len(r) :
              r[i] = IF i <= Len(a) THEN a[i]
                     ELSE IF i = Len(a) + 1 THEN x ELSE b[i - Len(a) - 1]
<1>1. /\ ax \in Seq(S) /\ Len(ax) = Len(a) + Len(one)
      /\ \A i \in 1..Len(ax) : ax[i] = IF i <= Len(a) THEN a[i] ELSE one[i - Len(a)]
  BY ONLY Joined, JoinOf(a, one, ax), a \in Seq(S), one \in Seq(S)
<1>2. ax \in Seq(S)
  BY <1>1
<1>3. /\ r \in Seq(S) /\ Len(r) = Len(ax) + Len(b)
      /\ \A i \in 1..Len(r) : r[i] = IF i <= Len(ax) THEN ax[i] ELSE b[i - Len(ax)]
  BY ONLY <1>2, Joined, JoinOf(ax, b, r), b \in Seq(S)
<1>4. Len(a) \in Nat /\ Len(b) \in Nat
  BY LenProperties
<1> QED BY <1>1, <1>3, <1>4

\* What ip_reassemble_insert_fragment does to the array: the pieces up to p
\* stay, the others move up by one.
InsertOf(s, p, x, r) == r = SubSeq(s, 1, p) \o <<x>> \o SubSeq(s, p + 1, Len(s))

LEMMA InsertEffect ==
  ASSUME NEW S, NEW s \in Seq(S), NEW p \in 0..Len(s), NEW x \in S, NEW r,
         InsertOf(s, p, x, r)
  PROVE  /\ r \in Seq(S) /\ Len(r) = Len(s) + 1
         /\ \A i \in 1..Len(r) : r[i] = IF i <= p THEN s[i] ELSE IF i = p + 1 THEN x ELSE s[i - 1]
<1>1. PICK a, one, b, ax : /\ a = SubSeq(s, 1, p) /\ one = <<x>> /\ b = SubSeq(s, p + 1, Len(s))
                           /\ JoinOf(a, one, ax) /\ JoinOf(ax, b, r)
  BY Zenon DEF JoinOf, InsertOf
<1>0. Len(s) \in Nat /\ \A i \in 1..Len(s) : s[i] \in S
  BY LenProperties
<1>2. a \in Seq(S) /\ Len(a) = p /\ \A i \in 1..p : a[i] = s[i]
  BY <1>0, <1>1, SubSeqProperties
<1>3. b \in Seq(S) /\ Len(b) = Len(s) - p /\ \A i \in 1..(Len(s) - p) : b[i] = s[p + i]
  BY <1>0, <1>1, SubSeqProperties
<1>4. one \in Seq(S) /\ Len(one) = 1 /\ one[1] = x
  BY <1>1
<1>j. JoinOf(a, one, ax) /\ JoinOf(ax, b, r)
  BY <1>1
<1>m. a \in Seq(S) /\ b \in Seq(S)
  BY <1>2, <1>3
<1>5. /\ r \in Seq(S) /\ Len(r) = Len(a) + 1 + Len(b)
      /\ \A i \in 1..Len(r) :
           r[i] = IF i <= Len(a) THEN a[i]
                  ELSE IF i = Len(a) + 1 THEN x ELSE b[i - Len(a) - 1]
  BY ONLY <1>m, <1>4, <1>j, x \in S, Between
<1>6. Len(r) = Len(s) + 1
  BY ONLY <1>0, <1>2, <1>3, <1>5, p \in 0..Len(s)
<1>7. ASSUME NEW i \in 1..Len(r)
      PROVE  r[i] = IF i <= p THEN s[i] ELSE IF i = p + 1 THEN x ELSE s[i - 1]
  <2>1. CASE i <= p + 1
    BY ONLY <1>0, <1>2, <1>5, <1>6, <2>1, p \in 0..Len(s), i \in 1..Len(r)
  <2>2. CASE i > p + 1
    <3>1. i - p - 1 \in 1..(Len(s) - p) /\ p + (i - p - 1) = i - 1
      BY ONLY <1>0, <1>6, <2>2, p \in 0..Len(s), i \in 1..Len(r)
    <3>2. b[i - p - 1] = s[i - 1]
      BY ONLY <1>3, <3>1
    <3>3. r[i] = b[i - p - 1]
      BY ONLY <1>2, <1>5, <2>2, p \in 0..Len(s), i \in 1..Len(r), <1>0
    <3> QED
      BY ONLY <2>2, <3>2, <3>3, <1>0, p \in 0..Len(s), i \in 1..Len(r)
  <2> QED BY ONLY <2>1, <2>2, <1>0, p \in 0..Len(s), i \in 1..Len(r)
<1> QED BY <1>5, <1>6, <1>7

\* The place a piece is put at lies in the array.
LEMMA PlaceInside ==
  ASSUME NEW n \in Nat, NEW T \in SUBSET (1..n)
  PROVE  Cardinality(T) \in 0..n /\ IsFiniteSet(T)
<1>1. IsFiniteSet(1..n) /\ Cardinality(1..n) = n
  <2>1. IsFiniteSet(1..n) /\ Cardinality(1..n) = IF 1 > n THEN 0 ELSE n - 1 + 1
    BY FS_Interval
  <2> QED BY <2>1
<1>2. IsFiniteSet(T) /\ Cardinality(T) <= Cardinality(1..n)
  BY <1>1, FS_Subset
<1> QED BY <1>1, <1>2, FS_CardinalityType

\* A set of indices that holds with each the smaller ones is a prefix, which ends
\* at their number.
LEMMA Prefix ==
  ASSUME NEW n \in Nat, NEW T \in SUBSET (1..n),
         \A j \in T : \A i \in 1..n : i < j => i \in T
  PROVE  T = 1..Cardinality(T)
<1> DEFINE out == (1..(n + 1)) \ T
           k == Least(out)
<1>1. k \in out /\ \A j \in out : k <= j
  <2>1. out \subseteq Nat /\ n + 1 \in out
    OBVIOUS
  <2> QED BY <2>1, LeastExists
<1> HIDE DEF k
<1>2. T = 1..(k - 1)
  <2>1. \A i \in 1..(k - 1) : i \in T
    BY <1>1
  <2>2. ASSUME NEW i \in T, i >= k PROVE FALSE
    <3>1. k \in 1..n /\ k \notin T /\ k < i
      BY <1>1, <2>2
    <3> QED BY <3>1
  <2>3. \A i \in T : i \in 1..(k - 1)
    BY <1>1, <2>2
  <2> QED BY <2>1, <2>3
<1>3. Cardinality(1..(k - 1)) = k - 1
  <2>1. k - 1 \in Nat
    BY <1>1
  <2>2. Cardinality(1..(k - 1)) = IF 1 > k - 1 THEN 0 ELSE (k - 1) - 1 + 1
    BY <2>1, FS_Interval
  <2> QED BY <2>1, <2>2
<1> QED BY <1>2, <1>3

-----------------------------------------------------------------------------
(* The invariant *)

\* The offset ip_in computes from a header.
OffOf(f) == (f.field % (LenMod \div OffsetUnit)) * OffsetUnit

FragmentOK(f) ==
  /\ f.src \in Peers /\ f.id \in 0..(IdMod - 1)
  /\ f.field \in Nat /\ f.mf \in BOOLEAN /\ f.len \in Nat
  /\ f.of \in 1..Len(sent) /\ f.from \in Nat

\* A slot of the map whose node fits its array, and none of whose pieces came
\* before the stamp.
SlotGood(s) ==
  /\ Len(s.val.frags) <= MaxFragments
  /\ \A i \in 1..Len(s.val.frags) : s.val.frags[i].at >= s.time

NodesInv ==
  /\ ip_reassemble_map.max = NodeSlots /\ ip_reassemble_map.timeout = FragTimeout
  /\ \A k \in Keys : MapHas(ip_reassemble_map, k, now) => SlotGood(SlotOf(ip_reassemble_map, k, now))

UpFits == up # Nothing => Len(up.ats) <= MaxFragments

Inv ==
  /\ TypeOK
  /\ \A f \in net : FragmentOK(f)
  /\ NodesInv
  /\ UpFits
  /\ FreshPieces

-----------------------------------------------------------------------------
(* One fragment *)

LEMMA OffTyped ==
  ASSUME NEW n \in Nat
  PROVE  (n % (LenMod \div OffsetUnit)) * OffsetUnit \in 0..(LenMod - 1)
<1> DEFINE q == LenMod \div OffsetUnit
<1>1. q \in Nat /\ LenMod = q * OffsetUnit /\ LenMod \in Nat \ {0} /\ OffsetUnit \in Nat \ {0}
  BY LoadsAssumption, WidthsAssumption
<1> HIDE DEF q
<1>2. q # 0
  BY <1>1
<1>3. n % q \in 0..(q - 1)
  BY <1>1, <1>2
<1> DEFINE x == n % q
<1> HIDE DEF x
<1>4. x \in Nat /\ x <= q - 1
  BY <1>1, <1>2, <1>3 DEF x
<1>5. x * OffsetUnit <= (q - 1) * OffsetUnit
  BY <1>1, <1>2, <1>4
<1>6. (q - 1) * OffsetUnit = q * OffsetUnit - OffsetUnit /\ x * OffsetUnit \in Nat
  BY <1>1, <1>4
<1> QED BY <1>1, <1>5, <1>6 DEF x, q

PieceOf(f, off) == [off |-> off, len |-> f.len, of |-> f.of, from |-> f.from, at |-> now]
Below(node, off) == {i \in 1..Len(node.frags) : node.frags[i].off <= off}

\* ip_reassemble_insert_fragment keeps the type of the node and puts the piece
\* behind those with no greater offset.
LEMMA Inserting ==
  ASSUME now \in Nat \ {0}, NEW node \in Nodes, NEW f, FragmentOK(f),
         NEW off \in 0..(LenMod - 1), NEW new, new = Inserted(node, f, off),
         NEW p, p = Cardinality(Below(node, off))
  PROVE  /\ new \in Nodes /\ p \in 0..Len(node.frags) /\ Len(node.frags) \in Nat
         /\ Len(new.frags) = Len(node.frags) + 1
         /\ \A i \in 1..Len(new.frags) :
              new.frags[i] = IF i <= p THEN node.frags[i]
                             ELSE IF i = p + 1 THEN PieceOf(f, off) ELSE node.frags[i - 1]
<1>1. node.frags \in Seq(Pieces) /\ node.total_len \in 0..(LenMod - 1)
      /\ node.has_last_fragment \in BOOLEAN
  BY DEF Nodes
<1>2. Len(node.frags) \in Nat
  BY <1>1
<1>3. p \in 0..Len(node.frags)
  <2>1. Below(node, off) \in SUBSET (1..Len(node.frags))
    BY DEF Below
  <2> QED BY <1>2, <2>1, PlaceInside
<1>4. PieceOf(f, off) \in Pieces
  BY DEF PieceOf, Pieces, FragmentOK
<1>5. InsertOf(node.frags, p, PieceOf(f, off), new.frags)
  BY DEF Inserted, PieceOf, Below, InsertOf
<1>6. /\ new.frags \in Seq(Pieces) /\ Len(new.frags) = Len(node.frags) + 1
      /\ \A i \in 1..Len(new.frags) :
              new.frags[i] = IF i <= p THEN node.frags[i]
                             ELSE IF i = p + 1 THEN PieceOf(f, off) ELSE node.frags[i - 1]
  <2>1. node.frags \in Seq(Pieces)
    BY <1>1
  <2> QED BY ONLY <2>1, <1>3, <1>4, <1>5, InsertEffect
<1>7. /\ new = [frags |-> new.frags, total_len |-> new.total_len,
                has_last_fragment |-> new.has_last_fragment]
      /\ new.total_len = IF f.mf THEN node.total_len ELSE (off + f.len) % LenMod
      /\ new.has_last_fragment = (node.has_last_fragment \/ ~ f.mf)
  BY DEF Inserted
<1>8. new.total_len \in 0..(LenMod - 1)
  <2>1. (off + f.len) % LenMod \in 0..(LenMod - 1)
    BY WidthsAssumption DEF FragmentOK
  <2> QED BY <1>1, <1>7, <2>1
<1>9. new.has_last_fragment \in BOOLEAN
  BY <1>7, Zenon
<1>10. new \in Nodes
  BY ONLY <1>6, <1>7, <1>8, <1>9 DEF Nodes
<1> QED BY <1>2, <1>3, <1>6, <1>10

LEMMA EmptyTyped == WidthsAssumption => EmptyNode \in Nodes
  BY DEF WidthsAssumption, EmptyNode, Nodes

\* The slot a fragment is put in: the one its key has, or an empty one.
Start(key, s) ==
  \/ MapHas(ip_reassemble_map, key, now) /\ s = SlotOf(ip_reassemble_map, key, now)
  \/ s = Entry(key, EmptyNode, now)

LEMMA StartGood ==
  ASSUME Inv, NEW key \in Keys, NEW s, Start(key, s)
  PROVE  /\ s.val \in Nodes /\ s.time \in 1..now /\ s.time + FragTimeout >= now
         /\ s.key = key /\ SlotGood(s)
<1>0. /\ now \in Nat \ {0} /\ MapInv(ip_reassemble_map, Keys, Nodes, now)
      /\ ip_reassemble_map.timeout = FragTimeout
  BY DEF Inv, TypeOK, NodesInv
<1>1. CASE MapHas(ip_reassemble_map, key, now) /\ s = SlotOf(ip_reassemble_map, key, now)
  <2>1. MapTyped(ip_reassemble_map, Keys, Nodes, now)
    BY <1>0 DEF MapInv
  <2>2. /\ s.key = key /\ s.val \in Nodes /\ s.time \in 1..now
        /\ ip_reassemble_map.timeout = 0 \/ s.time + ip_reassemble_map.timeout >= now
    BY ONLY <1>0, <1>1, <2>1, SlotFilled
  <2>3. SlotGood(s)
    BY <1>1 DEF Inv, NodesInv
  <2> QED BY <1>0, <2>2, <2>3, ReassemblyAssumption
<1>2. CASE s = Entry(key, EmptyNode, now)
  <2>1. s.key = key /\ s.val = EmptyNode /\ s.time = now
    BY <1>2 DEF Entry
  <2>2. EmptyNode.frags = <<>> /\ EmptyNode \in Nodes
    BY EmptyTyped, WidthsAssumption DEF EmptyNode
  <2>3. SlotGood(s)
    BY <2>1, <2>2, ReassemblyAssumption DEF SlotGood
  <2> QED BY <1>0, <2>1, <2>2, <2>3, ReassemblyAssumption
<1> QED BY <1>1, <1>2 DEF Start

\* ip_reassemble_get_node: the map is well formed, the other keys are as before,
\* and the key has its slot of before or an empty one.
LEMMA GetNode ==
  ASSUME Inv, NEW key \in Keys, NEW m, m = ip_reassemble_get_node(key)
  PROVE  /\ MapInv(m, Keys, Nodes, now) /\ m.max = NodeSlots /\ m.timeout = FragTimeout
         /\ Others(Keys, {key}, ip_reassemble_map, m, now)
         /\ MapHas(m, key, now) => Start(key, SlotOf(m, key, now))
<1>0. /\ now \in Nat \ {0} /\ MapInv(ip_reassemble_map, Keys, Nodes, now)
      /\ ip_reassemble_map.max = NodeSlots /\ ip_reassemble_map.timeout = FragTimeout
      /\ EmptyNode \in Nodes
  BY EmptyTyped, WidthsAssumption DEF Inv, TypeOK, NodesInv
<1>1. CASE MapHas(ip_reassemble_map, key, now)
  <2>1. m = ip_reassemble_map
    BY <1>1 DEF ip_reassemble_get_node
  <2> QED BY <1>0, <1>1, <2>1 DEF Others, SameFor, Start
<1>2. CASE ~ MapHas(ip_reassemble_map, key, now)
  <2>1. AfterSet(ip_reassemble_map, key, EmptyNode, now, m)
    BY <1>2 DEF ip_reassemble_get_node, AfterSet
  <2>2. /\ Kept(Keys, Nodes, ip_reassemble_map, m, now)
        /\ Others(Keys, {key}, ip_reassemble_map, m, now)
    BY ONLY <1>0, <2>1, key \in Keys, MapSetEffect
  <2>3. MapHas(m, key, now) => SlotOf(m, key, now) = Entry(key, EmptyNode, now)
    <3> HAVE MapHas(m, key, now)
    <3> QED BY ONLY <1>0, <2>1, key \in Keys, MapHas(m, key, now), SetShows
  <2> QED BY <1>0, <2>2, <2>3 DEF Kept, Start
<1> QED BY <1>1, <1>2

\* A node that took a fragment.
Grown(key, f, off, s, new) ==
  /\ Start(key, s) /\ Room(s.val) /\ ~ Duplicate(s.val, off, f.len)
  /\ new = Inserted(s.val, f, off)

\* What a complete node hands up.
HandsUp(src, node) ==
  HandUp(src, Merged(node), node.total_len, [i \in 1..Len(node.frags) |-> node.frags[i].at])

\* ip_in of a fragment leaves each slot as it was, empty, or grown by the
\* fragment, and hands up nothing or the pieces of a grown node.
LEMMA FragmentEffect ==
  ASSUME Inv, NEW f \in net, ip_in_fragment(f),
         NEW key, key = <<f.src, f.id>>, NEW off, off = OffOf(f)
  PROVE  /\ key \in Keys /\ off \in 0..(LenMod - 1) /\ FragmentOK(f)
         /\ now' = now /\ next_id' = next_id /\ sent' = sent /\ net' = net
         /\ MapInv(ip_reassemble_map', Keys, Nodes, now)
         /\ ip_reassemble_map'.max = NodeSlots /\ ip_reassemble_map'.timeout = FragTimeout
         /\ \A q \in Keys : MapHas(ip_reassemble_map', q, now) =>
              \/ /\ MapHas(ip_reassemble_map, q, now)
                 /\ SlotOf(ip_reassemble_map', q, now) = SlotOf(ip_reassemble_map, q, now)
              \/ /\ q = key
                 /\ SlotOf(ip_reassemble_map', q, now) = Entry(key, EmptyNode, now)
              \/ /\ q = key
                 /\ \E s, new : /\ Grown(key, f, off, s, new)
                                /\ ~ ip_reassemble_is_complete(new)
                                /\ SlotOf(ip_reassemble_map', q, now) = Entry(key, new, s.time)
         /\ \/ up' = Nothing
            \/ \E s, new : /\ Grown(key, f, off, s, new)
                           /\ ip_reassemble_is_complete(new)
                           /\ HandsUp(f.src, new)
<1>0. /\ now \in Nat \ {0} /\ FragmentOK(f) /\ key \in Keys /\ off \in 0..(LenMod - 1)
      /\ now' = now /\ next_id' = next_id /\ sent' = sent /\ net' = net
  <2>1. /\ now \in Nat \ {0} /\ FragmentOK(f)
        /\ now' = now /\ next_id' = next_id /\ sent' = sent /\ net' = net
    BY DEF Inv, TypeOK, ip_in_fragment
  <2>2. off \in 0..(LenMod - 1)
    BY <2>1, OffTyped DEF OffOf, FragmentOK
  <2> QED BY <2>1, <2>2 DEF FragmentOK, Keys
<1>1. PICK m : m = ip_reassemble_get_node(key)
  OBVIOUS
<1>2. /\ MapInv(m, Keys, Nodes, now) /\ m.max = NodeSlots /\ m.timeout = FragTimeout
      /\ Others(Keys, {key}, ip_reassemble_map, m, now)
      /\ MapHas(m, key, now) => Start(key, SlotOf(m, key, now))
  BY ONLY <1>0, <1>1, Inv, GetNode
<1>3. PICK node, new : node = MapGet(m, key, now) /\ new = Inserted(node, f, off)
  OBVIOUS
<1>4. IF ~ MapHas(m, key, now) \/ ~ Room(node) \/ Duplicate(node, off, f.len)
      THEN ip_reassemble_map' = m /\ up' = Nothing
      ELSE IF ip_reassemble_is_complete(new)
      THEN /\ ip_reassemble_map' = MapDelete(m, key, now)
           /\ HandUp(f.src, Merged(new), new.total_len,
                     [i \in 1..Len(new.frags) |-> new.frags[i].at])
      ELSE /\ ip_reassemble_map' = MapRevise(m, key, new, now)
           /\ up' = Nothing
  BY <1>1, <1>3 DEF ip_in_fragment, OffOf
<1>5. \A q \in Keys : q # key /\ MapHas(m, q, now) =>
        /\ MapHas(ip_reassemble_map, q, now)
        /\ SlotOf(m, q, now) = SlotOf(ip_reassemble_map, q, now)
  BY <1>2 DEF Others, SameFor, SlotOf
<1>6. CASE ~ MapHas(m, key, now) \/ ~ Room(node) \/ Duplicate(node, off, f.len)
  <2>1. ip_reassemble_map' = m /\ up' = Nothing
    BY <1>4, <1>6
  <2>2. MapHas(m, key, now) =>
          \/ /\ MapHas(ip_reassemble_map, key, now)
             /\ SlotOf(m, key, now) = SlotOf(ip_reassemble_map, key, now)
          \/ SlotOf(m, key, now) = Entry(key, EmptyNode, now)
    BY <1>2 DEF Start
  <2> QED BY <1>0, <1>2, <1>5, <2>1, <2>2
<1>7. CASE MapHas(m, key, now) /\ Room(node) /\ ~ Duplicate(node, off, f.len)
  <2> DEFINE s == SlotOf(m, key, now)
  <2>1. Start(key, s) /\ node = s.val
    BY <1>2, <1>3, <1>7 DEF MapGet, SlotOf
  <2>2. Grown(key, f, off, s, new)
    BY <1>3, <1>7, <2>1 DEF Grown
  <2>3. new \in Nodes
    <3>1. s.val \in Nodes
      BY <1>0, <2>1, StartGood
    <3> QED BY ONLY <1>0, <1>3, <2>1, <3>1, Inserting
  <2>4. CASE ip_reassemble_is_complete(new)
    <3>1. /\ AfterDelete(m, key, now, ip_reassemble_map')
          /\ HandsUp(f.src, new)
      BY <1>4, <1>7, <2>4 DEF AfterDelete, HandsUp
    <3>2. /\ Kept(Keys, Nodes, m, ip_reassemble_map', now)
          /\ ~ MapHas(ip_reassemble_map', key, now)
          /\ Others(Keys, {key}, m, ip_reassemble_map', now)
      BY ONLY <1>0, <1>2, <3>1, MapDeleteEffect
    <3>3. \A q \in Keys : q # key /\ MapHas(ip_reassemble_map', q, now) =>
            MapHas(m, q, now) /\ SlotOf(ip_reassemble_map', q, now) = SlotOf(m, q, now)
      BY <3>2 DEF Others, SameFor, SlotOf
    <3> HIDE DEF s
    <3>4. \A q \in Keys : MapHas(ip_reassemble_map', q, now) =>
            /\ MapHas(ip_reassemble_map, q, now)
            /\ SlotOf(ip_reassemble_map', q, now) = SlotOf(ip_reassemble_map, q, now)
      BY <1>5, <3>2, <3>3
    <3> QED BY ONLY <1>0, <1>2, <2>2, <2>4, <3>1, <3>2, <3>4 DEF Kept
  <2>5. CASE ~ ip_reassemble_is_complete(new)
    <3>1. AfterRevise(m, key, new, now, ip_reassemble_map') /\ up' = Nothing
      BY <1>4, <1>7, <2>5 DEF AfterRevise
    <3>2. /\ Kept(Keys, Nodes, m, ip_reassemble_map', now)
          /\ Stores(ip_reassemble_map', key, Entry(key, new, s.time), now)
          /\ Others(Keys, {key}, m, ip_reassemble_map', now)
      <4>1. MapHas(m, key, now)
        BY <1>7
      <4> QED BY ONLY <1>0, <1>2, <2>3, <3>1, <4>1, MapReviseEffect DEF SlotOf
    <3>3. \A q \in Keys : q # key /\ MapHas(ip_reassemble_map', q, now) =>
            MapHas(m, q, now) /\ SlotOf(ip_reassemble_map', q, now) = SlotOf(m, q, now)
      BY <3>2 DEF Others, SameFor, SlotOf
    <3>4. SlotOf(ip_reassemble_map', key, now) = Entry(key, new, s.time)
      BY <3>2 DEF Stores, SlotOf
    <3> HIDE DEF s
    <3>5. \A q \in Keys : q # key /\ MapHas(ip_reassemble_map', q, now) =>
            /\ MapHas(ip_reassemble_map, q, now)
            /\ SlotOf(ip_reassemble_map', q, now) = SlotOf(ip_reassemble_map, q, now)
      BY <1>5, <3>3
    <3> QED BY ONLY <1>0, <1>2, <2>2, <2>5, <3>1, <3>2, <3>4, <3>5 DEF Kept
  <2> QED BY <2>4, <2>5
<1> QED BY <1>6, <1>7

LEMMA GrownGood ==
  ASSUME Inv, NEW key \in Keys, NEW f, FragmentOK(f), NEW off \in 0..(LenMod - 1),
         NEW s, NEW new, Grown(key, f, off, s, new)
  PROVE  /\ new \in Nodes /\ s.time \in 1..now /\ s.time + FragTimeout >= now
         /\ Len(new.frags) \in Nat /\ Len(new.frags) <= MaxFragments
         /\ \A i \in 1..Len(new.frags) :
              new.frags[i].at \in 1..now /\ new.frags[i].at >= s.time
         /\ SlotGood(Entry(key, new, s.time))
<1>0. now \in Nat \ {0} /\ MaxFragments \in Nat \ {0}
  BY ReassemblyAssumption DEF Inv, TypeOK
<1>1. /\ s.val \in Nodes /\ s.time \in 1..now /\ s.time + FragTimeout >= now /\ SlotGood(s)
  BY StartGood DEF Grown
<1>2. new = Inserted(s.val, f, off) /\ Len(s.val.frags) < MaxFragments
  BY DEF Grown, Room
<1>3. PICK p : p = Cardinality(Below(s.val, off))
  OBVIOUS
<1>4. /\ new \in Nodes /\ p \in 0..Len(s.val.frags) /\ Len(s.val.frags) \in Nat
      /\ Len(new.frags) = Len(s.val.frags) + 1
      /\ \A i \in 1..Len(new.frags) :
           new.frags[i] = IF i <= p THEN s.val.frags[i]
                          ELSE IF i = p + 1 THEN PieceOf(f, off) ELSE s.val.frags[i - 1]
  <2>1. s.val \in Nodes
    BY <1>1
  <2>2. new = Inserted(s.val, f, off) /\ now \in Nat \ {0}
    BY <1>0, <1>2
  <2>3. PICK node : node = s.val
    OBVIOUS
  <2>4. /\ node \in Nodes /\ new = Inserted(node, f, off) /\ now \in Nat \ {0}
        /\ p = Cardinality(Below(node, off))
    BY ONLY <1>3, <2>1, <2>2, <2>3
  <2>5. /\ new \in Nodes /\ p \in 0..Len(node.frags) /\ Len(node.frags) \in Nat
        /\ Len(new.frags) = Len(node.frags) + 1
        /\ \A i \in 1..Len(new.frags) :
             new.frags[i] = IF i <= p THEN node.frags[i]
                            ELSE IF i = p + 1 THEN PieceOf(f, off) ELSE node.frags[i - 1]
    BY ONLY <2>4, FragmentOK(f), off \in 0..(LenMod - 1), Inserting
  <2> QED
    BY ONLY <2>3, <2>5
<1>5. ASSUME NEW i \in 1..Len(new.frags)
      PROVE  new.frags[i].at \in 1..now /\ new.frags[i].at >= s.time
  <2>1. new.frags[i] \in Pieces
    <3>1. new.frags \in Seq(Pieces)
      BY <1>4 DEF Nodes
    <3> QED BY ONLY <3>1, i \in 1..Len(new.frags), LenProperties
  <2>2. CASE i <= p
    <3>1. i \in 1..Len(s.val.frags)
      BY <1>4, <2>2
    <3> QED BY <1>1, <1>4, <2>1, <2>2, <3>1 DEF SlotGood, Pieces
  <2>3. CASE i = p + 1
    BY <1>0, <1>1, <1>4, <2>1, <2>3 DEF PieceOf, Pieces
  <2>4. CASE i > p + 1
    <3>1. i - 1 \in 1..Len(s.val.frags) /\ new.frags[i] = s.val.frags[i - 1]
      BY <1>4, <2>4
    <3> QED BY <1>1, <2>1, <3>1 DEF SlotGood, Pieces
  <2> QED BY <1>4, <2>2, <2>3, <2>4
<1>6. Len(new.frags) \in Nat /\ Len(new.frags) <= MaxFragments
  BY <1>0, <1>2, <1>4
<1>7. SlotGood(Entry(key, new, s.time))
  BY <1>5, <1>6 DEF SlotGood, Entry
<1> QED BY <1>1, <1>4, <1>5, <1>6, <1>7

-----------------------------------------------------------------------------
(* The actions *)

\* What a fragment of a datagram says.
LEMMA FragmentSays ==
  ASSUME NEW p, NEW len \in Nat, NEW load \in Loads, NEW d,
         NEW f \in Fragments(p, len, load, d)
  PROVE  /\ f.src = p /\ f.id = next_id[p] /\ f.of = d /\ f.mf \in BOOLEAN
         /\ f.from \in Nat /\ f.field \in Nat /\ f.len \in Nat
<1>1. load \in Nat \ {0} /\ OffsetUnit \in Nat \ {0}
  BY LoadsAssumption
<1> DEFINE full == FullFragments(len, load)
<1>2. full \in Nat /\ full * load \in Nat /\ full * load <= len
  <2>1. CASE len = 0
    BY <1>1, <2>1 DEF FullFragments
  <2>2. CASE len # 0
    <3>1. len - 1 \in Nat
      BY <2>2
    <3> DEFINE l == len - 1
    <3>2. (l \div load) \in Nat /\ (l \div load) * load \in Nat /\ (l \div load) * load <= l
      <4> HIDE DEF l
      <4>1. l \in Nat
        BY <3>1 DEF l
      <4> QED BY <1>1, <4>1
    <3>3. full = l \div load /\ l <= len
      BY <2>2 DEF FullFragments
    <3> HIDE DEF l, full
    <3>4. l \in Nat
      BY <3>1 DEF l
    <3> QED BY <3>2, <3>3, <3>4
  <2> QED BY <2>1, <2>2
<1>3. PICK i \in 0..full :
        f = [src |-> p, id |-> next_id[p], field |-> i * (load \div OffsetUnit), mf |-> i < full,
             len |-> IF i < full THEN load ELSE len - full * load,
             of |-> d, from |-> i * load]
  BY DEF Fragments
<1>4. /\ f.src = p /\ f.id = next_id[p] /\ f.of = d
      /\ f.field = i * (load \div OffsetUnit) /\ f.from = i * load
      /\ f.len = IF i < full THEN load ELSE len - full * load
  BY <1>3
<1>5. f.mf \in BOOLEAN
  BY <1>3
<1> HIDE DEF full
<1>6. (load \div OffsetUnit) \in Nat /\ i \in Nat
  BY <1>1, <1>2
<1>7. f.field \in Nat /\ f.from \in Nat
  BY <1>1, <1>4, <1>6
<1> QED BY <1>1, <1>2, <1>4, <1>5, <1>7

LEMMA InitInv == Init => Inv
<1> SUFFICES ASSUME Init PROVE Inv
  OBVIOUS
<1>1. now = 1 /\ sent = <<>> /\ net = {} /\ up = Nothing
  BY DEF Init
<1>2. next_id \in [Peers -> 0..(IdMod - 1)]
  BY WidthsAssumption DEF Init
<1>3. /\ MapInv(ip_reassemble_map, Keys, Nodes, 1)
      /\ ip_reassemble_map.max = NodeSlots /\ ip_reassemble_map.timeout = FragTimeout
      /\ \A k : ~ MapHas(ip_reassemble_map, k, 1)
  <2>1. ip_reassemble_map = MapInit(NodeSlots, FragTimeout) /\ FragTimeout \in Nat
        /\ NodeSlots \in Nat \ {0}
    BY ReassemblyAssumption DEF Init
  <2> QED BY ONLY <2>1, NewMap
<1> QED BY <1>1, <1>2, <1>3 DEF Inv, TypeOK, NodesInv, UpFits, FreshPieces

\* More time, or more datagrams: what was a node is one.
LEMMA NodesGrow ==
  ASSUME now \in Nat, Len(sent) \in Nat, now' \in Nat, Len(sent') \in Nat,
         now <= now', Len(sent) <= Len(sent')
  PROVE  Nodes \subseteq Nodes'
<1>1. Pieces \subseteq Pieces'
  BY DEF Pieces
<1>2. Seq(Pieces) \subseteq Seq(Pieces')
  BY <1>1
<1> QED BY <1>2 DEF Nodes

LEMMA SendInv ==
  ASSUME Inv, NEW p \in Peers, NEW len \in Lens, NEW load \in Loads, ip_out(p, len, load)
  PROVE  Inv'
<1>0. /\ now \in Nat \ {0} /\ now' = now /\ up' = Nothing
      /\ ip_reassemble_map' = ip_reassemble_map
      /\ sent \in Seq([src : Peers, len : Nat]) /\ len \in Nat
      /\ sent' = Append(sent, [src |-> p, len |-> len])
      /\ next_id \in [Peers -> 0..(IdMod - 1)]
      /\ next_id' = [next_id EXCEPT ![p] = (@ + 1) % IdMod]
      /\ net' = net \cup Fragments(p, len, load, Len(sent) + 1)
  BY LoadsAssumption DEF ip_out, Inv, TypeOK
<1>1. Len(sent) \in Nat /\ Len(sent') = Len(sent) + 1 /\ sent' \in Seq([src : Peers, len : Nat])
  BY <1>0
<1>2. next_id' \in [Peers -> 0..(IdMod - 1)]
  BY <1>0, WidthsAssumption
<1>3. MapInv(ip_reassemble_map, Keys, Nodes', now)
  <2>1. Nodes \subseteq Nodes'
    BY <1>0, <1>1, NodesGrow
  <2>2. MapInv(ip_reassemble_map, Keys, Nodes, now)
    BY DEF Inv, TypeOK
  <2> QED BY ONLY <2>1, <2>2, MapWidens
<1>4. TypeOK'
  BY <1>0, <1>1, <1>2, <1>3 DEF TypeOK, Keys
<1>5. ASSUME NEW f \in net' PROVE FragmentOK(f)'
  <2>1. CASE f \in net
    BY <1>1, <2>1 DEF Inv, FragmentOK
  <2>2. CASE f \in Fragments(p, len, load, Len(sent) + 1)
    <3>1. /\ f.src = p /\ f.id = next_id[p] /\ f.of = Len(sent) + 1 /\ f.mf \in BOOLEAN
          /\ f.from \in Nat /\ f.field \in Nat /\ f.len \in Nat
      BY ONLY <1>0, <2>2, load \in Loads, FragmentSays
    <3>2. next_id[p] \in 0..(IdMod - 1)
      BY <1>0
    <3> QED BY <1>1, <3>1, <3>2 DEF FragmentOK
  <2> QED BY <1>0, <2>1, <2>2
<1>6. NodesInv'
  BY <1>0 DEF Inv, NodesInv, Keys
<1> QED BY <1>0, <1>4, <1>5, <1>6 DEF Inv, UpFits, FreshPieces

LEMMA WholeInv ==
  ASSUME Inv, NEW f \in net, ip_in_whole(f)
  PROVE  Inv'
<1>1. /\ now' = now /\ next_id' = next_id /\ sent' = sent /\ net' = net
      /\ ip_reassemble_map' = ip_reassemble_map /\ up'.ats = <<now>>
  BY DEF ip_in_whole, HandUp
<1>2. now \in Nat
  BY DEF Inv, TypeOK
<1>3. Len(up'.ats) = 1 /\ up'.ats[1] = now
  BY <1>1
<1>4. UpFits' /\ FreshPieces'
  BY <1>1, <1>2, <1>3, ReassemblyAssumption DEF UpFits, FreshPieces
<1> QED BY <1>1, <1>4 DEF Inv, TypeOK, NodesInv, FragmentOK, Nodes, Pieces

LEMMA FragmentInv ==
  ASSUME Inv, NEW f \in net, ip_in_fragment(f)
  PROVE  Inv'
<1>1. PICK key, off : key = <<f.src, f.id>> /\ off = OffOf(f)
  OBVIOUS
<1>2. /\ key \in Keys /\ off \in 0..(LenMod - 1) /\ FragmentOK(f)
      /\ now' = now /\ next_id' = next_id /\ sent' = sent /\ net' = net
      /\ MapInv(ip_reassemble_map', Keys, Nodes, now)
      /\ ip_reassemble_map'.max = NodeSlots /\ ip_reassemble_map'.timeout = FragTimeout
      /\ \A q \in Keys : MapHas(ip_reassemble_map', q, now) =>
              \/ /\ MapHas(ip_reassemble_map, q, now)
                 /\ SlotOf(ip_reassemble_map', q, now) = SlotOf(ip_reassemble_map, q, now)
              \/ /\ q = key
                 /\ SlotOf(ip_reassemble_map', q, now) = Entry(key, EmptyNode, now)
              \/ /\ q = key
                 /\ \E s, new : /\ Grown(key, f, off, s, new)
                                /\ SlotOf(ip_reassemble_map', q, now) = Entry(key, new, s.time)
      /\ \/ up' = Nothing
         \/ \E s, new : Grown(key, f, off, s, new) /\ HandsUp(f.src, new)
  BY ONLY <1>1, Inv, f \in net, ip_in_fragment(f), FragmentEffect
<1>3. /\ now \in Nat \ {0} /\ FragTimeout \in Nat /\ MaxFragments \in Nat
  BY ReassemblyAssumption DEF Inv, TypeOK
<1>4. \A s, new : Grown(key, f, off, s, new) =>
        /\ s.time \in 1..now /\ s.time + FragTimeout >= now
        /\ Len(new.frags) \in Nat /\ Len(new.frags) <= MaxFragments
        /\ \A i \in 1..Len(new.frags) :
             new.frags[i].at \in 1..now /\ new.frags[i].at >= s.time
        /\ SlotGood(Entry(key, new, s.time))
  BY <1>2, GrownGood
<1>5. SlotGood(Entry(key, EmptyNode, now))
  BY <1>2, StartGood DEF Start
<1>6. NodesInv'
  <2> SUFFICES ASSUME NEW q \in Keys, MapHas(ip_reassemble_map', q, now)
               PROVE  SlotGood(SlotOf(ip_reassemble_map', q, now))
    BY <1>2 DEF NodesInv, SlotGood
  <2>1. CASE /\ MapHas(ip_reassemble_map, q, now)
             /\ SlotOf(ip_reassemble_map', q, now) = SlotOf(ip_reassemble_map, q, now)
    BY <2>1 DEF Inv, NodesInv
  <2>2. CASE SlotOf(ip_reassemble_map', q, now) = Entry(key, EmptyNode, now)
    BY <1>5, <2>2
  <2>3. CASE \E s, new : /\ Grown(key, f, off, s, new)
                         /\ SlotOf(ip_reassemble_map', q, now) = Entry(key, new, s.time)
    <3>1. PICK s, new : /\ Grown(key, f, off, s, new)
                        /\ SlotOf(ip_reassemble_map', q, now) = Entry(key, new, s.time)
      BY <2>3
    <3> QED BY <1>4, <3>1
  <2> QED BY <1>2, <2>1, <2>2, <2>3
<1>7. UpFits' /\ FreshPieces'
  <2>1. CASE up' = Nothing
    BY <2>1 DEF UpFits, FreshPieces
  <2>2. CASE \E s, new : Grown(key, f, off, s, new) /\ HandsUp(f.src, new)
    <3>1. PICK s, new : /\ Grown(key, f, off, s, new)
                        /\ up'.ats = [i \in 1..Len(new.frags) |-> new.frags[i].at]
      BY <2>2 DEF HandsUp, HandUp
    <3>2. PICK n \in Nat : n = Len(new.frags) /\ n <= MaxFragments
      BY <1>4, <3>1
    <3>3. /\ s.time \in 1..now /\ s.time + FragTimeout >= now
          /\ \A i \in 1..n : new.frags[i].at \in 1..now /\ new.frags[i].at >= s.time
      BY <1>4, <3>1, <3>2
    <3>4. up'.ats = [i \in 1..n |-> new.frags[i].at]
      BY <3>1, <3>2
    <3>5. Len(up'.ats) = n /\ \A i \in 1..n : up'.ats[i] = new.frags[i].at
      BY <3>2, <3>4
    <3>6. \A i \in 1..n : now <= up'.ats[i] + FragTimeout
      BY <1>3, <3>3, <3>5
    <3> QED BY <1>2, <3>2, <3>5, <3>6 DEF UpFits, FreshPieces
  <2> QED BY <1>2, <2>1, <2>2
<1>8. TypeOK'
  BY <1>2 DEF Inv, TypeOK, Nodes, Pieces
<1>9. \A g \in net' : FragmentOK(g)'
  BY <1>2 DEF Inv, FragmentOK
<1> QED BY <1>6, <1>7, <1>8, <1>9 DEF Inv

\* Time only takes nodes away.
LEMMA TickInv ==
  ASSUME Inv, Tick
  PROVE  Inv'
<1>0. /\ now \in Nat \ {0} /\ now' = now + 1 /\ up' = Nothing
      /\ next_id' = next_id /\ sent' = sent /\ net' = net
      /\ ip_reassemble_map' = ip_reassemble_map
      /\ Len(sent) \in Nat
      /\ MapInv(ip_reassemble_map, Keys, Nodes, now)
  BY DEF Tick, Inv, TypeOK
<1>1. MapInv(ip_reassemble_map, Keys, Nodes, now + 1)
  BY ONLY <1>0, MapLaterEffect
<1>2. MapInv(ip_reassemble_map, Keys, Nodes', now + 1)
  <2>1. Nodes \subseteq Nodes'
    BY <1>0, NodesGrow
  <2> QED BY ONLY <1>1, <2>1, MapWidens
<1>3. \A k \in Keys : MapHas(ip_reassemble_map, k, now + 1) =>
        /\ MapHas(ip_reassemble_map, k, now)
        /\ SlotOf(ip_reassemble_map, k, now) = SlotOf(ip_reassemble_map, k, now + 1)
  BY ONLY <1>0, LaterSlot
<1>4. NodesInv'
  BY <1>0, <1>3 DEF Inv, NodesInv, SlotGood, Keys
<1>5. TypeOK'
  BY <1>0, <1>2 DEF Inv, TypeOK, Keys
<1> QED BY <1>0, <1>4, <1>5 DEF Inv, FragmentOK, UpFits, FreshPieces

LEMMA NextInv == Inv /\ [Next]_vars => Inv'
<1> SUFFICES ASSUME Inv, [Next]_vars PROVE Inv'
  OBVIOUS
<1>1. CASE Send
  BY <1>1, SendInv DEF Send
<1>2. CASE Receive
  BY <1>2, WholeInv, FragmentInv DEF Receive
<1>3. CASE Tick
  BY <1>3, TickInv
<1>4. CASE UNCHANGED vars
  BY <1>4 DEF vars, Inv, TypeOK, NodesInv, SlotGood, FragmentOK, Nodes, Pieces, UpFits, FreshPieces
<1> QED BY <1>1, <1>2, <1>3, <1>4 DEF Next

-----------------------------------------------------------------------------

\* The nodes keep their type, an array of fragments is never overrun, and a
\* piece is never older than the stamp of its node.
THEOREM Invariance == Spec => []Inv
<1>1. Init => Inv
  BY InitInv
<1>2. Inv /\ [Next]_vars => Inv'
  BY NextInv
<1> QED BY <1>1, <1>2, PTL DEF Spec

\* Type correctness of reassembly.
THEOREM TypeCorrect == Spec => []TypeOK
<1>1. Inv => TypeOK
  BY DEF Inv
<1> QED BY <1>1, Invariance, PTL

\* The pieces of what is handed up arrived within IP_FRAG_TIMEOUT_SEC of each
\* other, for any peers, lengths, limits and order of arrival.
THEOREM PiecesFresh == Spec => []FreshPieces
<1>1. Inv => FreshPieces
  BY DEF Inv
<1> QED BY <1>1, Invariance, PTL

-----------------------------------------------------------------------------
(* Order, while ids last *)

\* No peer sends as many datagrams as there are ids, and none is longer than the
\* width of an offset allows.
IdsLast == MaxSends \in Nat /\ MaxSends <= IdMod /\ Lens \subseteq 0..LenMod

\* While more may be sent, the ids on the network are below the next one.
IdsInv ==
  /\ Len(sent) <= MaxSends
  /\ \A p \in Peers : next_id[p] <= Len(sent)
  /\ Len(sent) < MaxSends => \A f \in net : f.id < next_id[f.src]

\* Fragments of one id and offset have one length.
OneCut ==
  \A f, g \in net : f.src = g.src /\ f.id = g.id /\ OffOf(f) = OffOf(g) => f.len = g.len

Ordered(frags) == \A i, j \in 1..Len(frags) : i < j => frags[i].off < frags[j].off
FromNet(key, frags) ==
  \A i \in 1..Len(frags) : \E g \in net :
    /\ g.src = key[1] /\ g.id = key[2]
    /\ OffOf(g) = frags[i].off /\ g.len = frags[i].len
SlotOrdered(key, s) == Ordered(s.val.frags) /\ FromNet(key, s.val.frags)

NodesOrdered ==
  \A k \in Keys : MapHas(ip_reassemble_map, k, now) =>
    SlotOrdered(k, SlotOf(ip_reassemble_map, k, now))

\* The inductive invariant of the order.
OrderInv == Inv /\ IdsInv /\ OneCut /\ NodesOrdered

\* A piece of a new offset goes between the smaller and the greater ones.
LEMMA InsertOrdered ==
  ASSUME now \in Nat \ {0}, NEW node \in Nodes, NEW f, FragmentOK(f),
         NEW off \in 0..(LenMod - 1), NEW new, new = Inserted(node, f, off),
         Ordered(node.frags),
         \A i \in 1..Len(node.frags) : node.frags[i].off # off
  PROVE  Ordered(new.frags)
<1>1. PICK p : p = Cardinality(Below(node, off))
  OBVIOUS
<1>i. /\ p \in 0..Len(node.frags) /\ Len(node.frags) \in Nat
      /\ Len(new.frags) = Len(node.frags) + 1
      /\ \A i \in 1..Len(new.frags) :
              new.frags[i] = IF i <= p THEN node.frags[i]
                             ELSE IF i = p + 1 THEN PieceOf(f, off) ELSE node.frags[i - 1]
  BY ONLY <1>1, now \in Nat \ {0}, node \in Nodes, FragmentOK(f), off \in 0..(LenMod - 1),
          new = Inserted(node, f, off), Inserting
<1> DEFINE n == Len(node.frags)
<1>2. /\ p \in 0..n /\ n \in Nat /\ Len(new.frags) = n + 1
      /\ \A i \in 1..Len(new.frags) :
              new.frags[i] = IF i <= p THEN node.frags[i]
                             ELSE IF i = p + 1 THEN PieceOf(f, off) ELSE node.frags[i - 1]
  BY <1>i
<1>3. \A i \in 1..n : node.frags[i].off \in Nat
  <2>1. node.frags \in Seq(Pieces)
    BY DEF Nodes
  <2>2. \A i \in 1..n : node.frags[i] \in Pieces
    BY ONLY <2>1, LenProperties
  <2> QED BY ONLY <2>2, WidthsAssumption DEF Pieces
<1>4. Below(node, off) = 1..p
  <2>1. Below(node, off) \in SUBSET (1..n)
    BY DEF Below
  <2>2. \A j \in Below(node, off) : \A i \in 1..n : i < j => i \in Below(node, off)
    BY <1>3 DEF Below, Ordered
  <2> QED BY ONLY <1>1, <1>2, <2>1, <2>2, Prefix
<1>5. \A i \in 1..n : IF i <= p THEN node.frags[i].off < off ELSE off < node.frags[i].off
  <2> SUFFICES ASSUME NEW i \in 1..n
               PROVE  IF i <= p THEN node.frags[i].off < off ELSE off < node.frags[i].off
    OBVIOUS
  <2>1. i \in Below(node, off) <=> node.frags[i].off <= off
    BY DEF Below
  <2>2. i \in Below(node, off) <=> i <= p
    BY <1>2, <1>4
  <2>3. node.frags[i].off \in Nat /\ node.frags[i].off # off /\ off \in Nat
    BY <1>3, WidthsAssumption
  <2> QED BY ONLY <2>1, <2>2, <2>3
<1>6. \A i, j \in 1..n : i < j => node.frags[i].off < node.frags[j].off
  BY DEF Ordered
<1>7. PieceOf(f, off).off = off
  BY DEF PieceOf
<1> HIDE DEF n
<1>8. ASSUME NEW i \in 1..Len(new.frags), NEW j \in 1..Len(new.frags), i < j
      PROVE  new.frags[i].off < new.frags[j].off
  <2>1. i \in 1..(n + 1) /\ j \in 1..(n + 1) /\ i < j
    BY <1>2, <1>8
  <2>2. CASE j <= p
    <3>1. new.frags[i] = node.frags[i] /\ new.frags[j] = node.frags[j] /\ i \in 1..n /\ j \in 1..n
      BY <1>2, <2>1, <2>2
    <3> QED BY ONLY <1>6, <2>1, <3>1
  <2>3. CASE j = p + 1
    <3>1. /\ new.frags[i] = node.frags[i] /\ new.frags[j] = PieceOf(f, off)
          /\ i \in 1..n /\ i <= p
      BY <1>2, <2>1, <2>3
    <3> QED BY ONLY <1>5, <1>7, <3>1
  <2>4. CASE i = p + 1
    <3>1. /\ new.frags[i] = PieceOf(f, off) /\ new.frags[j] = node.frags[j - 1]
          /\ j - 1 \in 1..n /\ ~ (j - 1 <= p)
      BY <1>2, <2>1, <2>4
    <3> QED BY ONLY <1>5, <1>7, <3>1
  <2>5. CASE i <= p /\ j > p + 1
    <3>1. /\ new.frags[i] = node.frags[i] /\ new.frags[j] = node.frags[j - 1]
          /\ i \in 1..n /\ j - 1 \in 1..n /\ i < j - 1
      BY <1>2, <2>1, <2>5
    <3> QED BY ONLY <1>6, <3>1
  <2>6. CASE i > p + 1
    <3>1. /\ new.frags[i] = node.frags[i - 1] /\ new.frags[j] = node.frags[j - 1]
          /\ i - 1 \in 1..n /\ j - 1 \in 1..n /\ i - 1 < j - 1
      BY <1>2, <2>1, <2>6
    <3> QED BY ONLY <1>6, <3>1
  <2> QED BY <1>2, <2>1, <2>2, <2>3, <2>4, <2>5, <2>6
<1> QED BY <1>8 DEF Ordered

LEMMA StartOrdered ==
  ASSUME OrderInv, NEW key \in Keys, NEW s, Start(key, s)
  PROVE  SlotOrdered(key, s)
<1>1. CASE MapHas(ip_reassemble_map, key, now) /\ s = SlotOf(ip_reassemble_map, key, now)
  BY <1>1 DEF OrderInv, NodesOrdered
<1>2. CASE s = Entry(key, EmptyNode, now)
  <2>1. s.val.frags = <<>>
    BY <1>2 DEF Entry, EmptyNode
  <2> QED BY <2>1 DEF SlotOrdered, Ordered, FromNet
<1> QED BY <1>1, <1>2 DEF Start

LEMMA GrownOrdered ==
  ASSUME OrderInv, NEW f \in net, FragmentOK(f), NEW key \in Keys, key = <<f.src, f.id>>,
         NEW off \in 0..(LenMod - 1), off = OffOf(f),
         NEW s, NEW new, Grown(key, f, off, s, new)
  PROVE  SlotOrdered(key, Entry(key, new, s.time))
<1> DEFINE node == s.val
<1>0. now \in Nat \ {0} /\ key[1] = f.src /\ key[2] = f.id
  BY DEF OrderInv, Inv, TypeOK
<1>1. Start(key, s) /\ ~ Duplicate(node, off, f.len) /\ new = Inserted(node, f, off)
  BY DEF Grown
<1>2. node \in Nodes /\ Ordered(node.frags) /\ FromNet(key, node.frags)
  BY <1>1, StartGood, StartOrdered DEF OrderInv, SlotOrdered
<1>3. \A i \in 1..Len(node.frags) : node.frags[i].off # off
  <2> SUFFICES ASSUME NEW i \in 1..Len(node.frags), node.frags[i].off = off
               PROVE  FALSE
    OBVIOUS
  <2>1. PICK g \in net : /\ g.src = f.src /\ g.id = f.id
                         /\ OffOf(g) = off /\ g.len = node.frags[i].len
    BY <1>0, <1>2 DEF FromNet
  <2>2. g.len = f.len
    BY <2>1 DEF OrderInv, OneCut
  <2> QED BY <1>1, <2>1, <2>2 DEF Duplicate
<1> HIDE DEF node
<1>4. Ordered(new.frags)
  <2>1. new = Inserted(node, f, off) /\ node \in Nodes /\ Ordered(node.frags)
    BY <1>1, <1>2
  <2> QED BY <1>0, <1>3, <2>1, InsertOrdered
<1>5. FromNet(key, new.frags)
  <2>1. PICK p : p = Cardinality(Below(node, off))
    OBVIOUS
  <2>2. /\ p \in 0..Len(node.frags) /\ Len(node.frags) \in Nat
        /\ Len(new.frags) = Len(node.frags) + 1
        /\ \A i \in 1..Len(new.frags) :
              new.frags[i] = IF i <= p THEN node.frags[i]
                             ELSE IF i = p + 1 THEN PieceOf(f, off) ELSE node.frags[i - 1]
    <3>1. /\ now \in Nat \ {0} /\ node \in Nodes /\ new = Inserted(node, f, off)
          /\ p = Cardinality(Below(node, off))
      BY <1>0, <1>1, <1>2, <2>1
    <3> QED BY ONLY <3>1, FragmentOK(f), off \in 0..(LenMod - 1), Inserting
  <2>3. PieceOf(f, off).off = off /\ PieceOf(f, off).len = f.len
    BY DEF PieceOf
  <2> SUFFICES ASSUME NEW i \in 1..Len(new.frags)
               PROVE  \E g \in net : /\ g.src = key[1] /\ g.id = key[2]
                                     /\ OffOf(g) = new.frags[i].off /\ g.len = new.frags[i].len
    BY DEF FromNet
  <2>4. CASE i <= p
    <3>1. new.frags[i] = node.frags[i] /\ i \in 1..Len(node.frags)
      BY <2>2, <2>4
    <3> QED BY <1>2, <3>1 DEF FromNet
  <2>5. CASE i = p + 1
    <3>1. new.frags[i] = PieceOf(f, off)
      BY <2>2, <2>5
    <3> QED BY <1>0, <2>3, <3>1
  <2>6. CASE i > p + 1
    <3>1. new.frags[i] = node.frags[i - 1] /\ i - 1 \in 1..Len(node.frags)
      BY <2>2, <2>6
    <3> QED BY <1>2, <3>1 DEF FromNet
  <2> QED BY <2>2, <2>4, <2>5, <2>6
<1> QED BY <1>4, <1>5 DEF SlotOrdered, Entry

-----------------------------------------------------------------------------
(* The actions, for the order *)

\* The number of full fragments, and where they end.
LEMMA FullSays ==
  ASSUME NEW len \in Nat, NEW load \in Nat \ {0}, NEW full, full = FullFragments(len, load)
  PROVE  /\ full \in Nat /\ full * load \in Nat
         /\ len = 0 => full = 0
         /\ len # 0 => full * load < len
<1>1. CASE len = 0
  BY <1>1 DEF FullFragments
<1>2. CASE len # 0
  <2>1. PICK l \in Nat : l = len - 1
    BY <1>2
  <2>2. (l \div load) \in Nat /\ (l \div load) * load <= l
    OBVIOUS
  <2>3. full = l \div load
    BY <1>2, <2>1 DEF FullFragments
  <2>4. full \in Nat /\ full * load \in Nat /\ full * load <= l
    BY <2>2, <2>3
  <2> QED BY ONLY <1>2, <2>1, <2>4
<1> QED BY <1>1, <1>2

\* The fragment with number i of a datagram, whose offset travels whole.
CutAt(f, i, len, load, d) ==
  LET full == FullFragments(len, load) IN
  /\ i \in 0..full /\ i * load \in Nat /\ i * load < LenMod
  /\ f.from = i * load /\ OffOf(f) = i * load
  /\ f.len = IF i < full THEN load ELSE len - full * load
  /\ f.mf = (i < full) /\ (i = 0 => f.field = 0) /\ f.of = d

LEMMA Cuts ==
  ASSUME IdsLast, NEW p, NEW len \in Lens, NEW load \in Loads, NEW d,
         NEW f \in Fragments(p, len, load, d)
  PROVE  \E i \in Nat : CutAt(f, i, len, load, d)
<1> DEFINE full == FullFragments(len, load)
           units == load \div OffsetUnit
           q == LenMod \div OffsetUnit
<1>1. /\ load \in Nat \ {0} /\ OffsetUnit \in Nat \ {0} /\ len \in Nat
      /\ LenMod \in Nat \ {0} /\ len <= LenMod
  BY LoadsAssumption, WidthsAssumption DEF IdsLast
<1>2. load = units * OffsetUnit /\ units \in Nat \ {0}
  <2>1. load % OffsetUnit = 0
    BY LoadsAssumption
  <2>2. units \in Nat /\ load = units * OffsetUnit
    BY ONLY <1>1, <2>1
  <2> QED BY <1>1, <2>2
<1>3. LenMod = q * OffsetUnit /\ q \in Nat
  BY WidthsAssumption, LoadsAssumption
<1>4. full \in Nat /\ full * load \in Nat /\ full * load < LenMod
  <2>1. /\ full \in Nat /\ full * load \in Nat
        /\ len = 0 => full = 0
        /\ len # 0 => full * load < len
    BY ONLY <1>1, FullSays
  <2> HIDE DEF full
  <2>2. len = 0 => full * load = 0
    BY <1>1, <2>1
  <2> QED BY <1>1, <2>1, <2>2
<1>5. PICK i \in 0..full :
        f = [src |-> p, id |-> next_id[p], field |-> i * units, mf |-> i < full,
             len |-> IF i < full THEN load ELSE len - full * load,
             of |-> d, from |-> i * load]
  BY DEF Fragments
<1>6. /\ f.field = i * units /\ f.len = (IF i < full THEN load ELSE len - full * load)
      /\ f.of = d /\ f.from = i * load
  BY <1>5
<1>7. f.mf = (i < full)
  BY <1>5
<1> HIDE DEF units, q, full
<1>8. i \in Nat /\ i * load \in Nat /\ i * load < LenMod
  <2>1. i \in Nat /\ i * load <= full * load
    BY <1>1, <1>4
  <2>2. i * load \in Nat
    BY <1>1, <2>1
  <2> QED BY <1>1, <1>4, <2>1, <2>2
<1>9. OffOf(f) = i * load
  <2>1. i * units \in Nat /\ (i * units) * OffsetUnit = i * load
    BY <1>1, <1>2, <1>8
  <2>2. PICK u \in Nat : u = i * units
    BY <2>1
  <2>3. u * OffsetUnit = i * load
    BY <2>1, <2>2
  <2>4. u < q
    <3>1. PICK x \in Nat : x = i * load
      BY <1>8
    <3>2. u * OffsetUnit < q * OffsetUnit
      BY <1>3, <1>8, <2>3, <3>1
    <3> QED BY ONLY <1>1, <1>3, <3>2, u \in Nat
  <2>5. u % q = u
    BY ONLY <1>3, <2>4, u \in Nat
  <2>6. OffOf(f) = (u % q) * OffsetUnit
    BY <1>6, <2>2 DEF OffOf, q
  <2> QED BY <2>3, <2>5, <2>6
<1>10. i = 0 => f.field = 0
  BY <1>2, <1>6
<1>11. CutAt(f, i, len, load, d)
  BY <1>6, <1>7, <1>8, <1>9, <1>10 DEF CutAt, full
<1> QED BY <1>8, <1>11

\* The offsets of one datagram travel whole, so fragments of equal offset are one.
LEMMA CutOnce ==
  ASSUME IdsLast, NEW p, NEW len \in Lens, NEW load \in Loads, NEW d,
         NEW f \in Fragments(p, len, load, d), NEW g \in Fragments(p, len, load, d),
         OffOf(f) = OffOf(g)
  PROVE  f.len = g.len
<1>1. load \in Nat \ {0}
  BY LoadsAssumption
<1>2. PICK i \in Nat, j \in Nat : CutAt(f, i, len, load, d) /\ CutAt(g, j, len, load, d)
  BY Cuts
<1>3. i * load = j * load
  BY <1>2 DEF CutAt
<1>4. i = j
  BY ONLY <1>1, <1>3, i \in Nat, j \in Nat
<1> QED BY <1>2, <1>4 DEF CutAt

LEMMA OrderInit == IdsLast /\ Init => OrderInv
<1> SUFFICES ASSUME IdsLast, Init PROVE OrderInv
  OBVIOUS
<1>1. Inv
  BY InitInv
<1>2. sent = <<>> /\ net = {} /\ \A p \in Peers : next_id[p] = 0
  BY DEF Init
<1>3. IdsInv /\ OneCut
  BY <1>2 DEF IdsLast, IdsInv, OneCut
<1>4. \A k : ~ MapHas(ip_reassemble_map, k, now)
  <2>1. ip_reassemble_map = MapInit(NodeSlots, FragTimeout) /\ FragTimeout \in Nat
        /\ NodeSlots \in Nat \ {0} /\ now = 1
    BY ReassemblyAssumption DEF Init
  <2> QED BY ONLY <2>1, NewMap
<1> QED BY <1>1, <1>3, <1>4 DEF OrderInv, NodesOrdered

LEMMA SendOrder ==
  ASSUME IdsLast, OrderInv, Len(sent) < MaxSends,
         NEW p \in Peers, NEW len \in Lens, NEW load \in Loads, ip_out(p, len, load)
  PROVE  OrderInv'
<1>0. /\ now' = now /\ ip_reassemble_map' = ip_reassemble_map
      /\ sent \in Seq([src : Peers, len : Nat]) /\ len \in Nat
      /\ sent' = Append(sent, [src |-> p, len |-> len])
      /\ next_id \in [Peers -> 0..(IdMod - 1)]
      /\ next_id' = [next_id EXCEPT ![p] = (@ + 1) % IdMod]
      /\ net' = net \cup Fragments(p, len, load, Len(sent) + 1)
  BY LoadsAssumption DEF ip_out, OrderInv, Inv, TypeOK
<1>1. Inv'
  BY SendInv DEF OrderInv
<1>2. Len(sent) \in Nat /\ Len(sent') = Len(sent) + 1
  BY <1>0
<1>3. \A f \in Fragments(p, len, load, Len(sent) + 1) : f.src = p /\ f.id = next_id[p]
  BY ONLY <1>0, load \in Loads, FragmentSays
<1>4. \A f \in net : f.src \in Peers /\ f.id \in Nat /\ f.id < next_id[f.src]
  BY WidthsAssumption DEF OrderInv, IdsInv, Inv, FragmentOK
<1>5. /\ next_id[p] \in Nat /\ next_id[p] <= Len(sent)
      /\ next_id'[p] = (next_id[p] + 1) % IdMod
      /\ \A r \in Peers : r # p => next_id'[r] = next_id[r]
  BY <1>0, WidthsAssumption DEF OrderInv, IdsInv
<1>6. /\ next_id'[p] <= Len(sent')
      /\ Len(sent') < MaxSends => next_id'[p] = next_id[p] + 1
  <2>1. IdMod \in Nat \ {0} /\ MaxSends \in Nat /\ MaxSends <= IdMod
    BY WidthsAssumption DEF IdsLast
  <2>2. CASE next_id[p] + 1 < IdMod
    <3>1. (next_id[p] + 1) % IdMod = next_id[p] + 1
      BY <1>5, <2>1, <2>2
    <3> QED BY <1>2, <1>5, <3>1
  <2>3. CASE next_id[p] + 1 >= IdMod
    <3>1. next_id[p] + 1 = IdMod
      BY <1>0, <1>5, <2>1, <2>3
    <3>2. (next_id[p] + 1) % IdMod = 0
      BY <2>1, <3>1
    <3> QED BY <1>2, <1>5, <2>1, <2>3, <3>2
  <2> QED BY <1>5, <2>1, <2>2, <2>3
<1>7. IdsInv'
  <2>1. Len(sent') <= MaxSends
    BY <1>2 DEF IdsLast
  <2>2. \A r \in Peers : next_id'[r] <= Len(sent')
    <3> SUFFICES ASSUME NEW r \in Peers, r # p PROVE next_id'[r] <= Len(sent')
      BY <1>6
    <3>1. next_id[r] <= Len(sent) /\ next_id[r] \in Nat
      BY <1>0, WidthsAssumption DEF OrderInv, IdsInv
    <3> QED BY <1>2, <1>5, <3>1
  <2>3. ASSUME Len(sent') < MaxSends, NEW f \in net'
        PROVE  f.id < next_id'[f.src]
    <3>1. CASE f \in net
      BY <1>4, <1>5, <1>6, <2>3, <3>1
    <3>2. CASE f \in Fragments(p, len, load, Len(sent) + 1)
      BY <1>3, <1>5, <1>6, <2>3, <3>2
    <3> QED BY <1>0, <2>3, <3>1, <3>2
  <2> QED BY <2>1, <2>2, <2>3 DEF IdsInv
<1>8. OneCut'
  <2> SUFFICES ASSUME NEW f \in net', NEW g \in net',
                      f.src = g.src, f.id = g.id, OffOf(f) = OffOf(g)
               PROVE  f.len = g.len
    BY DEF OneCut, OffOf
  <2> DEFINE F == Fragments(p, len, load, Len(sent) + 1)
  <2>1. CASE f \in net /\ g \in net
    BY <2>1 DEF OrderInv, OneCut
  <2>2. CASE f \in F /\ g \in F
    BY <2>2, CutOnce
  <2>3. CASE f \in net /\ g \in F
    BY <1>3, <1>4, <1>5, <2>3
  <2>4. CASE f \in F /\ g \in net
    BY <1>3, <1>4, <1>5, <2>4
  <2> QED BY <1>0, <2>1, <2>2, <2>3, <2>4
<1>9. NodesOrdered'
  <2> SUFFICES ASSUME NEW k \in Keys, MapHas(ip_reassemble_map, k, now)
               PROVE  SlotOrdered(k, SlotOf(ip_reassemble_map, k, now))'
    BY <1>0 DEF NodesOrdered, Keys
  <2>1. SlotOrdered(k, SlotOf(ip_reassemble_map, k, now))
    BY DEF OrderInv, NodesOrdered
  <2> QED BY <1>0, <2>1 DEF SlotOrdered, Ordered, FromNet, OffOf
<1> QED BY <1>1, <1>7, <1>8, <1>9 DEF OrderInv

LEMMA FragmentOrder ==
  ASSUME OrderInv, NEW f \in net, ip_in_fragment(f)
  PROVE  OrderInv'
<1>0. Inv /\ Inv'
  BY FragmentInv DEF OrderInv
<1>1. PICK key, off : key = <<f.src, f.id>> /\ off = OffOf(f)
  OBVIOUS
<1>2. /\ key \in Keys /\ off \in 0..(LenMod - 1) /\ FragmentOK(f)
      /\ now' = now /\ next_id' = next_id /\ sent' = sent /\ net' = net
      /\ \A q \in Keys : MapHas(ip_reassemble_map', q, now) =>
              \/ /\ MapHas(ip_reassemble_map, q, now)
                 /\ SlotOf(ip_reassemble_map', q, now) = SlotOf(ip_reassemble_map, q, now)
              \/ /\ q = key
                 /\ SlotOf(ip_reassemble_map', q, now) = Entry(key, EmptyNode, now)
              \/ /\ q = key
                 /\ \E s, new : /\ Grown(key, f, off, s, new)
                                /\ SlotOf(ip_reassemble_map', q, now) = Entry(key, new, s.time)
  BY ONLY <1>0, <1>1, f \in net, ip_in_fragment(f), FragmentEffect
<1>3. IdsInv' /\ OneCut'
  BY <1>2 DEF OrderInv, IdsInv, OneCut, OffOf
<1>4. SlotOrdered(key, Entry(key, EmptyNode, now))
  BY <1>2, StartOrdered DEF Start
<1>5. \A s, new : Grown(key, f, off, s, new) => SlotOrdered(key, Entry(key, new, s.time))
  BY <1>1, <1>2, GrownOrdered
<1>6. ASSUME NEW q \in Keys, MapHas(ip_reassemble_map', q, now)
      PROVE  SlotOrdered(q, SlotOf(ip_reassemble_map', q, now))
  <2>1. CASE /\ MapHas(ip_reassemble_map, q, now)
             /\ SlotOf(ip_reassemble_map', q, now) = SlotOf(ip_reassemble_map, q, now)
    BY <2>1 DEF OrderInv, NodesOrdered
  <2>2. CASE q = key /\ SlotOf(ip_reassemble_map', q, now) = Entry(key, EmptyNode, now)
    BY <1>4, <2>2
  <2>3. CASE /\ q = key
             /\ \E s, new : /\ Grown(key, f, off, s, new)
                            /\ SlotOf(ip_reassemble_map', q, now) = Entry(key, new, s.time)
    BY <1>5, <2>3
  <2> QED BY <1>2, <1>6, <2>1, <2>2, <2>3
<1>7. NodesOrdered'
  BY <1>2, <1>6 DEF NodesOrdered, SlotOrdered, Ordered, FromNet, OffOf, Keys
<1> QED BY <1>0, <1>3, <1>7 DEF OrderInv

LEMMA OrderNext == IdsLast /\ OrderInv /\ [Next]_vars => OrderInv'
<1> SUFFICES ASSUME IdsLast, OrderInv, [Next]_vars PROVE OrderInv'
  OBVIOUS
<1>0. Inv /\ Inv'
  BY NextInv DEF OrderInv
<1>1. CASE Send
  BY <1>1, SendOrder DEF Send
<1>2. ASSUME NEW f \in net, ip_in_fragment(f) PROVE OrderInv'
  BY <1>2, FragmentOrder
<1>3. ASSUME NEW f \in net, ip_in_whole(f) PROVE OrderInv'
  BY <1>0, <1>3 DEF ip_in_whole, OrderInv, IdsInv, OneCut, NodesOrdered, SlotOrdered,
                    FromNet, OffOf, Keys
<1>4. CASE Tick
  <2>1. /\ now' = now + 1 /\ next_id' = next_id /\ sent' = sent /\ net' = net
        /\ ip_reassemble_map' = ip_reassemble_map
        /\ now \in Nat \ {0} /\ MapInv(ip_reassemble_map, Keys, Nodes, now)
    BY <1>0, <1>4 DEF Tick, Inv, TypeOK
  <2>2. \A k \in Keys : MapHas(ip_reassemble_map, k, now + 1) =>
          /\ MapHas(ip_reassemble_map, k, now)
          /\ SlotOf(ip_reassemble_map, k, now) = SlotOf(ip_reassemble_map, k, now + 1)
    BY ONLY <2>1, LaterSlot
  <2>3. NodesOrdered'
    BY <2>1, <2>2 DEF OrderInv, NodesOrdered, SlotOrdered, FromNet, OffOf, Keys
  <2>4. IdsInv' /\ OneCut'
    BY <2>1 DEF OrderInv, IdsInv, OneCut, OffOf
  <2> QED BY <1>0, <2>3, <2>4 DEF OrderInv
<1>5. CASE UNCHANGED vars
  BY <1>0, <1>5 DEF vars, OrderInv, IdsInv, OneCut, NodesOrdered, SlotOrdered,
                    FromNet, OffOf, Keys
<1> QED BY <1>1, <1>2, <1>3, <1>4, <1>5 DEF Next, Receive

LEMMA OrderShows == OrderInv => NodesInOrder
<1> SUFFICES ASSUME OrderInv PROVE NodesInOrder
  OBVIOUS
<1>1. up # Nothing => Len(up.ats) <= MaxFragments
  BY DEF OrderInv, Inv, UpFits
<1>2. ASSUME NEW node \in LiveNodes
      PROVE  /\ Len(node.frags) <= MaxFragments
             /\ \A i \in 1..(Len(node.frags) - 1) : node.frags[i].off < node.frags[i + 1].off
  <2>1. PICK k \in Keys : /\ MapHas(ip_reassemble_map, k, now)
                          /\ node = MapGet(ip_reassemble_map, k, now)
    BY DEF LiveNodes
  <2>2. PICK s : s = SlotOf(ip_reassemble_map, k, now)
    OBVIOUS
  <2>3. node = s.val /\ SlotGood(s) /\ SlotOrdered(k, s) /\ Start(k, s)
    BY <2>1, <2>2 DEF MapGet, SlotOf, OrderInv, NodesOrdered, Inv, NodesInv, Start
  <2>4. Len(node.frags) \in Nat
    <3>1. s.val \in Nodes
      BY <2>3, StartGood DEF OrderInv
    <3> QED BY <2>3, <3>1 DEF Nodes
  <2> QED BY <2>3, <2>4 DEF SlotGood, SlotOrdered, Ordered
<1> QED BY <1>1, <1>2 DEF NodesInOrder

\* While no peer runs out of ids and no datagram is longer than offsets reach, the
\* fragments of a node are distinct and sorted and fit their array, whatever the
\* order, loss and repetition.
THEOREM OrderKept ==
  ASSUME IdsLast
  PROVE  Spec => []NodesInOrder
<1>1. Init => OrderInv
  BY OrderInit
<1>2. OrderInv /\ [Next]_vars => OrderInv'
  BY OrderNext
<1>3. OrderInv => NodesInOrder
  BY OrderShows
<1> QED BY <1>1, <1>2, <1>3, PTL DEF Spec

-----------------------------------------------------------------------------
(* What a complete node holds *)

\* Payloads are also shorter than what a uint16_t holds.
LensFit == IdsLast /\ LenMod \notin Lens

\* A fragment on the network against the datagram it was cut from.
CutOK(g) ==
  /\ g.src = sent[g.of].src /\ OffOf(g) = g.from
  /\ g.from + g.len <= sent[g.of].len /\ sent[g.of].len < LenMod
  /\ ~ g.mf <=> g.from + g.len = sent[g.of].len
  /\ g.mf \/ g.field # 0 => g.len > 0

\* Fragments of one id are of one datagram and do not overlap.
Apart ==
  \A f, g \in net : f.src = g.src /\ f.id = g.id =>
    f.of = g.of /\ (f.from < g.from => f.from + f.len <= g.from)

NetCut == Apart /\ \A g \in net : CutOK(g)

LEMMA CutSays ==
  ASSUME LensFit, NEW len \in Lens, NEW load \in Loads, NEW d, NEW f, NEW i \in Nat,
         CutAt(f, i, len, load, d)
  PROVE  /\ f.len \in Nat /\ f.from \in Nat /\ f.from + f.len <= len /\ len < LenMod
         /\ ~ f.mf <=> f.from + f.len = len
         /\ f.mf \/ f.field # 0 => f.len > 0
<1>1. /\ load \in Nat \ {0} /\ len \in Nat /\ LenMod \in Nat /\ len < LenMod
  BY LoadsAssumption, WidthsAssumption DEF LensFit, IdsLast
<1>2. PICK full : full = FullFragments(len, load)
  OBVIOUS
<1>3. /\ full \in Nat /\ full * load \in Nat
      /\ len = 0 => full = 0
      /\ len # 0 => full * load < len
  BY ONLY <1>1, <1>2, FullSays
<1>4. /\ i \in 0..full /\ i * load \in Nat /\ f.from = i * load
      /\ f.len = IF i < full THEN load ELSE len - full * load
      /\ f.mf = (i < full) /\ (i = 0 => f.field = 0)
  BY <1>2 DEF CutAt
<1>5. PICK e \in Nat : e = full * load
  BY <1>3
<1>6. PICK o \in Nat : o = i * load
  BY <1>4
<1>7. CASE i < full
  <2>1. len # 0
    BY <1>3, <1>7
  <2>2. o + load <= e
    <3>1. (i + 1) * load = i * load + load /\ (i + 1) * load <= full * load
      BY ONLY <1>1, <1>3, <1>7, i \in Nat
    <3> QED BY <1>1, <1>5, <1>6, <3>1
  <2>3. f.mf /\ f.len = load /\ f.from = o
    BY <1>4, <1>6, <1>7
  <2> QED BY ONLY <1>1, <1>3, <1>5, <2>1, <2>2, <2>3, o \in Nat, e \in Nat
<1>8. CASE ~ (i < full)
  <2>1. i = full
    BY <1>3, <1>4, <1>8
  <2>2. ~ f.mf /\ f.len = len - e /\ f.from = e
    BY <1>4, <1>5, <1>8, <2>1
  <2>3. len = 0 => e = 0
    BY <1>1, <1>3, <1>5
  <2>4. f.field # 0 => len # 0
    BY <1>3, <1>4, <2>1
  <2> QED BY ONLY <1>1, <1>3, <1>5, <2>2, <2>3, <2>4, e \in Nat
<1> QED BY <1>7, <1>8

LEMMA CutsApart ==
  ASSUME NEW len \in Lens, NEW load \in Loads, NEW d, NEW f, NEW g, NEW i \in Nat, NEW j \in Nat,
         CutAt(f, i, len, load, d), CutAt(g, j, len, load, d), f.from < g.from
  PROVE  f.from + f.len <= g.from
<1>1. /\ load \in Nat \ {0} /\ len \in Nat
  BY LoadsAssumption
<1>2. PICK full : full = FullFragments(len, load)
  OBVIOUS
<1>3. full \in Nat
  BY ONLY <1>1, <1>2, FullSays
<1>4. /\ j <= full /\ f.from = i * load /\ g.from = j * load
      /\ f.len = IF i < full THEN load ELSE len - full * load
  BY <1>2 DEF CutAt
<1>5. i < j
  BY ONLY <1>1, <1>4, i \in Nat, j \in Nat, f.from < g.from
<1>6. (i + 1) * load = i * load + load /\ (i + 1) * load <= j * load
  BY ONLY <1>1, <1>5, i \in Nat, j \in Nat
<1>7. f.len = load
  BY <1>3, <1>4, <1>5
<1> QED BY <1>4, <1>6, <1>7

LEMMA SendCut ==
  ASSUME LensFit, OrderInv, NetCut, Len(sent) < MaxSends,
         NEW p \in Peers, NEW len \in Lens, NEW load \in Loads, ip_out(p, len, load)
  PROVE  NetCut'
<1>d. PICK d : d = Len(sent) + 1
  OBVIOUS
<1> DEFINE F == Fragments(p, len, load, d)
<1>0. /\ sent \in Seq([src : Peers, len : Nat]) /\ len \in Nat
      /\ sent' = Append(sent, [src |-> p, len |-> len])
      /\ net' = net \cup F
  BY <1>d, LoadsAssumption DEF ip_out, OrderInv, Inv, TypeOK
<1>1. /\ d \in Nat /\ Len(sent) \in Nat
      /\ \A e \in 1..Len(sent) : sent'[e] = sent[e]
      /\ sent'[d] = [src |-> p, len |-> len]
  BY <1>0, <1>d
<1>2. \A f \in net : /\ f.of \in 1..Len(sent) /\ f.src \in Peers
                     /\ f.id \in Nat /\ f.id < next_id[f.src]
  BY WidthsAssumption DEF OrderInv, IdsInv, Inv, FragmentOK
<1>3. \A f \in F : f.src = p /\ f.id = next_id[p] /\ f.of = d
  <2>1. \A f \in Fragments(p, len, load, d) : f.src = p /\ f.id = next_id[p] /\ f.of = d
    <3>1. len \in Nat
      BY <1>0
    <3> QED BY ONLY <3>1, load \in Loads, FragmentSays
  <2> QED BY <2>1
<1>4. IdsLast
  BY DEF LensFit
<1>5. \A f \in F : \E i \in Nat : CutAt(f, i, len, load, d)
  BY ONLY <1>4, len \in Lens, load \in Loads, Cuts
<1> HIDE DEF F
<1>6. ASSUME NEW g \in net' PROVE CutOK(g)'
  <2>1. CASE g \in net
    BY <1>1, <1>2, <2>1 DEF NetCut, CutOK, OffOf
  <2>2. CASE g \in F
    <3>1. PICK i \in Nat : CutAt(g, i, len, load, d)
      BY <1>5, <2>2
    <3>2. /\ g.len \in Nat /\ g.from \in Nat /\ g.from + g.len <= len /\ len < LenMod
          /\ ~ g.mf <=> g.from + g.len = len
          /\ g.mf \/ g.field # 0 => g.len > 0
      BY ONLY <3>1, LensFit, len \in Lens, load \in Loads, CutSays
    <3>3. sent'[g.of].src = p /\ sent'[g.of].len = len /\ g.src = p
      BY <1>1, <1>3, <2>2
    <3>4. OffOf(g) = g.from
      BY <3>1 DEF CutAt
    <3> QED BY <3>2, <3>3, <3>4 DEF CutOK, OffOf
  <2> QED BY <1>0, <2>1, <2>2
<1>7. ASSUME NEW f \in net', NEW g \in net', f.src = g.src, f.id = g.id
      PROVE  f.of = g.of /\ (f.from < g.from => f.from + f.len <= g.from)
  <2>1. CASE f \in net /\ g \in net
    BY <1>7, <2>1 DEF NetCut, Apart
  <2>2. CASE f \in F /\ g \in F
    <3>1. PICK i \in Nat, j \in Nat : CutAt(f, i, len, load, d) /\ CutAt(g, j, len, load, d)
      BY <1>5, <2>2
    <3>2. f.from < g.from => f.from + f.len <= g.from
      BY <3>1, CutsApart
    <3> QED BY <1>3, <2>2, <3>2
  <2>3. CASE f \in net /\ g \in F
    BY <1>2, <1>3, <1>7, <2>3
  <2>4. CASE f \in F /\ g \in net
    BY <1>2, <1>3, <1>7, <2>4
  <2> QED BY <1>0, <2>1, <2>2, <2>3, <2>4
<1> QED BY <1>6, <1>7 DEF NetCut, Apart

-----------------------------------------------------------------------------
(* The sums of the completeness check *)

\* s holds the sums of the first 0, 1, ..., m lengths.
Sums(frags, m, s) ==
  s = [n \in 0..m |-> IF n = 0 THEN 0 ELSE (s[n - 1] + frags[n].len) % LenMod]

\* Such sums exist: those of fewer lengths can be continued.
LEMMA SumsExist ==
  ASSUME NEW frags, NEW m \in Nat
  PROVE  \E s : Sums(frags, m, s)
<1> DEFINE bad == {n \in Nat : ~ \E s : Sums(frags, n, s)}
<1>1. SUFFICES ASSUME m \in bad PROVE FALSE
  OBVIOUS
<1>2. PICK k \in bad : \A n \in bad : k <= n
  <2>1. bad \subseteq Nat
    OBVIOUS
  <2> HIDE DEF bad
  <2>2. bad \in SUBSET Nat /\ bad # {}
    BY <1>1, <2>1
  <2> QED BY <2>2, LeastExists
<1>3. k # 0
  <2>1. Sums(frags, 0, [n \in {0} |-> 0])
    <3>1. 0..0 = {0}
      OBVIOUS
    <3> QED BY <3>1 DEF Sums
  <2> QED BY <2>1
<1>4. PICK s : Sums(frags, k - 1, s)
  BY <1>2, <1>3
<1> DEFINE t == [n \in 0..k |-> IF n = k THEN (s[k - 1] + frags[k].len) % LenMod ELSE s[n]]
<1>5. Sums(frags, k, t)
  <2>1. \A n \in 0..(k - 1) :
          s[n] = IF n = 0 THEN 0 ELSE (s[n - 1] + frags[n].len) % LenMod
    BY <1>4 DEF Sums
  <2>2. \A n \in 0..k :
          t[n] = IF n = 0 THEN 0 ELSE (t[n - 1] + frags[n].len) % LenMod
    BY <1>2, <1>3, <2>1
  <2>3. t = [n \in 0..k |-> t[n]]
    OBVIOUS
  <2> HIDE DEF t
  <2> QED BY <2>2, <2>3 DEF Sums
<1> QED BY <1>2, <1>5

\* So the recursive function of the model satisfies its equation.
LEMMA FilledIs ==
  ASSUME NEW frags, Len(frags) \in Nat
  PROVE  /\ Filled(frags)[0] = 0
         /\ \A n \in 1..Len(frags) :
              Filled(frags)[n] = (Filled(frags)[n - 1] + frags[n].len) % LenMod
<1>1. PICK s : Sums(frags, Len(frags), s)
  BY SumsExist
<1>2. Filled(frags) = CHOOSE t : Sums(frags, Len(frags), t)
  BY DEF Filled, Sums
<1>3. PICK t, m : m \in Nat /\ t = Filled(frags) /\ m = Len(frags) /\ Sums(frags, m, t)
  BY <1>1, <1>2
<1>4. \A n \in 0..m : t[n] = IF n = 0 THEN 0 ELSE (t[n - 1] + frags[n].len) % LenMod
  BY <1>3 DEF Sums
<1> QED BY <1>3, <1>4

\* Pieces of one payload of the given length, one behind the other.
Slices(frags, d, len) ==
  /\ Len(frags) \in Nat /\ len \in Nat /\ len < LenMod
  /\ \A i \in 1..Len(frags) :
       /\ frags[i].of = d /\ frags[i].from \in Nat /\ frags[i].off = frags[i].from
       /\ frags[i].len \in Nat \ {0} /\ frags[i].from + frags[i].len <= len
  /\ \A i, j \in 1..Len(frags) : i < j => frags[i].from + frags[i].len <= frags[j].from

\* A sum that reaches the end of a slice is the end of the slice.
LEMMA SliceEnds ==
  ASSUME NEW frags, NEW d, NEW len, Slices(frags, d, len), NEW i \in 1..Len(frags),
         Filled(frags)[i - 1] = frags[i].from
  PROVE  Filled(frags)[i] = frags[i].from + frags[i].len
<1>1. /\ Len(frags) \in Nat /\ len \in Nat /\ len < LenMod /\ LenMod \in Nat
      /\ frags[i].from \in Nat /\ frags[i].len \in Nat /\ frags[i].from + frags[i].len <= len
  BY WidthsAssumption DEF Slices
<1>2. Filled(frags)[i] = (frags[i].from + frags[i].len) % LenMod
  BY <1>1, FilledIs
<1>3. PICK e \in Nat : e = frags[i].from + frags[i].len
  BY <1>1
<1>4. e < LenMod
  BY <1>1, <1>3
<1>5. e % LenMod = e
  BY ONLY <1>4, e \in Nat, WidthsAssumption
<1> QED BY <1>2, <1>3, <1>5

\* What ip_reassemble_merge_fragments makes of slices without a gap.
LEMMA CompleteMerges ==
  ASSUME NEW node, NEW d, NEW len, Slices(node.frags, d, len), node.total_len = len,
         ip_reassemble_is_complete(node)
  PROVE  \A x \in 0..(len - 1) : Merged(node)[x] = <<d, x>>
<1> DEFINE frags == node.frags
           n == Len(frags)
           F == Filled(frags)
<1>1. /\ n \in Nat /\ len \in Nat
      /\ \A i \in 1..n : /\ frags[i].of = d /\ frags[i].from \in Nat
                         /\ frags[i].off = frags[i].from /\ frags[i].len \in Nat
  BY DEF Slices
<1>2. /\ \A i \in 1..n : frags[i].off = F[i - 1]
      /\ F[n] = len
  BY DEF ip_reassemble_is_complete
<1>3. F[0] = 0
  BY <1>1, FilledIs
<1>4. \A i \in 1..n : F[i - 1] = frags[i].from /\ F[i] = F[i - 1] + frags[i].len
  <2> SUFFICES ASSUME NEW i \in 1..n
               PROVE  F[i - 1] = frags[i].from /\ F[i] = F[i - 1] + frags[i].len
    OBVIOUS
  <2>1. F[i - 1] = frags[i].from
    BY <1>1, <1>2
  <2>2. Filled(frags)[i] = frags[i].from + frags[i].len
    BY <2>1, SliceEnds
  <2> QED BY <2>1, <2>2
<1> DEFINE writers(x) == {i \in 1..n : F[i - 1] <= x /\ x < F[i - 1] + frags[i].len}
           last(x) == CHOOSE i \in writers(x) : \A j \in writers(x) : j <= i
<1>5. \A x \in 0..(len - 1) :
        Merged(node)[x] = IF writers(x) = {} THEN Garbage
                          ELSE <<frags[last(x)].of, frags[last(x)].from + x - F[last(x) - 1]>>
  BY <1>2 DEF Merged, ip_reassemble_is_complete
<1> HIDE DEF frags, n, F
<1>6. ASSUME NEW x \in 0..(len - 1) PROVE writers(x) # {}
  <2> DEFINE past == {i \in 0..n : F[i] > x}
  <2>1. past \subseteq Nat /\ past # {}
    BY <1>1, <1>2
  <2>2. PICK i \in past : \A j \in past : i <= j
    <3> HIDE DEF past
    <3> QED BY <2>1, LeastExists
  <2>3. i # 0 /\ i \in 1..n
    BY <1>1, <1>3, <2>2
  <2>4. F[i - 1] <= x
    <3>1. i - 1 \in 0..n /\ i - 1 \notin past /\ F[i - 1] \in Nat
      BY <1>1, <1>4, <2>2, <2>3
    <3> QED BY <3>1
  <2>5. i \in writers(x)
    BY <1>4, <2>2, <2>3, <2>4
  <2> QED BY <2>5
<1>7. ASSUME NEW x \in 0..(len - 1)
      PROVE  \E i \in writers(x) : \A j \in writers(x) : j <= i
  <2> DEFINE W == writers(x)
             back == {m \in Nat : m <= n /\ n - m \in W}
  <2>1. W \subseteq 1..n /\ W # {}
    BY <1>6
  <2> HIDE DEF W
  <2>5. \A j \in W : n - j \in back
    BY <1>1, <2>1
  <2>2. back \subseteq Nat /\ back # {}
    BY <2>1, <2>5
  <2>3. PICK b \in back : \A c \in back : b <= c
    <3> HIDE DEF back
    <3> QED BY <2>2, LeastExists
  <2>4. PICK i \in W : b = n - i /\ b \in Nat
    BY <1>1, <2>3
  <2> HIDE DEF back
  <2>6. \A j \in W : j <= i
    <3> SUFFICES ASSUME NEW j \in W PROVE j <= i
      OBVIOUS
    <3>1. b <= n - j
      BY <2>3, <2>5
    <3>2. i \in Nat /\ j \in Nat
      BY <1>1, <2>1
    <3> QED BY <1>1, <2>4, <3>1, <3>2
  <2> QED BY <2>4, <2>6 DEF W
<1>8. ASSUME NEW x \in 0..(len - 1) PROVE Merged(node)[x] = <<d, x>>
  <2>1. PICK i : i = last(x)
    OBVIOUS
  <2>2. i \in writers(x)
    BY <1>7, <2>1
  <2>3. i \in 1..n /\ F[i - 1] = frags[i].from /\ frags[i].of = d /\ frags[i].from \in Nat
    BY <1>1, <1>4, <2>2
  <2>4. frags[i].from + x - F[i - 1] = x
    BY <1>1, <2>3
  <2> QED BY <1>5, <1>6, <2>1, <2>3, <2>4
<1> QED BY <1>8

\* Slices that leave no byte out leave no gap: the check sees that they are whole.
LEMMA CoversCompletes ==
  ASSUME NEW node, NEW d, NEW len, Slices(node.frags, d, len), len # 0,
         node.total_len = len, node.has_last_fragment,
         \A x \in 0..(len - 1) : \E i \in 1..Len(node.frags) :
           node.frags[i].from <= x /\ x < node.frags[i].from + node.frags[i].len
  PROVE  ip_reassemble_is_complete(node)
<1>1. PICK frags, n : frags = node.frags /\ n = Len(frags)
  OBVIOUS
<1>2. /\ n \in Nat /\ len \in Nat
      /\ \A i \in 1..n : /\ frags[i].from \in Nat /\ frags[i].off = frags[i].from
                         /\ frags[i].len \in Nat \ {0} /\ frags[i].from + frags[i].len <= len
      /\ \A i, j \in 1..n : i < j => frags[i].from + frags[i].len <= frags[j].from
  BY <1>1 DEF Slices
<1>3. \A x \in 0..(len - 1) : \E i \in 1..n :
        frags[i].from <= x /\ x < frags[i].from + frags[i].len
  BY <1>1
<1> DEFINE End(i) == IF i = 0 THEN 0 ELSE frags[i].from + frags[i].len
           F == Filled(frags)
<1>4. ASSUME NEW i \in 1..n PROVE frags[i].from = End(i - 1)
  <2>1. End(i - 1) \in Nat /\ End(i - 1) <= frags[i].from
    BY <1>2
  <2>2. SUFFICES ASSUME End(i - 1) < frags[i].from PROVE FALSE
    BY <1>2, <2>1
  <2>3. PICK x \in 0..(len - 1) : x = End(i - 1)
    BY <1>2, <2>1, <2>2
  <2>4. PICK j \in 1..n : frags[j].from <= x /\ x < frags[j].from + frags[j].len
    BY <1>3
  <2>5. CASE j >= i
    <3>1. frags[i].from <= frags[j].from
      BY <1>2, <2>5
    <3> QED BY <1>2, <2>2, <2>3, <2>4, <3>1
  <2>6. CASE j < i - 1
    <3>1. i - 1 \in 1..n /\ i - 1 # 0
      BY <1>2, <2>6
    <3>2. frags[j].from + frags[j].len <= frags[i - 1].from
      BY <1>2, <2>6, <3>1
    <3>3. PICK a \in Nat, l \in Nat \ {0} : a = frags[i - 1].from /\ l = frags[i - 1].len
      BY <1>2, <3>1
    <3>4. PICK b \in Nat : b = frags[j].from + frags[j].len
      BY <1>2
    <3>5. x = a + l /\ x < b /\ b <= a
      BY <2>3, <2>4, <3>1, <3>2, <3>3, <3>4
    <3> QED BY ONLY <3>5, a \in Nat, l \in Nat \ {0}, b \in Nat
  <2>7. CASE j = i - 1
    BY <1>2, <2>3, <2>4, <2>7
  <2> QED BY <1>2, <2>5, <2>6, <2>7
<1>5. F[0] = 0
  BY <1>1, <1>2, FilledIs
<1>6. ASSUME NEW i \in 1..n, F[i - 1] = frags[i].from
      PROVE  F[i] = End(i)
  <2>1. Slices(frags, d, len) /\ i \in 1..Len(frags)
    BY <1>1
  <2>2. Filled(frags)[i] = frags[i].from + frags[i].len
    BY <1>6, <2>1, SliceEnds
  <2> QED BY <1>2, <2>2
<1> HIDE DEF F
<1>7. \A i \in 1..n : F[i - 1] = frags[i].from
  <2> DEFINE bad == {i \in 1..n : F[i - 1] # frags[i].from}
  <2>1. SUFFICES ASSUME bad # {} PROVE FALSE
    OBVIOUS
  <2>2. PICK k \in bad : \A i \in bad : k <= i
    <3>1. bad \subseteq Nat
      OBVIOUS
    <3> HIDE DEF bad
    <3> QED BY <2>1, <3>1, LeastExists
  <2>3. k \in 1..n /\ F[k - 1] # frags[k].from
    BY <2>2
  <2>4. CASE k = 1
    BY <1>4, <1>5, <2>3, <2>4
  <2>5. CASE k # 1
    <3>1. k - 1 \in 1..n /\ k - 1 \notin bad
      BY <1>2, <2>2, <2>5
    <3>2. F[k - 1] = End(k - 1)
      BY <1>6, <3>1
    <3> QED BY <1>4, <2>3, <3>2
  <2> QED BY <2>4, <2>5
<1>8. F[n] = len
  <2>1. PICK j \in 1..n : frags[j].from <= len - 1 /\ len - 1 < frags[j].from + frags[j].len
    <3>1. len - 1 \in 0..(len - 1)
      BY <1>2
    <3> QED BY <1>3, <3>1
  <2>2. n \in 1..n
    BY <1>2
  <2>3. j = n
    <3>1. SUFFICES ASSUME j < n PROVE FALSE
      BY <1>2
    <3>2. frags[j].from + frags[j].len <= frags[n].from
      BY <1>2, <2>2, <3>1
    <3>3. PICK a \in Nat, l \in Nat \ {0} : a = frags[n].from /\ l = frags[n].len /\ a + l <= len
      BY <1>2, <2>2
    <3>4. PICK b \in Nat : b = frags[j].from + frags[j].len
      BY <1>2
    <3>5. len - 1 < b /\ b <= a /\ a + l <= len
      BY <2>1, <3>2, <3>3, <3>4
    <3> QED BY ONLY <1>2, <3>5, a \in Nat, l \in Nat \ {0}, b \in Nat
  <2>4. F[n] = frags[n].from + frags[n].len
    BY <1>2, <1>6, <1>7, <2>2
  <2>5. PICK b \in Nat : b = frags[n].from + frags[n].len
    BY <1>2, <2>2
  <2>6. b <= len /\ len - 1 < b
    BY <1>2, <2>1, <2>2, <2>3, <2>5
  <2> QED BY <1>2, <2>4, <2>5, <2>6
<1> QED BY <1>1, <1>2, <1>7, <1>8 DEF ip_reassemble_is_complete, F

-----------------------------------------------------------------------------
(* Nodes built of fragments *)

\* A piece is a fragment on the network, taken over as it is.
PieceCut(key, x) ==
  \E g \in net : /\ g.src = key[1] /\ g.id = key[2] /\ g.len > 0
                 /\ x.off = g.from /\ x.from = g.from /\ x.len = g.len /\ x.of = g.of
Ends(x) == x.from + x.len = sent[x.of].len

\* A node knows the length of its datagram exactly when it has its end.
Built(key, node) ==
  /\ \A i \in 1..Len(node.frags) : PieceCut(key, node.frags[i])
  /\ node.has_last_fragment <=> \E i \in 1..Len(node.frags) : Ends(node.frags[i])
  /\ \A i \in 1..Len(node.frags) :
       Ends(node.frags[i]) => node.total_len = sent[node.frags[i].of].len

\* No live node is complete.
NodesBuilt ==
  \A k \in Keys : MapHas(ip_reassemble_map, k, now) =>
    LET node == SlotOf(ip_reassemble_map, k, now).val
    IN  Built(k, node) /\ ~ ip_reassemble_is_complete(node)

SentFit == \A d \in 1..Len(sent) : sent[d].len \in Lens

\* The inductive invariant of what is put together.
BuildInv == OrderInv /\ NetCut /\ SentFit /\ NodesBuilt /\ Intact

\* The pieces of a node are slices of one datagram.
LEMMA BuiltSlices ==
  ASSUME Inv, NetCut, NEW key, NEW node \in Nodes, Built(key, node), Ordered(node.frags),
         NEW e \in 1..Len(node.frags), NEW d, d = node.frags[e].of
  PROVE  /\ d \in 1..Len(sent) /\ sent[d].src = key[1]
         /\ Slices(node.frags, d, sent[d].len)
<1>1. PICK frags, n : frags = node.frags /\ n = Len(frags)
  OBVIOUS
<1>2. n \in Nat /\ e \in 1..n
  BY <1>1 DEF Nodes
<1>3. sent \in Seq([src : Peers, len : Nat])
  BY DEF Inv, TypeOK
<1>4. \A i \in 1..n : PieceCut(key, frags[i])
  BY <1>1 DEF Built
<1>5. PICK h \in net : h.src = key[1] /\ h.id = key[2] /\ frags[e].of = h.of
  BY <1>2, <1>4 DEF PieceCut
<1>6. /\ d = h.of /\ d \in 1..Len(sent) /\ sent[d].src = key[1]
      /\ sent[d].len \in Nat /\ sent[d].len < LenMod
  <2>1. d = h.of /\ d \in 1..Len(sent)
    BY <1>1, <1>5 DEF Inv, FragmentOK
  <2>2. sent[d] \in [src : Peers, len : Nat]
    BY ONLY <1>3, <2>1, LenProperties
  <2> QED BY <1>5, <2>1, <2>2 DEF NetCut, CutOK
<1>7. ASSUME NEW i \in 1..n
      PROVE  /\ frags[i].of = d /\ frags[i].from \in Nat /\ frags[i].off = frags[i].from
             /\ frags[i].len \in Nat \ {0} /\ frags[i].from + frags[i].len <= sent[d].len
  <2>1. PICK g \in net : /\ g.src = key[1] /\ g.id = key[2] /\ g.len > 0
                         /\ frags[i].off = g.from /\ frags[i].from = g.from
                         /\ frags[i].len = g.len /\ frags[i].of = g.of
    BY <1>4 DEF PieceCut
  <2>2. g.of = h.of
    BY <1>5, <2>1 DEF NetCut, Apart
  <2>3. g.from \in Nat /\ g.len \in Nat /\ g.from + g.len <= sent[g.of].len
    BY DEF NetCut, CutOK, Inv, FragmentOK
  <2> QED BY <1>6, <2>1, <2>2, <2>3
<1>8. ASSUME NEW i \in 1..n, NEW j \in 1..n, i < j
      PROVE  frags[i].from + frags[i].len <= frags[j].from
  <2>1. PICK g \in net : /\ g.src = key[1] /\ g.id = key[2]
                         /\ frags[i].from = g.from /\ frags[i].len = g.len
    BY <1>4 DEF PieceCut
  <2>2. PICK f \in net : f.src = key[1] /\ f.id = key[2] /\ frags[j].from = f.from
    BY <1>4 DEF PieceCut
  <2>3. frags[i].from < frags[j].from
    <3>1. frags[i].off < frags[j].off
      BY <1>1, <1>8 DEF Ordered
    <3> QED BY <1>7, <3>1
  <2> QED BY <2>1, <2>2, <2>3 DEF NetCut, Apart
<1>9. Slices(frags, d, sent[d].len)
  BY <1>1, <1>2, <1>6, <1>7, <1>8 DEF Slices
<1> QED BY <1>1, <1>6, <1>9

\* A fragment of a datagram that was cut, put into the node of its key.
LEMMA GrownBuilt ==
  ASSUME OrderInv, NetCut, NodesBuilt, NEW f \in net, FragmentOK(f), f.mf \/ f.field # 0,
         NEW key \in Keys, key = <<f.src, f.id>>, NEW off \in 0..(LenMod - 1), off = OffOf(f),
         NEW s, NEW new, Grown(key, f, off, s, new)
  PROVE  new \in Nodes /\ Ordered(new.frags) /\ Built(key, new)
<1>1. PICK node : node = s.val
  OBVIOUS
<1>2. Inv /\ Start(key, s) /\ new = Inserted(node, f, off) /\ now \in Nat \ {0}
  BY <1>1 DEF Grown, OrderInv, Inv, TypeOK
<1>3. node \in Nodes /\ new \in Nodes
  <2>1. Grown(key, f, off, s, new)
    OBVIOUS
  <2> QED BY <1>1, <1>2, <2>1, StartGood, GrownGood
<1>4. Ordered(new.frags)
  BY GrownOrdered DEF SlotOrdered, Entry
<1>5. Built(key, node)
  <2>1. CASE MapHas(ip_reassemble_map, key, now) /\ s = SlotOf(ip_reassemble_map, key, now)
    BY <1>1, <2>1 DEF NodesBuilt
  <2>2. CASE s = Entry(key, EmptyNode, now)
    <3>1. node = EmptyNode /\ Len(node.frags) = 0 /\ node.has_last_fragment = FALSE
      BY <1>1, <2>2 DEF Entry, EmptyNode
    <3> QED BY <3>1 DEF Built
  <2> QED BY <1>2, <2>1, <2>2 DEF Start
<1>6. PICK p, n : p = Cardinality(Below(node, off)) /\ n = Len(node.frags)
  OBVIOUS
<1>7. /\ p \in 0..n /\ n \in Nat /\ Len(new.frags) = n + 1
      /\ \A i \in 1..(n + 1) :
           new.frags[i] = IF i <= p THEN node.frags[i]
                          ELSE IF i = p + 1 THEN PieceOf(f, off) ELSE node.frags[i - 1]
  <2>1. p = Cardinality(Below(node, off))
    BY <1>6
  <2>2. new = Inserted(node, f, off) /\ now \in Nat \ {0}
    BY <1>2
  <2>3. /\ p \in 0..Len(node.frags) /\ Len(node.frags) \in Nat
        /\ Len(new.frags) = Len(node.frags) + 1
        /\ \A i \in 1..Len(new.frags) :
           new.frags[i] = IF i <= p THEN node.frags[i]
                          ELSE IF i = p + 1 THEN PieceOf(f, off) ELSE node.frags[i - 1]
    BY ONLY <1>3, <2>1, <2>2, FragmentOK(f), off \in 0..(LenMod - 1), Inserting
  <2> QED BY <1>6, <2>3
<1>8. PICK one : one = PieceOf(f, off)
  OBVIOUS
<1>9. \A i \in 1..(n + 1) : new.frags[i] = one \/ \E j \in 1..n : new.frags[i] = node.frags[j]
  <2> SUFFICES ASSUME NEW i \in 1..(n + 1)
               PROVE  new.frags[i] = one \/ \E j \in 1..n : new.frags[i] = node.frags[j]
    OBVIOUS
  <2>1. CASE i <= p
    BY <1>7, <2>1
  <2>2. CASE i = p + 1
    BY <1>7, <1>8, <2>2
  <2>3. CASE i > p + 1
    <3>1. i - 1 \in 1..n /\ new.frags[i] = node.frags[i - 1]
      BY <1>7, <2>3
    <3> QED BY <3>1
  <2> QED BY <1>7, <2>1, <2>2, <2>3
<1>10. /\ p + 1 \in 1..(n + 1) /\ new.frags[p + 1] = one
       /\ \A j \in 1..n : \E i \in 1..(n + 1) : new.frags[i] = node.frags[j]
  <2>1. p + 1 \in 1..(n + 1) /\ new.frags[p + 1] = one
    BY <1>7, <1>8
  <2>2. ASSUME NEW j \in 1..n PROVE \E i \in 1..(n + 1) : new.frags[i] = node.frags[j]
    <3>1. CASE j <= p
      <4>1. j \in 1..(n + 1) /\ new.frags[j] = node.frags[j]
        BY <1>7, <3>1
      <4> QED BY <4>1
    <3>2. CASE j > p
      <4>1. j + 1 \in 1..(n + 1) /\ new.frags[j + 1] = node.frags[j]
        BY <1>7, <3>2
      <4> QED BY <4>1
    <3> QED BY <1>7, <3>1, <3>2
  <2> QED BY <2>1, <2>2
<1>11. /\ off = f.from /\ f.len > 0 /\ f.from \in Nat /\ f.len \in Nat
       /\ (~ f.mf <=> f.from + f.len = sent[f.of].len) /\ sent[f.of].len < LenMod
       /\ f.mf \in BOOLEAN
  BY DEF NetCut, CutOK, FragmentOK
<1>12. /\ one.off = f.from /\ one.from = f.from /\ one.len = f.len /\ one.of = f.of
       /\ PieceCut(key, one)
       /\ Ends(one) <=> ~ f.mf
  <2>1. one.off = f.from /\ one.from = f.from /\ one.len = f.len /\ one.of = f.of
    BY <1>8, <1>11 DEF PieceOf
  <2>2. f.src = key[1] /\ f.id = key[2]
    OBVIOUS
  <2> QED BY <1>11, <2>1, <2>2 DEF PieceCut, Ends
<1>13. \A j \in 1..n : PieceCut(key, node.frags[j]) /\ node.frags[j].of = f.of
  <2> SUFFICES ASSUME NEW j \in 1..n
               PROVE  PieceCut(key, node.frags[j]) /\ node.frags[j].of = f.of
    OBVIOUS
  <2>1. PieceCut(key, node.frags[j])
    BY <1>5, <1>6 DEF Built
  <2>2. PICK g \in net : g.src = key[1] /\ g.id = key[2] /\ node.frags[j].of = g.of
    BY <2>1 DEF PieceCut
  <2>3. g.of = f.of
    BY <2>2 DEF NetCut, Apart
  <2> QED BY <2>1, <2>2, <2>3
<1>14. /\ new.total_len = IF f.mf THEN node.total_len ELSE (off + f.len) % LenMod
       /\ new.has_last_fragment = (node.has_last_fragment \/ ~ f.mf)
  BY <1>2 DEF Inserted
<1>15. ~ f.mf => new.total_len = sent[f.of].len
  <2> HAVE ~ f.mf
  <2>1. PICK e \in Nat : e = f.from + f.len
    BY <1>11
  <2>2. e < LenMod
    BY <1>11, <2>1
  <2>3. e % LenMod = e
    BY ONLY <2>2, e \in Nat, WidthsAssumption
  <2> QED BY <1>11, <1>14, <2>1, <2>3
<1>16. \A j \in 1..n : Ends(node.frags[j]) => node.total_len = sent[f.of].len
  BY <1>5, <1>6, <1>13 DEF Built
<1>17. node.has_last_fragment <=> \E j \in 1..n : Ends(node.frags[j])
  BY <1>5, <1>6 DEF Built
<1>18. \A i \in 1..(n + 1) : PieceCut(key, new.frags[i]) /\ new.frags[i].of = f.of
  BY <1>9, <1>12, <1>13
<1>19. (\E i \in 1..(n + 1) : Ends(new.frags[i]))
         <=> (~ f.mf \/ \E j \in 1..n : Ends(node.frags[j]))
  BY <1>9, <1>10, <1>12
<1>20. new.has_last_fragment <=> \E i \in 1..(n + 1) : Ends(new.frags[i])
  BY <1>14, <1>17, <1>19, Zenon
<1>21. ASSUME NEW i \in 1..(n + 1), Ends(new.frags[i])
       PROVE  new.total_len = sent[f.of].len
  <2>1. CASE ~ f.mf
    BY <1>15, <2>1
  <2>2. CASE f.mf
    <3>1. PICK j \in 1..n : new.frags[i] = node.frags[j]
      BY <1>9, <1>12, <1>21, <2>2
    <3> QED BY <1>14, <1>16, <1>21, <2>2, <3>1
  <2> QED BY <2>1, <2>2
<1> QED BY <1>3, <1>4, <1>7, <1>18, <1>20, <1>21 DEF Built

\* What a complete node hands up is one datagram.
LEMMA WholeIsHandedUp ==
  ASSUME Inv, NetCut, NEW key, NEW node \in Nodes, Built(key, node), Ordered(node.frags),
         ip_reassemble_is_complete(node), HandsUp(key[1], node), sent' = sent
  PROVE  Intact'
<1>1. PICK e \in 1..Len(node.frags) : Ends(node.frags[e])
  BY DEF ip_reassemble_is_complete, Built
<1>2. PICK d : d = node.frags[e].of
  OBVIOUS
<1>3. /\ d \in 1..Len(sent) /\ sent[d].src = key[1]
      /\ Slices(node.frags, d, sent[d].len)
  BY <1>2, BuiltSlices
<1>4. node.total_len = sent[d].len
  BY <1>1, <1>2 DEF Built
<1>5. \A x \in 0..(sent[d].len - 1) : Merged(node)[x] = <<d, x>>
  BY <1>3, <1>4, CompleteMerges
<1>6. up'.src = key[1] /\ up'.len = node.total_len /\ up'.data = Merged(node)
  BY DEF HandsUp, HandUp
<1> QED BY <1>3, <1>4, <1>5, <1>6 DEF Intact

-----------------------------------------------------------------------------
(* The actions, for what is put together *)

LEMMA SendBuild ==
  ASSUME LensFit, BuildInv, Len(sent) < MaxSends,
         NEW p \in Peers, NEW len \in Lens, NEW load \in Loads, ip_out(p, len, load)
  PROVE  BuildInv'
<1>0. /\ now' = now /\ ip_reassemble_map' = ip_reassemble_map /\ up' = Nothing
      /\ sent \in Seq([src : Peers, len : Nat]) /\ len \in Nat
      /\ sent' = Append(sent, [src |-> p, len |-> len])
      /\ net \subseteq net'
      /\ MapInv(ip_reassemble_map, Keys, Nodes, now)
  BY LoadsAssumption DEF ip_out, BuildInv, OrderInv, Inv, TypeOK
<1>1. OrderInv' /\ NetCut'
  BY SendOrder, SendCut DEF BuildInv, LensFit
<1>2. /\ Len(sent) \in Nat /\ Len(sent') = Len(sent) + 1
      /\ \A d \in 1..Len(sent) : sent'[d] = sent[d]
      /\ sent'[Len(sent) + 1].len = len
  BY <1>0
<1>3. SentFit'
  BY <1>2 DEF BuildInv, SentFit
<1>4. ASSUME NEW k \in Keys, MapHas(ip_reassemble_map, k, now),
             NEW node, node = SlotOf(ip_reassemble_map, k, now).val
      PROVE  Built(k, node)' /\ ~ ip_reassemble_is_complete(node)
  <2>1. Built(k, node) /\ ~ ip_reassemble_is_complete(node)
    BY <1>4 DEF BuildInv, NodesBuilt
  <2>2. \A i \in 1..Len(node.frags) : node.frags[i].of \in 1..Len(sent)
    <3>1. \A i \in 1..Len(node.frags) : PieceCut(k, node.frags[i])
      BY <2>1 DEF Built
    <3> QED BY <3>1 DEF PieceCut, BuildInv, OrderInv, Inv, FragmentOK
  <2>3. \A i \in 1..Len(node.frags) : Ends(node.frags[i])' <=> Ends(node.frags[i])
    BY <1>2, <2>2 DEF Ends
  <2>4. \A i \in 1..Len(node.frags) : PieceCut(k, node.frags[i])'
    BY <1>0, <2>1 DEF Built, PieceCut
  <2> QED BY <1>2, <2>1, <2>2, <2>3, <2>4 DEF Built
<1>5. NodesBuilt'
  BY <1>0, <1>4 DEF NodesBuilt, Keys
<1> QED BY <1>0, <1>1, <1>3, <1>5 DEF BuildInv, Intact

LEMMA FragmentBuild ==
  ASSUME BuildInv, NEW f \in net, ip_in_fragment(f)
  PROVE  BuildInv'
<1>0. OrderInv' /\ OrderInv /\ Inv /\ NetCut
  BY FragmentOrder DEF BuildInv, OrderInv
<1>1. PICK key, off : key = <<f.src, f.id>> /\ off = OffOf(f)
  OBVIOUS
<1>2. /\ key \in Keys /\ off \in 0..(LenMod - 1) /\ FragmentOK(f)
      /\ now' = now /\ sent' = sent /\ net' = net
      /\ \A q \in Keys : MapHas(ip_reassemble_map', q, now) =>
              \/ /\ MapHas(ip_reassemble_map, q, now)
                 /\ SlotOf(ip_reassemble_map', q, now) = SlotOf(ip_reassemble_map, q, now)
              \/ /\ q = key
                 /\ SlotOf(ip_reassemble_map', q, now) = Entry(key, EmptyNode, now)
              \/ /\ q = key
                 /\ \E s, new : /\ Grown(key, f, off, s, new)
                                /\ ~ ip_reassemble_is_complete(new)
                                /\ SlotOf(ip_reassemble_map', q, now) = Entry(key, new, s.time)
      /\ \/ up' = Nothing
         \/ \E s, new : /\ Grown(key, f, off, s, new)
                        /\ ip_reassemble_is_complete(new) /\ HandsUp(f.src, new)
  BY ONLY <1>0, <1>1, f \in net, ip_in_fragment(f), FragmentEffect
<1>3. f.mf \/ f.field # 0
  BY DEF ip_in_fragment
<1>4. \A s, new : Grown(key, f, off, s, new) =>
        new \in Nodes /\ Ordered(new.frags) /\ Built(key, new)
  BY <1>0, <1>1, <1>2, <1>3, GrownBuilt DEF BuildInv
<1>5. NetCut' /\ SentFit'
  BY <1>2 DEF BuildInv, NetCut, Apart, CutOK, OffOf, SentFit
<1>6. ASSUME NEW q \in Keys, MapHas(ip_reassemble_map', q, now),
             NEW node, node = SlotOf(ip_reassemble_map', q, now).val
      PROVE  Built(q, node) /\ ~ ip_reassemble_is_complete(node)
  <2>1. CASE /\ MapHas(ip_reassemble_map, q, now)
             /\ SlotOf(ip_reassemble_map', q, now) = SlotOf(ip_reassemble_map, q, now)
    BY <1>6, <2>1 DEF BuildInv, NodesBuilt
  <2>2. CASE q = key /\ SlotOf(ip_reassemble_map', q, now) = Entry(key, EmptyNode, now)
    <3>1. node = EmptyNode /\ Len(node.frags) = 0 /\ node.has_last_fragment = FALSE
      BY <1>6, <2>2 DEF Entry, EmptyNode
    <3> QED BY <3>1 DEF Built, ip_reassemble_is_complete
  <2>3. CASE /\ q = key
             /\ \E s, new : /\ Grown(key, f, off, s, new)
                            /\ ~ ip_reassemble_is_complete(new)
                            /\ SlotOf(ip_reassemble_map', q, now) = Entry(key, new, s.time)
    <3>1. PICK s, new : /\ Grown(key, f, off, s, new)
                        /\ ~ ip_reassemble_is_complete(new)
                        /\ SlotOf(ip_reassemble_map', q, now) = Entry(key, new, s.time)
      BY <2>3
    <3>2. node = new
      BY <1>6, <3>1 DEF Entry
    <3> QED BY <1>4, <2>3, <3>1, <3>2
  <2> QED BY <1>2, <1>6, <2>1, <2>2, <2>3
<1>7. NodesBuilt'
  <2> SUFFICES ASSUME NEW q \in Keys, MapHas(ip_reassemble_map', q, now),
                      NEW node, node = SlotOf(ip_reassemble_map', q, now).val
               PROVE  Built(q, node)' /\ ~ ip_reassemble_is_complete(node)
    BY <1>2 DEF NodesBuilt, Keys
  <2>1. Built(q, node) /\ ~ ip_reassemble_is_complete(node)
    BY <1>6
  <2> QED BY <1>2, <2>1 DEF Built, PieceCut, Ends
<1>8. Intact'
  <2>1. CASE up' = Nothing
    BY <2>1 DEF Intact
  <2>2. CASE \E s, new : /\ Grown(key, f, off, s, new)
                         /\ ip_reassemble_is_complete(new) /\ HandsUp(f.src, new)
    <3>1. PICK s, new : /\ Grown(key, f, off, s, new)
                        /\ ip_reassemble_is_complete(new) /\ HandsUp(f.src, new)
      BY <2>2
    <3>2. new \in Nodes /\ Ordered(new.frags) /\ Built(key, new)
      BY <1>4, <3>1
    <3>3. HandsUp(key[1], new) /\ sent' = sent
      BY <1>1, <1>2, <3>1
    <3> QED BY <1>0, <3>1, <3>2, <3>3, WholeIsHandedUp
  <2> QED BY <1>2, <2>1, <2>2
<1> QED BY <1>0, <1>5, <1>7, <1>8 DEF BuildInv

LEMMA WholeIntact ==
  ASSUME BuildInv, NEW f \in net, ip_in_whole(f)
  PROVE  Intact'
<1>1. /\ ~ f.mf /\ f.field = 0 /\ sent' = sent
      /\ up' = [src |-> f.src, data |-> [x \in 0..(f.len - 1) |-> <<f.of, f.from + x>>],
                len |-> f.len, ats |-> <<now>>]
  BY DEF ip_in_whole, HandUp
<1>2. /\ f.of \in 1..Len(sent) /\ f.from \in Nat /\ f.len \in Nat
      /\ f.src = sent[f.of].src /\ OffOf(f) = f.from /\ f.from + f.len = sent[f.of].len
  BY <1>1 DEF BuildInv, OrderInv, Inv, FragmentOK, NetCut, CutOK
<1>3. OffOf(f) = 0
  <2>1. LenMod \div OffsetUnit \in Nat \ {0}
    <3>1. PICK q \in Nat : q = LenMod \div OffsetUnit
      BY LoadsAssumption, WidthsAssumption
    <3>2. LenMod = q * OffsetUnit /\ LenMod # 0
      BY <3>1, LoadsAssumption, WidthsAssumption
    <3>3. q # 0
      BY <3>2, LoadsAssumption
    <3> QED BY <3>1, <3>3
  <2>2. PICK q \in Nat \ {0} : q = LenMod \div OffsetUnit
    BY <2>1
  <2>3. 0 % q = 0 /\ 0 * OffsetUnit = 0
    BY LoadsAssumption
  <2> QED BY <1>1, <2>2, <2>3 DEF OffOf
<1>4. /\ up'.src = sent[f.of].src /\ up'.len = sent[f.of].len
      /\ \A x \in 0..(f.len - 1) : up'.data[x] = <<f.of, x>>
  BY <1>1, <1>2, <1>3
<1> QED BY <1>1, <1>2, <1>3, <1>4 DEF Intact

LEMMA BuildNext == LensFit /\ BuildInv /\ [Next]_vars => BuildInv'
<1> SUFFICES ASSUME LensFit, BuildInv, [Next]_vars PROVE BuildInv'
  OBVIOUS
<1>0. OrderInv /\ OrderInv'
  BY OrderNext DEF BuildInv, LensFit
<1>1. CASE Send
  BY <1>1, SendBuild DEF Send
<1>2. ASSUME NEW f \in net, ip_in_fragment(f) PROVE BuildInv'
  BY <1>2, FragmentBuild
<1>3. ASSUME NEW f \in net, ip_in_whole(f) PROVE BuildInv'
  <2>1. Intact'
    BY <1>3, WholeIntact
  <2>2. /\ now' = now /\ sent' = sent /\ net' = net /\ ip_reassemble_map' = ip_reassemble_map
    BY <1>3 DEF ip_in_whole
  <2>3. NetCut' /\ SentFit' /\ NodesBuilt'
    BY <2>2 DEF BuildInv, NetCut, Apart, CutOK, OffOf, SentFit, NodesBuilt, Built, PieceCut,
                Ends, Keys
  <2> QED BY <1>0, <2>1, <2>3 DEF BuildInv
<1>4. CASE Tick
  <2>1. /\ now' = now + 1 /\ sent' = sent /\ net' = net /\ up' = Nothing
        /\ ip_reassemble_map' = ip_reassemble_map
        /\ now \in Nat \ {0} /\ MapInv(ip_reassemble_map, Keys, Nodes, now)
    BY <1>0, <1>4 DEF Tick, OrderInv, Inv, TypeOK
  <2>2. \A k \in Keys : MapHas(ip_reassemble_map, k, now + 1) =>
          /\ MapHas(ip_reassemble_map, k, now)
          /\ SlotOf(ip_reassemble_map, k, now) = SlotOf(ip_reassemble_map, k, now + 1)
    BY ONLY <2>1, LaterSlot
  <2>3. NodesBuilt'
    <3> SUFFICES ASSUME NEW k \in Keys, MapHas(ip_reassemble_map, k, now + 1),
                        NEW node, node = SlotOf(ip_reassemble_map, k, now + 1).val
                 PROVE  Built(k, node)' /\ ~ ip_reassemble_is_complete(node)
      BY <2>1 DEF NodesBuilt, Keys
    <3>1. Built(k, node) /\ ~ ip_reassemble_is_complete(node)
      BY <2>2 DEF BuildInv, NodesBuilt
    <3> QED BY <2>1, <3>1 DEF Built, PieceCut, Ends
  <2>4. NetCut' /\ SentFit' /\ Intact'
    BY <2>1 DEF BuildInv, NetCut, Apart, CutOK, OffOf, SentFit, Intact
  <2> QED BY <1>0, <2>3, <2>4 DEF BuildInv
<1>5. CASE UNCHANGED vars
  <2>1. NetCut' /\ SentFit' /\ NodesBuilt' /\ Intact'
    BY <1>5 DEF vars, BuildInv, NetCut, Apart, CutOK, OffOf, SentFit, NodesBuilt, Built, PieceCut,
                Ends, Keys, Intact
  <2> QED BY <1>0, <2>1 DEF BuildInv
<1> QED BY <1>1, <1>2, <1>3, <1>4, <1>5 DEF Next, Receive

LEMMA BuildInit == LensFit /\ Init => BuildInv
<1> SUFFICES ASSUME LensFit, Init PROVE BuildInv
  OBVIOUS
<1>1. OrderInv
  BY OrderInit DEF LensFit
<1>2. sent = <<>> /\ net = {} /\ up = Nothing
  BY DEF Init
<1>3. \A k : ~ MapHas(ip_reassemble_map, k, now)
  <2>1. ip_reassemble_map = MapInit(NodeSlots, FragTimeout) /\ FragTimeout \in Nat
        /\ NodeSlots \in Nat \ {0} /\ now = 1
    BY ReassemblyAssumption DEF Init
  <2> QED BY ONLY <2>1, NewMap
<1> QED BY <1>1, <1>2, <1>3 DEF BuildInv, NetCut, Apart, SentFit, NodesBuilt, Intact

LEMMA NoneWaits ==
  ASSUME BuildInv, 0 \notin Lens
  PROVE  NothingCompleteWaits
<1> SUFFICES ASSUME NEW node \in LiveNodes, NEW d \in 1..Len(sent),
                    \A x \in 0..(sent[d].len - 1) : \E i \in 1..Len(node.frags) :
                      /\ node.frags[i].of = d
                      /\ x \in node.frags[i].from..(node.frags[i].from + node.frags[i].len - 1)
             PROVE  FALSE
  BY DEF NothingCompleteWaits
<1>1. PICK k \in Keys : /\ MapHas(ip_reassemble_map, k, now)
                        /\ node = SlotOf(ip_reassemble_map, k, now).val
  BY DEF LiveNodes, MapGet, SlotOf
<1>2. PICK s : s = SlotOf(ip_reassemble_map, k, now) /\ Start(k, s) /\ node = s.val
  BY <1>1 DEF Start
<1>3. /\ node \in Nodes /\ Ordered(node.frags) /\ Built(k, node)
      /\ ~ ip_reassemble_is_complete(node)
  <2>1. node \in Nodes
    BY <1>2, StartGood DEF BuildInv, OrderInv
  <2>2. SlotOrdered(k, s)
    BY <1>2, StartOrdered DEF BuildInv
  <2> QED BY <1>1, <1>2, <2>1, <2>2 DEF SlotOrdered, BuildInv, NodesBuilt
<1>4. PICK len : len = sent[d].len
  OBVIOUS
<1>5. len \in Nat \ {0}
  BY <1>4, LoadsAssumption DEF BuildInv, SentFit
<1>6. PICK e \in 1..Len(node.frags) : node.frags[e].of = d
  BY <1>4, <1>5
<1>7. Slices(node.frags, d, len)
  BY <1>3, <1>4, <1>6, BuiltSlices DEF BuildInv, OrderInv
<1>8. \A i \in 1..Len(node.frags) : /\ node.frags[i].from \in Nat /\ node.frags[i].len \in Nat
                                    /\ node.frags[i].from + node.frags[i].len <= len
  BY <1>7 DEF Slices
<1>9. \A x \in 0..(len - 1) : \E i \in 1..Len(node.frags) :
        node.frags[i].from <= x /\ x < node.frags[i].from + node.frags[i].len
  <2> SUFFICES ASSUME NEW x \in 0..(len - 1)
               PROVE  \E i \in 1..Len(node.frags) :
                        node.frags[i].from <= x /\ x < node.frags[i].from + node.frags[i].len
    OBVIOUS
  <2>1. PICK i \in 1..Len(node.frags) :
          x \in node.frags[i].from..(node.frags[i].from + node.frags[i].len - 1)
    BY <1>4
  <2>2. node.frags[i].from \in Nat /\ node.frags[i].len \in Nat
    BY <1>8
  <2> QED BY <1>5, <2>1, <2>2
<1>10. PICK i \in 1..Len(node.frags) : node.frags[i].of = d /\ Ends(node.frags[i])
  <2>1. len - 1 \in 0..(len - 1)
    BY <1>5
  <2>2. PICK i \in 1..Len(node.frags) :
          /\ node.frags[i].of = d
          /\ len - 1 \in node.frags[i].from..(node.frags[i].from + node.frags[i].len - 1)
    BY <1>4, <2>1
  <2>3. node.frags[i].from + node.frags[i].len = len
    BY <1>5, <1>8, <2>2
  <2> QED BY <1>4, <2>2, <2>3 DEF Ends
<1>11. node.has_last_fragment /\ node.total_len = len
  BY <1>3, <1>4, <1>10 DEF Built
<1> QED BY <1>3, <1>5, <1>7, <1>9, <1>11, CoversCompletes

\* While ids are not used again and payloads fit, ip_in hands up datagrams as
\* their sources sent them, byte for byte, whatever the order, loss and repetition
\* of fragments, for any peers, lengths, loads, nodes and limits.
THEOREM IntactHandedUp ==
  ASSUME LensFit
  PROVE  Spec => []Intact
<1>1. Init => BuildInv
  BY BuildInit
<1>2. BuildInv /\ [Next]_vars => BuildInv'
  BY BuildNext
<1>3. BuildInv => Intact
  BY DEF BuildInv
<1> QED BY <1>1, <1>2, <1>3, PTL DEF Spec

\* No live node holds all bytes of a datagram: the ip_in that stored the last of
\* them handed the datagram up (ip_reassemble_is_complete).
THEOREM CompleteNotKept ==
  ASSUME LensFit, 0 \notin Lens
  PROVE  Spec => []NothingCompleteWaits
<1>1. Init => BuildInv
  BY BuildInit
<1>2. BuildInv /\ [Next]_vars => BuildInv'
  BY BuildNext
<1>3. BuildInv => NothingCompleteWaits
  BY NoneWaits
<1> QED BY <1>1, <1>2, <1>3, PTL DEF Spec
=============================================================================

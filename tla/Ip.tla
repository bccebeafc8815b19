--------------------------------- MODULE Ip ---------------------------------
(***************************************************************************)
(* Fragmentation and reassembly (src/ip.c).  Peers cut datagrams into      *)
(* fragments as ip_out does, each with a load of its own (this stack's is  *)
(* 1480 bytes); the network keeps every fragment and may deliver it never, *)
(* once or many times, at any time and in any order;                       *)
(* this stack's ip_in puts them together again in ip_reassemble_map, a     *)
(* timed map from <<source, id>> to the fragments that arrived.  (The      *)
(* destination, the third part of the key, is always this stack.)          *)
(*                                                                         *)
(* A payload is the sequence of its byte positions, tagged with the        *)
(* datagram it belongs to.  Offsets travel in units of OffsetUnit bytes,   *)
(* offsets and lengths are kept in uint16_t, which holds LenMod values,    *)
(* and so are ids (IdMod).                                                 *)
(***************************************************************************)
EXTENDS TimedMap, Sequences

CONSTANTS Peers,
          Lens, Loads,       \* payload lengths, and loads of a fragment
          OffsetUnit,        \* IP_HDR_OFFSET_PER_BYTE
          LenMod, IdMod,     \* 2^16
          NodeSlots,         \* capacity of ip_reassemble_map
          FragTimeout,       \* IP_FRAG_TIMEOUT_SEC
          MaxFragments,      \* IP_FRAG_MAX_FRAGMENTS
          Horizon, MaxSends  \* bounds on the clock and the datagrams sent

ASSUME LoadsAssumption ==
  /\ OffsetUnit \in Nat \ {0} /\ Lens \subseteq Nat
  /\ Loads \subseteq {m \in Nat \ {0} : m % OffsetUnit = 0}
ASSUME WidthsAssumption ==
  /\ LenMod \in Nat \ {0} /\ LenMod % OffsetUnit = 0
  /\ IdMod \in Nat \ {0}
ASSUME ReassemblyAssumption ==
  /\ NodeSlots \in Nat \ {0} /\ FragTimeout \in Nat \ {0} /\ MaxFragments \in Nat \ {0}

VARIABLES
  now,
  next_id,            \* the static counter "id" of each peer's ip_out
  sent,               \* ghost: the datagrams sent, in order
  net,                \* the fragments on the network
  ip_reassemble_map,
  up                  \* what the last step handed to net_in

vars == <<now, next_id, sent, net, ip_reassemble_map, up>>

Nothing == [len |-> 0]
Keys == Peers \X (0..(IdMod - 1))
EmptyNode == [frags |-> <<>>, total_len |-> 0, has_last_fragment |-> FALSE]

Init ==
  /\ now = 1
  /\ next_id = [p \in Peers |-> 0]
  /\ sent = <<>>
  /\ net = {}
  /\ ip_reassemble_map = MapInit(NodeSlots, FragTimeout)
  /\ up = Nothing

-----------------------------------------------------------------------------

\* ip_out's loop sends full fragments while more than one load is left.
FullFragments(len, load) == IF len = 0 THEN 0 ELSE (len - 1) \div load

\* Mutant of ip_out: offsets count fragments, not OffsetUnits.
ip_out_unscaled(p, len, load, d) ==
  LET full == FullFragments(len, load)
  IN  {[src |-> p, id |-> next_id[p], field |-> i, mf |-> i < full,
        len |-> IF i < full THEN load ELSE len - full * load,
        of |-> d, from |-> i * load] : i \in 0..full}

\* The fragments of datagram d: the header fields, and which bytes they carry.
Fragments(p, len, load, d) ==
  LET full == FullFragments(len, load)
  IN  {[src |-> p, id |-> next_id[p], field |-> i * (load \div OffsetUnit), mf |-> i < full,
        len |-> IF i < full THEN load ELSE len - full * load,
        of |-> d, from |-> i * load] : i \in 0..full}

ip_out(p, len, load) ==
  /\ sent' = Append(sent, [src |-> p, len |-> len])
  /\ net' = net \cup Fragments(p, len, load, Len(sent) + 1)
  /\ next_id' = [next_id EXCEPT ![p] = (@ + 1) % IdMod]
  /\ up' = Nothing
  /\ UNCHANGED <<now, ip_reassemble_map>>

-----------------------------------------------------------------------------

\* The first n fragments of a node end at byte Filled(frags)[n], in a uint16_t.
Filled(frags) ==
  LET sum[n \in 0..Len(frags)] == IF n = 0 THEN 0 ELSE (sum[n - 1] + frags[n].len) % LenMod
  IN  sum

\* Mutant of the completeness check: gaps before the last fragment go unseen.
complete_by_last(node) ==
  /\ node.has_last_fragment
  /\ node.frags[Len(node.frags)].off + node.frags[Len(node.frags)].len = node.total_len

\* ip_reassemble_is_complete: the fragments, taken in order, leave no gap.
ip_reassemble_is_complete(node) ==
  /\ node.has_last_fragment
  /\ \A i \in 1..Len(node.frags) : node.frags[i].off = Filled(node.frags)[i - 1]
  /\ Filled(node.frags)[Len(node.frags)] = node.total_len

Garbage == <<0, 0>>  \* what a buffer holds before anything is written to it

\* ip_reassemble_merge_fragments into a buffer of total_len bytes: each fragment
\* is copied behind the ones before it; the byte seen at x is the last one
\* copied there.
Merged(node) ==
  LET frags == node.frags
      covers(i, x) == Filled(frags)[i - 1] <= x /\ x < Filled(frags)[i - 1] + frags[i].len
      writers(x) == {i \in 1..Len(frags) : covers(i, x)}
      byte(i, x) == <<frags[i].of, frags[i].from + x - Filled(frags)[i - 1]>>
  IN  [x \in 0..(node.total_len - 1) |->
         IF writers(x) = {} THEN Garbage
         ELSE byte(CHOOSE i \in writers(x) : \A j \in writers(x) : j <= i, x)]

Duplicate(node, off, len) ==
  \E i \in 1..Len(node.frags) : node.frags[i].off = off /\ node.frags[i].len = len

\* Mutant: fragments are kept in the order of their arrival.
inserted_at_end(node, f, off) ==
  [frags |-> Append(node.frags, [off |-> off, len |-> f.len, of |-> f.of, from |-> f.from,
                                 at |-> now]),
   total_len |-> IF f.mf THEN node.total_len ELSE (off + f.len) % LenMod,
   has_last_fragment |-> node.has_last_fragment \/ ~ f.mf]

\* ip_reassemble_insert_fragment: keep the fragments sorted by offset; the last
\* one (MF clear) fixes the length.
Inserted(node, f, off) ==
  LET p == Cardinality({i \in 1..Len(node.frags) : node.frags[i].off <= off})
      piece == [off |-> off, len |-> f.len, of |-> f.of, from |-> f.from, at |-> now]
  IN  [frags |-> SubSeq(node.frags, 1, p) \o <<piece>>
                 \o SubSeq(node.frags, p + 1, Len(node.frags)),
       total_len |-> IF f.mf THEN node.total_len ELSE (off + f.len) % LenMod,
       has_last_fragment |-> node.has_last_fragment \/ ~ f.mf]

\* Mutant: an arriving fragment prolongs the life of its node.
node_refreshed(key) ==
  MapSet(ip_reassemble_map, key,
         IF MapHas(ip_reassemble_map, key, now) THEN MapGet(ip_reassemble_map, key, now)
         ELSE EmptyNode, now)

\* ip_reassemble_get_node: the node of the key, a new one if there is none.  Only
\* the field arrival_time, which nothing reads, is brought up to date in an old
\* one; the stamp of the map stays that of the first fragment.
ip_reassemble_get_node(key) ==
  IF MapHas(ip_reassemble_map, key, now) THEN ip_reassemble_map
  ELSE MapSet(ip_reassemble_map, key, EmptyNode, now)

\* Mutant of the limit: one fragment too many is let in.
room_one_more(node) == Len(node.frags) <= MaxFragments
Room(node) == Len(node.frags) < MaxFragments

HandUp(src, data, len, ats) == up' = [src |-> src, data |-> data, len |-> len, ats |-> ats]

\* ip_in of a datagram that was not cut.
ip_in_whole(f) ==
  /\ ~ f.mf /\ f.field = 0
  /\ HandUp(f.src, [x \in 0..(f.len - 1) |-> <<f.of, f.from + x>>], f.len, <<now>>)
  /\ UNCHANGED <<now, next_id, sent, net, ip_reassemble_map>>

\* ip_in of a fragment: find or make its node, insert the fragment, and when
\* the node is complete hand the payload up and delete the node.
ip_in_fragment(f) ==
  LET key  == <<f.src, f.id>>
      off  == (f.field % (LenMod \div OffsetUnit)) * OffsetUnit
      m    == ip_reassemble_get_node(key)
      node == MapGet(m, key, now)
      new  == Inserted(node, f, off)
  IN
  /\ f.mf \/ f.field # 0
  /\ UNCHANGED <<now, next_id, sent, net>>
  /\ IF ~ MapHas(m, key, now) \/ ~ Room(node) \/ Duplicate(node, off, f.len)
     THEN ip_reassemble_map' = m /\ up' = Nothing
     ELSE IF ip_reassemble_is_complete(new)
     THEN /\ ip_reassemble_map' = MapDelete(m, key, now)
          /\ HandUp(f.src, Merged(new), new.total_len,
                    [i \in 1..Len(new.frags) |-> new.frags[i].at])
     ELSE /\ ip_reassemble_map' = MapRevise(m, key, new, now)
          /\ up' = Nothing

Tick ==
  /\ now < Horizon
  /\ now' = now + 1
  /\ up' = Nothing
  /\ UNCHANGED <<next_id, sent, net, ip_reassemble_map>>

Send == Len(sent) < MaxSends /\ \E p \in Peers, len \in Lens, load \in Loads : ip_out(p, len, load)
Receive == \E f \in net : ip_in_whole(f) \/ ip_in_fragment(f)

Next == Send \/ Receive \/ Tick

Spec == Init /\ [][Next]_vars

-----------------------------------------------------------------------------

Pieces == [off : 0..(LenMod - 1), len : Nat, of : 1..Len(sent), from : Nat, at : 1..now]
Nodes == [frags : Seq(Pieces), total_len : 0..(LenMod - 1), has_last_fragment : BOOLEAN]
LiveNodes == {MapGet(ip_reassemble_map, k, now) :
                k \in {key \in Keys : MapHas(ip_reassemble_map, key, now)}}

\* Type invariant: the map is well formed and its nodes are built of fragments
\* of datagrams that were sent.
TypeOK ==
  /\ now \in Nat \ {0}
  /\ next_id \in [Peers -> 0..(IdMod - 1)]
  /\ sent \in Seq([src : Peers, len : Nat])
  /\ MapInv(ip_reassemble_map, Keys, Nodes, now)

\* A node's fragments are distinct and sorted by offset, and neither it nor what
\* is handed up has more than IP_FRAG_MAX_FRAGMENTS, the length of the array
\* they are kept in.
NodesInOrder ==
  /\ up # Nothing => Len(up.ats) <= MaxFragments
  /\ \A node \in LiveNodes :
       /\ Len(node.frags) <= MaxFragments
       /\ \A i \in 1..(Len(node.frags) - 1) : node.frags[i].off < node.frags[i + 1].off

\* Whatever ip_in hands up is, byte for byte, one datagram its source sent:
\* nothing is missing, misplaced or of another datagram, whatever the order,
\* loss or repetition of the fragments (as long as ids are not used again).
Intact ==
  up # Nothing =>
    \E d \in 1..Len(sent) :
      /\ up.src = sent[d].src /\ up.len = sent[d].len
      /\ \A x \in 0..(up.len - 1) : up.data[x] = <<d, x>>

\* The pieces of what is handed up arrived within IP_FRAG_TIMEOUT_SEC of each
\* other: a late fragment does not prolong the life of those before it.
FreshPieces ==
  up # Nothing => \A i \in 1..Len(up.ats) : now <= up.ats[i] + FragTimeout

\* A datagram whose fragments are all there is handed up by the ip_in that saw
\* the last of them arrive: no live node holds a whole datagram.
NothingCompleteWaits ==
  \A node \in LiveNodes, d \in 1..Len(sent) :
    \E x \in 0..(sent[d].len - 1) :
      \A i \in 1..Len(node.frags) :
        ~ ( node.frags[i].of = d
            /\ x \in node.frags[i].from..(node.frags[i].from + node.frags[i].len - 1))
=============================================================================

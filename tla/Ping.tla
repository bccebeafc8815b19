-------------------------------- MODULE Ping --------------------------------
(***************************************************************************)
(* The records of ping (src/icmp.c): a ping_t for each target pinged, in   *)
(* map_ping, and a ping_req_t for each sequence number, in map_ping_req.   *)
(* Neither map has a life time, so the stamp is always the same.  The      *)
(* number a request is found by is its sequence number alone, and every    *)
(* ping numbers its requests from 1.                                       *)
(*                                                                         *)
(* Time is measured in ticks from the event it is compared with: "wait" is *)
(* whether time(NULL) has changed since last_send, the "age" of a request  *)
(* the ticks since it was sent (Long stands for that many and more), "got" *)
(* the age at which a reply came.                                          *)
(***************************************************************************)
EXTENDS TimedMap

CONSTANTS PingTestTime,   \* PING_TEST_TIME
          ShortestInit,   \* the 1000 ms shortest_time begins with
          Long

ASSUME PingAssumption == PingTestTime \in Nat \ {0} /\ ShortestInit \in Nat /\ Long \in Nat

Stamp == 1
NoReply == -1

NewPing ==
  [ping_time |-> 0, wait |-> FALSE, success_time |-> 0,
   shortest_time |-> ShortestInit, longest_time |-> 0, sum_time |-> 0,
   is_finished |-> FALSE]

NewRequest(dst) == [dst_ip |-> dst, age |-> 0, got |-> NoReply]

\* Mutant: the receive time of an old request of that number is left as it was.
request_not_reset(reqs, dst, seq) ==
  LET old == IF MapHas(reqs, seq, Stamp) THEN MapGet(reqs, seq, Stamp).got ELSE NoReply
  IN  MapSet(reqs, seq, [NewRequest(dst) EXCEPT !.got = old], Stamp)

\* What icmp_req_out records before it sends.
RequestRecorded(reqs, dst, seq) == MapSet(reqs, seq, NewRequest(dst), Stamp)

\* A reply stamps the request of its number, whoever it came from.
ReplyRecorded(reqs, seq) ==
  LET r == MapGet(reqs, seq, Stamp)
  IN  MapRevise(reqs, seq, [r EXCEPT !.got = r.age], Stamp)

\* ping_req_check with the request r of the current number.
ping_req_check(p, r) ==
  IF r.got = NoReply THEN p
  ELSE [p EXCEPT !.shortest_time = IF r.got < @ THEN r.got ELSE @,
                 !.longest_time = IF r.got > @ THEN r.got ELSE @,
                 !.sum_time = @ + r.got, !.success_time = @ + 1]

\* A tick: every request grows older; a ping sees time(NULL) change at a second.
Older(reqs) ==
  LET older(e) == IF e = Vacant \/ e.val.age = Long THEN e ELSE [e EXCEPT !.val.age = @ + 1]
  IN  [reqs EXCEPT !.slots = [i \in DOMAIN @ |-> older(@[i])]]
SecondPassed(pings) ==
  [pings EXCEPT !.slots = [i \in DOMAIN @ |->
     IF @[i] = Vacant THEN @[i] ELSE [@[i] EXCEPT !.val.wait = TRUE]]]
=============================================================================

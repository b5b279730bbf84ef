------------------------------ MODULE MemSystem -------------------------------
(***************************************************************************)
(* The memory system behind the cores: Simulator::cycle with its three     *)
(* clocks, Simulator::icnt_cycle, SimpleInterconnect (Interconnect.cc),    *)
(* SimpleDRAM (Dram.cc, DelayQueue.cc) and NoL2Cache (L2Cache.cc).  A core *)
(* is what appends requests to its request queue and takes responses.      *)
(*                                                                         *)
(* Within one cycle of the interconnect the ports and channels touch       *)
(* different queues, as do the channels in a cycle of the DRAM; each such  *)
(* loop is one action.                                                     *)
(***************************************************************************)
EXTENDS Integers, FiniteSets, SequencesExt

CONSTANTS
  NumCores, NumChannels,
  Ports,          \* icnt_injection_ports_per_core
  CorePeriod, DramPeriod, IcntPeriod,   \* _core_period, _dram_period, _icnt_period
  IcntLatency,    \* icnt_latency_cycles
  DramLatency,    \* dram_latency
  ReqSize,        \* dram_req_size
  CycleBytes,     \* _bytes_per_dram_cycle, 0 without a bandwidth cap
  Req,            \* requests
  Plan,           \* [Core -> Seq(Req)], the requests of a core in the order it makes them
  ChannelOf       \* [Req -> Channel], Dram::get_channel_id

Core == 0..(NumCores - 1)
Channel == 0..(NumChannels - 1)
Offset == NumCores * Ports
Node == 0..(Offset + NumChannels - 1)
PortOf(c, j) == c * Ports + j - 1        \* the j-th port of core c

CoreOf == [r \in Req |-> CHOOSE c \in Core : Contains(Plan[c], r)]

MemConfigAssumption ==
  /\ NumCores \in Nat \ {0} /\ NumChannels \in Nat \ {0} /\ Ports \in Nat \ {0}
  /\ CorePeriod \in Nat \ {0} /\ DramPeriod \in Nat \ {0} /\ IcntPeriod \in Nat \ {0}
  /\ IcntLatency \in Nat /\ DramLatency \in Nat
  /\ ReqSize \in Nat \ {0} /\ CycleBytes \in Nat
MemRequestAssumption ==
  /\ IsFiniteSet(Req)
  /\ Plan \in [Core -> Seq(Req)]
  /\ ChannelOf \in [Req -> Channel]
  /\ \A r \in Req : \E c \in Core : \E n \in 1..Len(Plan[c]) : Plan[c][n] = r
  /\ \A c, d \in Core : \A m \in 1..Len(Plan[c]), n \in 1..Len(Plan[d]) :
       Plan[c][m] = Plan[d][n] => c = d /\ m = n

ASSUME MemConfig == MemConfigAssumption
ASSUME MemRequests == MemRequestAssumption

VARIABLES
  step,        \* how far the loop of Simulator::cycle has got
  mask,        \* _cycle_mask
  coreTime, dramTime, icntTime,   \* the clocks, from the earliest of the three on
  made,        \* [Core -> Nat], how much of its plan a core has requested
  outbox,      \* [Core -> Seq(Req)], Core::_request_queue
  inBuf,       \* [Node -> [Node -> Seq([req, left])]], left = finish_cycle - _cycles
  rrNext,      \* [Node -> Node], _rr_next_src
  outBuf,      \* [Node -> Seq(Req)]
  fromXbar,    \* [Channel -> Seq(Req)], m_from_crossbar_queue
  toMem,       \* [Channel -> Seq(Req)], the cache's l_to_mem_queue
  dram,        \* [Channel -> Seq([req, left])], the DelayQueue of a channel
  credit,      \* [Channel -> Nat], _bw_credit_bytes
  toXbar,      \* [Channel -> Seq(Req)], m_to_crossbar_queue
  replied,     \* requests that set_reply has turned into responses
  received,    \* [Core -> Seq(Req)], the calls of push_memory_response
  young        \* history: requests taken from a core since the last cache cycle

clockVars == <<mask, coreTime, dramTime, icntTime>>
sendVars == <<made, outbox>>
icntVars == <<inBuf, rrNext, outBuf>>
dramVars == <<dram, credit, toXbar, replied>>
cacheVars == <<fromXbar, toMem>>
vars == <<step, clockVars, sendVars, icntVars, dramVars, cacheVars, received, young>>

Least(S) == CHOOSE x \in S : \A y \in S : x <= y

Init ==
  /\ step = "clock" /\ mask = {} /\ coreTime = 0 /\ dramTime = 0 /\ icntTime = 0
  /\ made = [c \in Core |-> 0] /\ outbox = [c \in Core |-> <<>>]
  /\ inBuf = [s \in Node |-> [d \in Node |-> <<>>]] /\ rrNext = [d \in Node |-> 0]
  /\ outBuf = [d \in Node |-> <<>>]
  /\ fromXbar = [m \in Channel |-> <<>>] /\ toMem = [m \in Channel |-> <<>>]
  /\ dram = [m \in Channel |-> <<>>] /\ credit = [m \in Channel |-> 2 * ReqSize]
  /\ toXbar = [m \in Channel |-> <<>>] /\ replied = {}
  /\ received = [c \in Core |-> <<>>]
  /\ young = {}

-------------------------------------------------------------------------------
(* Simulator::set_cycle_mask: the clocks that are earliest have their turn. *)
Clock ==
  LET earliest == Least({coreTime, dramTime, icntTime})
      after(time, period) == IF time = earliest THEN time + period ELSE time
      next == Least({after(coreTime, CorePeriod), after(dramTime, DramPeriod),
                     after(icntTime, IcntPeriod)})
  IN /\ step = "clock" /\ step' = "core"
     /\ mask' = {u \in {"core", "dram", "icnt"} :
                   earliest = [core |-> coreTime, dram |-> dramTime, icnt |-> icntTime][u]}
     /\ coreTime' = after(coreTime, CorePeriod) - next
     /\ dramTime' = after(dramTime, DramPeriod) - next
     /\ icntTime' = after(icntTime, IcntPeriod) - next
     /\ UNCHANGED <<sendVars, icntVars, dramVars, cacheVars, received, young>>

Skip ==
  /\ step \in {"core", "dram", "icnt"} /\ step \notin mask
  /\ step' = CASE step = "core" -> "dram" [] step = "dram" -> "icnt" [] step = "icnt" -> "clock"
  /\ UNCHANGED <<clockVars, sendVars, icntVars, dramVars, cacheVars, received, young>>

-------------------------------------------------------------------------------
(* Simulator::core_cycle: a core makes at most Ports requests a cycle (module Core, *)
(* action DmaGenerate), and then the cache of every channel has its cycle, in which *)
(* NoL2Cache::cycle passes one request on to the DRAM.                              *)
CoreCycle ==
  /\ step = "core" /\ "core" \in mask /\ step' = "dram"
  /\ \E n \in [Core -> 0..Ports] :
       /\ \A c \in Core : made[c] + n[c] <= Len(Plan[c])
       /\ made' = [c \in Core |-> made[c] + n[c]]
       /\ outbox' = [c \in Core |-> outbox[c] \o SubSeq(Plan[c], made[c] + 1, made[c] + n[c])]
  /\ toMem' = [m \in Channel |-> IF fromXbar[m] = <<>> THEN toMem[m]
                                 ELSE Append(toMem[m], Head(fromXbar[m]))]
  /\ fromXbar' = [m \in Channel |-> IF fromXbar[m] = <<>> THEN <<>> ELSE Tail(fromXbar[m])]
  /\ young' = {}
  /\ UNCHANGED <<clockVars, icntVars, dramVars, received>>

-------------------------------------------------------------------------------
(* SimpleDRAM::cycle: refill the credit, admit one request of the cache, hand back *)
(* one that has waited for the latency (NoL2Cache::push never refuses it).         *)

\* No more credit than all requests need is told apart.
Enough == ReqSize * (Cardinality(Req) + 2)
FaultyRefilled(m) == CycleBytes
Refilled(m) == IF credit[m] + CycleBytes < Enough THEN credit[m] + CycleBytes ELSE Enough
Admit(m) == toMem[m] # <<>> /\ (CycleBytes > 0 => Refilled(m) >= ReqSize)

Aged(q) == [n \in 1..Len(q) |-> [q[n] EXCEPT !.left = IF @ > 0 THEN @ - 1 ELSE 0]]
Inside(m) == IF Admit(m) THEN Append(Aged(dram[m]), [req |-> Head(toMem[m]), left |-> DramLatency])
                         ELSE Aged(dram[m])
Arrived(m) == Inside(m) # <<>> /\ Head(Inside(m)).left = 0

FaultyLeaving(m) == Inside(m)
Leaving(m) == IF Arrived(m) THEN Tail(Inside(m)) ELSE Inside(m)

DramCycle ==
  /\ step = "dram" /\ "dram" \in mask /\ step' = "icnt"
  /\ credit' = [m \in Channel |-> IF CycleBytes > 0 /\ Admit(m) THEN Refilled(m) - ReqSize
                                                               ELSE Refilled(m)]
  /\ toMem' = [m \in Channel |-> IF Admit(m) THEN Tail(toMem[m]) ELSE toMem[m]]
  /\ dram' = [m \in Channel |-> Leaving(m)]
  /\ toXbar' = [m \in Channel |-> IF Arrived(m) THEN Append(toXbar[m], Head(Inside(m)).req)
                                                ELSE toXbar[m]]
  /\ replied' = replied \cup {Head(Inside(m)).req : m \in {n \in Channel : Arrived(n)}}
  /\ UNCHANGED <<clockVars, sendVars, icntVars, fromXbar, received, young>>

-------------------------------------------------------------------------------
(* Simulator::icnt_cycle: each port takes one request of its core and gives it one   *)
(* response; each channel takes one request and gives one response to the crossbar. *)

\* Simulator::get_dest_node goes by the type of the message, request or response.
FaultyDest(r) == IF r \in replied THEN PortOf(0, 1 + (ChannelOf[r] % Ports)) ELSE Offset + ChannelOf[r]
Dest(r) == IF r \in replied THEN PortOf(CoreOf[r], 1 + (ChannelOf[r] % Ports))
                           ELSE Offset + ChannelOf[r]

\* What enters the interconnect at a node: nothing or one message.
CoreAt(p) == p \div Ports
Entering(p) ==
  IF p < Offset
  THEN LET q == outbox[CoreAt(p)]  j == 1 + (p % Ports)
       IN  IF j <= Len(q) THEN <<q[j]>> ELSE <<>>
  ELSE IF toXbar[p - Offset] = <<>> THEN <<>> ELSE <<Head(toXbar[p - Offset])>>

\* SimpleInterconnect::push: behind another message, one cycle after that one.
PushTo(q, r) ==
  Append(q, [req |-> r, left |-> IF q = <<>> THEN IcntLatency ELSE Last(q).left + 1])

Popped(q) == IF q = <<>> THEN q ELSE Tail(q)
FirstOf(q) == IF q = <<>> THEN q ELSE <<Head(q)>>

Delivered(c) == FlattenSeq([j \in 1..Ports |-> FirstOf(outBuf[PortOf(c, j)])])

Exchange ==
  /\ step = "icnt" /\ "icnt" \in mask /\ step' = "tick"
  /\ inBuf' = [s \in Node |-> [d \in Node |->
       IF Entering(s) # <<>> /\ Dest(Head(Entering(s))) = d
       THEN PushTo(inBuf[s][d], Head(Entering(s))) ELSE inBuf[s][d]]]
  /\ outbox' = [c \in Core |-> SubSeq(outbox[c], Ports + 1, Len(outbox[c]))]
  /\ received' = [c \in Core |-> received[c] \o Delivered(c)]
  /\ fromXbar' = [m \in Channel |-> fromXbar[m] \o FirstOf(outBuf[Offset + m])]
  /\ toXbar' = [m \in Channel |-> Popped(toXbar[m])]
  /\ outBuf' = [d \in Node |-> Popped(outBuf[d])]
  /\ young' = young \cup UNION {ToSet(Entering(p)) : p \in 0..(Offset - 1)}
  /\ UNCHANGED <<clockVars, made, rrNext, toMem, dram, credit, replied>>

\* SimpleInterconnect::cycle: each destination takes one message that is due, from the
\* sources in turn.
Due(s, d) == inBuf[s][d] # <<>> /\ Head(inBuf[s][d]).left <= 0
Distance(s, d) == (s - rrNext[d]) % (Offset + NumChannels)
Chosen(d) ==
  {s \in Node : Due(s, d) /\ \A o \in Node : Due(o, d) => Distance(s, d) <= Distance(o, d)}

NextSource(s) == (s + 1) % (Offset + NumChannels)

Tick ==
  /\ step = "tick" /\ step' = "clock"
  /\ outBuf' = [d \in Node |-> IF Chosen(d) = {} THEN outBuf[d]
                 ELSE Append(outBuf[d], Head(inBuf[Least(Chosen(d))][d]).req)]
  /\ rrNext' = [d \in Node |-> IF Chosen(d) = {} THEN rrNext[d]
                 ELSE NextSource(Least(Chosen(d)))]
  /\ inBuf' = [s \in Node |-> [d \in Node |->
       LET q == IF s \in Chosen(d) THEN Tail(inBuf[s][d]) ELSE inBuf[s][d]
       IN  [n \in 1..Len(q) |-> [q[n] EXCEPT !.left = @ - 1]]]]
  /\ UNCHANGED <<clockVars, sendVars, dramVars, cacheVars, received, young>>

-------------------------------------------------------------------------------
Next == Clock \/ Skip \/ CoreCycle \/ DramCycle \/ Exchange \/ Tick

Spec == Init /\ [][Next]_vars

\* The loop of Simulator::cycle goes on for as long as a core waits for a response.
FairSpec == Spec /\ WF_vars(Next)

-------------------------------------------------------------------------------
(* Properties *)

TypeOK ==
  /\ step \in {"clock", "core", "dram", "icnt", "tick"} /\ mask \subseteq {"core", "dram", "icnt"}
  /\ coreTime \in 0..CorePeriod /\ dramTime \in 0..DramPeriod /\ icntTime \in 0..IcntPeriod
  /\ made \in [Core -> Nat] /\ outbox \in [Core -> Seq(Req)]
  /\ inBuf \in [Node -> [Node -> Seq([req : Req, left : Int])]] /\ rrNext \in [Node -> Node]
  /\ outBuf \in [Node -> Seq(Req)]
  /\ fromXbar \in [Channel -> Seq(Req)] /\ toMem \in [Channel -> Seq(Req)]
  /\ dram \in [Channel -> Seq([req : Req, left : Nat])] /\ credit \in [Channel -> Nat]
  /\ toXbar \in [Channel -> Seq(Req)] /\ replied \subseteq Req
  /\ received \in [Core -> Seq(Req)]
  /\ young \subseteq Req

Reqs(q) == [n \in 1..Len(q) |-> q[n].req]
Count(q, r) == Cardinality({n \in 1..Len(q) : q[n] = r})

\* All the queues, by name, in the order of a request's way
Stores == {<<"outbox", c>> : c \in Core} \cup {<<"received", c>> : c \in Core}
       \cup {<<"link", s, d>> : s, d \in Node} \cup {<<"outBuf", d>> : d \in Node}
       \cup {<<place, m>> : place \in {"fromXbar", "toMem", "dram", "toXbar"}, m \in Channel}
Content(w) ==
  CASE w[1] = "outbox" -> outbox[w[2]]
    [] w[1] = "received" -> received[w[2]]
    [] w[1] = "link" -> Reqs(inBuf[w[2]][w[3]])
    [] w[1] = "outBuf" -> outBuf[w[2]]
    [] w[1] = "fromXbar" -> fromXbar[w[2]]
    [] w[1] = "toMem" -> toMem[w[2]]
    [] w[1] = "dram" -> Reqs(dram[w[2]])
    [] w[1] = "toXbar" -> toXbar[w[2]]

\* A request that has been made is at exactly one place, once: no hop loses or copies it.
Made(r) == \E n \in 1..made[CoreOf[r]] : Plan[CoreOf[r]][n] = r
OnePlace ==
  \A r \in Req :
    LET places == {w \in Stores : Contains(Content(w), r)}
    IN  IF Made(r) THEN \E w \in Stores : places = {w} /\ Count(Content(w), r) = 1
                   ELSE places = {}

\* Together, in states of the right type: the hops hand requests on, whole and in one copy.
RequestsKept == TypeOK /\ OnePlace

\* The memory system is what a core relies on: a response comes to the core that made
\* the request, once, and after a cycle of the caches.
Answered == UNION {ToSet(received[c]) : c \in Core}
Waiting == {r \in Req : Made(r) /\ r \notin Answered /\ ~Contains(outbox[CoreOf[r]], r)}
Service == INSTANCE MemService
             WITH old <- Waiting \ young, received <- [c \in Core |-> ToSet(received[c])]
ServiceSpec == Service!Spec

\* Every request a core makes is answered, whatever contends for ports and channels.
AllAnswered == \A r \in Req : Made(r) ~> r \in Answered
===============================================================================

----------------------------- MODULE MCPcapReport -----------------------------
(* The robot 2 behind its MAC, a server 1 behind the router's, and a stranger *)
(* 3.  The robot has a second address 4, and a datagram for 2 passes the      *)
(* router, so that neither IP nor MAC implies the other.  The checksum is the *)
(* parity of the sum, so that right and wrong ones both occur.                *)
EXTENDS PcapReport

MCChecksum(s) == <<FoldLeft(LAMBDA sum, b : sum + b, 0, s) % 2>>

Frame == <<211, 0, 1, 0, 0>>    \* of one payload byte, which is a type
Untyped == <<211, 0, 0, 1>>     \* of no payload
MCPayloads ==
  {<<>>, Frame, SubSeq(Frame, 1, 2), SubSeq(Frame, 3, 5), Untyped,
   <<211, 0, 1>>,                \* a frame behind it is its payload and more
   <<211>>,                      \* a frame behind it makes a bad header of it
   <<211, 0, 5>>}                \* a frame behind it is its whole payload

Server == [ip |-> 1, port |-> 2101]
Robot == [ip |-> 2, port |-> 42000]
Stranger == [ip |-> 3, port |-> 53]
Second == [ip |-> 4, port |-> 53]
MacOf(endpoint) == IF endpoint.ip \in {2, 4} THEN "robot" ELSE "router"

Packet(kind, src, dst, payload) ==
  [kind |-> kind, src |-> src, dst |-> dst,
   mac |-> [src |-> MacOf(src), dst |-> MacOf(dst)], payload |-> payload,
   padded |-> payload = <<>>]

MCPackets ==
  {Packet("tcp", Server, Robot, payload) : payload \in MCPayloads}
  \cup {Packet("tcp", Robot, Server, payload) : payload \in MCPayloads}
  \cup {[Packet("tcp", Robot, Server, <<>>) EXCEPT !.padded = FALSE]}
  \cup {Packet("udp", Stranger, to, payload) :
          to \in {Server, Robot, Second}, payload \in {<<>>, Frame}}
  \cup {[Packet("udp", Stranger, Robot, Frame) EXCEPT !.mac.dst = "router"],
        Packet("udp", [Robot EXCEPT !.port = 53], Robot, <<>>)}
  \cup {Packet(kind, Robot, Server, <<>>) : kind \in {"arp", "ip", "unparsed"}}

MCOptions == [ips : {{}, {2}}, macs : {{}, {"robot"}}, requireRtcm : BOOLEAN]
=============================================================================

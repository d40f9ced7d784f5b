--------------------------- MODULE MCPayloadFile ---------------------------
(***************************************************************************)
(* PayloadFile for TLC: lines and packets that differ from a query in one  *)
(* respect, and packets at the limits of their length.                     *)
(***************************************************************************)
EXTENDS PayloadFile

QueryLine == [words |-> 2, hash |-> FALSE, known |-> TRUE, encodes |-> TRUE]

SomeLines ==
    {QueryLine,
     [QueryLine EXCEPT !.words = 0], [QueryLine EXCEPT !.words = 3],
     [QueryLine EXCEPT !.hash = TRUE], [QueryLine EXCEPT !.known = FALSE],
     [QueryLine EXCEPT !.encodes = FALSE]}

QueryPacket == [caplen |-> 80, type |-> EtherTypeIP, ip_v |-> 4, ip_hl |-> 5, ip_p |-> 17,
                dport |-> DnsPort, qr |-> 0, opcode |-> 0]

SomePackets ==
    {QueryPacket}
    \cup {[QueryPacket EXCEPT !.caplen = n] : n \in {41, 54, 4096, 4097}}
    \cup {[QueryPacket EXCEPT !.type = 34525], [QueryPacket EXCEPT !.ip_v = 6],
          [QueryPacket EXCEPT !.ip_hl = 6], [QueryPacket EXCEPT !.ip_p = 6],
          [QueryPacket EXCEPT !.dport = 54], [QueryPacket EXCEPT !.qr = 1],
          [QueryPacket EXCEPT !.opcode = 5]}
=============================================================================

-------------------------------- MODULE Dns ---------------------------------
(***************************************************************************)
(* The DNS client: the name in a request (clsDNSPackets) and the search of *)
(* an address in a response (clsDNSHeader). Bytes are numbers; offsets are *)
(* the code's, from 0. A packet is what SendPacket returns: a std::string, *)
(* so the byte behind it is '\0'.                                          *)
(***************************************************************************)
EXTENDS Integers, Sequences, FiniteSets

Dot == 46
Pointer == 192             \* bytes from here on begin a compressed name
DNS_HEADER_SIZE == 12
QUESTION_SIZE == 4
R_DATA_SIZE == 10
IPv4_SIZE == 4
T_A == 1
NoAddress == <<0, 0, 0, 0>>

Byte(buff, r) == IF r = Len(buff) THEN 0 ELSE buff[r + 1]
Bytes(buff, r, n) == SubSeq(buff, r + 1, r + n)
get_uint16(buff, r) == Byte(buff, r) * 256 + Byte(buff, r + 1)

\* "ab.c" as 2 a b 1 c 0: a dot, one is added at the end, becomes the length of the
\* label before it, and moves in front of it.
ChangetoDnsNameFormat(hostName) ==
  LET host == Append(hostName, Dot)
      From[lock \in 1 .. Len(host) + 1] ==
        IF lock > Len(host) THEN <<0>>
        ELSE LET i == CHOOSE d \in lock .. Len(host) :
                        host[d] = Dot /\ \A k \in lock .. d - 1 : host[k] # Dot
             IN <<i - lock>> \o SubSeq(host, lock, i - 1) \o From[i + 1]
  IN From[1]

\* PckRequestA: the header, HostLength + 2 bytes of the name, the question.
PckRequestA(hostName) ==
  <<19, 137, 1, 0, 0, 1, 0, 0, 0, 0, 0, 0>>
    \o SubSeq(ChangetoDnsNameFormat(hostName), 1, Len(hostName) + 2)
    \o <<0, 1, 0, 1>>

\* Where a name leads, pointers followed to whatever offset they have: to its '\0', out
\* of the packet, or round for ever (a walk that jumps more often than the packet is long).
Leads(buff, reader) ==
  LET From[r \in Nat, jumps \in Nat] ==
        IF r > Len(buff) THEN "outside"
        ELSE IF Byte(buff, r) = 0 THEN "end"
        ELSE IF Byte(buff, r) < Pointer THEN From[r + 1, jumps]
        ELSE IF jumps > Len(buff) THEN "circle"
        ELSE From[get_uint16(buff, r) - Pointer * 256, jumps + 1]
  IN From[reader, 0]

GetDNameCount_One(buff, reader) ==
  LET From[r \in Nat] == IF Byte(buff, r) = 0 \/ Byte(buff, r) >= Pointer THEN 1
                         ELSE 1 + From[r + 1]
  IN From[reader]
\* How far a name that has an end reaches in the packet: to its '\0', or over its first
\* pointer, behind which nothing is counted.
GetDNameCount(buff, reader) ==
  LET From[r \in Nat] == IF Byte(buff, r) = 0 THEN 1
                         ELSE IF Byte(buff, r) >= Pointer THEN 2
                         ELSE 1 + From[r + 1]
  IN From[reader]

\* The name itself, pointers followed, lengths turned back into dots.
ReadName(buff, reader) ==
  LET Raw[r \in Nat] == IF Byte(buff, r) = 0 THEN <<>>
                        ELSE IF Byte(buff, r) >= Pointer
                          THEN Raw[get_uint16(buff, r) - Pointer * 256]
                        ELSE <<Byte(buff, r)>> \o Raw[r + 1]
      name == Raw[reader]
      Dotted[i \in Nat] ==
        IF i > Len(name) THEN <<>>
        ELSE SubSeq(name, i + 1, i + name[i]) \o <<Dot>> \o Dotted[i + name[i] + 1]
      text == Dotted[1]
  IN SubSeq(text, 1, Len(text) - 1)

\* The data of the first A record; NoAddress when the packet ends before it. The parser
\* may also read "outside" the packet, or run in a "circle": neither the pointers nor
\* data_len are compared with its length.
ParseDNSPaket(hostConvertedLen, buff) ==
  LET start == DNS_HEADER_SIZE + hostConvertedLen + QUESTION_SIZE
      From[i \in Nat, read \in Nat] ==
        IF i = get_uint16(buff, 6) THEN NoAddress
        ELSE IF Leads(buff, read) # "end" THEN Leads(buff, read)
        ELSE LET data == read + GetDNameCount(buff, read)
                 next == data + R_DATA_SIZE
             IN IF data >= Len(buff) \/ next > Len(buff) THEN NoAddress
                ELSE IF get_uint16(buff, data) # T_A
                  THEN From[i + 1, next + get_uint16(buff, data + 8)]
                ELSE IF next + IPv4_SIZE > Len(buff) THEN NoAddress
                ELSE Bytes(buff, next, IPv4_SIZE)
  IN IF start >= Len(buff) THEN NoAddress ELSE From[0, start]

-----------------------------------------------------------------------------
\* A server's answer to a request: the question repeated, the records in order. A record
\* gives its name in one of these ways, and its length as that of its data or "more".
Question(hostName) == SubSeq(PckRequestA(hostName), 13, Len(hostName) + 18)
NameBytes(name, hostName, at) ==
  CASE name = "full"    -> ChangetoDnsNameFormat(hostName)
    [] name = "pointer" -> <<Pointer, DNS_HEADER_SIZE>>
    [] name = "label"   -> <<1, 120, Pointer, DNS_HEADER_SIZE>>
    [] name = "chain"   -> <<Pointer, DNS_HEADER_SIZE + Len(hostName) + 6>>
    [] name = "itself"  -> <<Pointer, at>>
    [] name = "behind"  -> <<255, 255>>
Answer(hostName, record, at) ==
  NameBytes(record.name, hostName, at)
    \o <<0, record.type, 0, 1, 0, 0, 0, 60, 0, Len(record.data) + record.more>> \o record.data
Response(hostName, records, count) ==
  LET All[i \in 0 .. Len(records)] ==
        IF i = 0 THEN <<19, 137, 129, 128, 0, 1, 0, count, 0, 0, 0, 0>> \o Question(hostName)
        ELSE All[i - 1] \o Answer(hostName, records[i], Len(All[i - 1]))
  IN All[Len(records)]

\* A record as a server should write it. The first one has no name to chain to but its own.
WellFormed(records, i) ==
  /\ records[i].more = 0 /\ records[i].name \notin {"itself", "behind"}
  /\ records[i].name = "chain" => i > 1 /\ records[1].name \notin {"itself", "behind", "chain"}

\* The records before the first address, all of them if there is none.
Before(records) ==
  {i \in DOMAIN records : \A j \in 1 .. i : records[j].type # T_A}
FirstAddress(records) ==
  LET i == Cardinality(Before(records)) + 1
  IN IF i \in DOMAIN records THEN records[i].data ELSE NoAddress

\* When the records up to the first A record are well-formed, the lookup finds its address
\* whatever the records behind it are like, and NoAddress when there is none; records that
\* the header counts and the packet does not hold are not read.
AddressFound(hostName, records) ==
  LET n == Len(hostName) + 2
      i == Cardinality(Before(records)) + 1
  IN (\A j \in DOMAIN records : j <= i => WellFormed(records, j)) =>
        \A extra \in 0 .. 1 :
          ParseDNSPaket(n, Response(hostName, records, Len(records) + extra)) = FirstAddress(records)

\* Of a packet that is cut anywhere no other address is read; and the parser leaves it only
\* when the cut is inside the data of a record before the address.
CutIsNoticed(hostName, records) ==
  LET n == Len(hostName) + 2
      p == Response(hostName, records, Len(records))
      End(i) == Len(Response(hostName, SubSeq(records, 1, i), Len(records)))
  IN (\A j \in DOMAIN records : WellFormed(records, j)) =>
        \A cut \in DNS_HEADER_SIZE .. Len(p) :
          LET found == ParseDNSPaket(n, SubSeq(p, 1, cut))
          IN \/ found \in {NoAddress, FirstAddress(records)}
             \/ /\ found = "outside"
                /\ \E i \in Before(records) :
                     cut \in End(i) - Len(records[i].data) .. End(i) - 1

\* A name written by the request, or pointed to by an answer, is read back as the host, and
\* its length leads to the next record.
NamesAgree(hostName, records) ==
  LET request == PckRequestA(hostName)
      at == Len(Response(hostName, <<>>, 0))
      p == Response(hostName, records, Len(records))
  IN /\ ReadName(request, DNS_HEADER_SIZE) = hostName
     /\ GetDNameCount(request, DNS_HEADER_SIZE) = Len(hostName) + 2
     /\ records # <<>> /\ records[1].name \in {"full", "pointer"} =>
          /\ ReadName(p, at) = hostName
          /\ at + GetDNameCount(p, at) + R_DATA_SIZE + Len(records[1].data)
               = Len(Response(hostName, <<records[1]>>, 1))

FindsAddress(hostName, records) ==
  AddressFound(hostName, records) /\ CutIsNoticed(hostName, records) /\ NamesAgree(hostName, records)
=============================================================================

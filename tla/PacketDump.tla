----------------------------- MODULE PacketDump -----------------------------
(***************************************************************************)
(* The packet interceptor: one loop that receives a packet into a buffer   *)
(* it uses again and again, decides whether to log it, and prints three    *)
(* hex dumps of it: the IP header, the TCP header and the payload.         *)
(*                                                                         *)
(* A byte is known by its offset in the buffer. A line of a dump is its    *)
(* bytes in hex, the places left blank after them, and its bytes again as  *)
(* characters. The kernel has checked the IP header of what a raw socket   *)
(* receives; it has not checked the TCP header.                            *)
(***************************************************************************)
EXTENDS Integers, Sequences

CONSTANTS
    Columns,        \* bytes in a line, 16
    BufSize,        \* sizeof(packet)
    Ihls, Doffs,    \* header lengths in words
    Rests,          \* bytes behind the IP header
    Sources,        \* where packets come from
    Target,         \* target_address
    MaxPackets      \* bound: packets logged

Packets ==
    { [source |-> s, ihl |-> h, doff |-> d, size |-> h * 4 + r] :
        s \in Sources, h \in Ihls, d \in Doffs, r \in Rests }

ASSUME WidthAssumption == Columns \in Nat \ {0}
ASSUME HeaderAssumption == Ihls \subseteq 5..15 /\ Doffs \subseteq 0..15
ASSUME BufferAssumption ==
    /\ Rests \subseteq Nat
    /\ BufSize \in Nat /\ BufSize >= 120
    /\ \A h \in Ihls, r \in Rests : h * 4 + r <= BufSize
ASSUME CountAssumption == MaxPackets \in Nat

Sections == 1..3
NoPacket == [source |-> Target, ihl |-> 0, doff |-> 0, size |-> 0]
EmptyRow == [hex |-> <<>>, pad |-> 0, text |-> <<>>]

VARIABLES
    argc,       \* the number of arguments
    pc,         \* receiving, printing, or how the process ended
    packet,     \* the packet logged last
    numPackets,
    section,    \* which call of print_packet
    i,          \* its loop variable
    rows,       \* the finished lines of each dump
    row         \* the line being printed

vars == <<argc, pc, packet, numPackets, section, i, rows, row>>

Init ==
    /\ argc \in 1..3
    /\ pc = "receive"
    /\ packet = NoPacket
    /\ numPackets = 0
    /\ section = 1
    /\ i = 0
    /\ rows = [s \in Sections |-> <<>>]
    /\ row = EmptyRow

-----------------------------------------------------------------------------
(* The arguments of the three calls of print_packet. *)
Base(p, s) == CASE s = 1 -> 0
                [] s = 2 -> p.ihl * 4
                [] s = 3 -> p.ihl * 4 + p.doff * 4

(* Mutant of Size: the payload ends where it would without a TCP header. *)
SizeKeepsHeader(p, s) == CASE s = 1 -> p.ihl * 4
                           [] s = 2 -> p.doff * 4
                           [] s = 3 -> p.size - p.ihl * 4

Size(p, s) == CASE s = 1 -> p.ihl * 4
                [] s = 2 -> p.doff * 4
                [] s = 3 -> p.size - p.doff * 4 - p.ihl * 4

(* A raw socket for TCP receives nothing else, so the test of the protocol *)
(* always succeeds. The target is set by exactly one argument and compared *)
(* with when there is at least one: with two, strcmp() reads address zero. *)
Filter(p) == argc = 1 \/ p.source = Target

Receive(p) ==
    /\ pc = "receive" /\ numPackets < MaxPackets
    /\ IF argc > 2
       THEN /\ pc' = "crashed"
            /\ packet' = p
            /\ UNCHANGED <<numPackets, section, i, rows, row>>
       ELSE IF Filter(p)
       THEN /\ pc' = "print"
            /\ packet' = p
            /\ numPackets' = numPackets + 1
            /\ section' = 1
            /\ i' = 0
            /\ rows' = [s \in Sections |-> <<>>]
            /\ row' = EmptyRow
       ELSE UNCHANGED <<pc, packet, numPackets, section, i, rows, row>>
    /\ UNCHANGED argc

ReceiveFails ==
    /\ pc = "receive"
    /\ pc' = "failed"
    /\ UNCHANGED <<argc, packet, numPackets, section, i, rows, row>>

(* packet[from] to packet[to], where packet points at the section. *)
Run(from, to) == [k \in 1..(to - from + 1) |->
                    Base(packet, section) + from + k - 1]

(* Before a byte that starts a line the characters of the line above are   *)
(* written.                                                                *)
StartsLine == i # 0 /\ i % Columns = 0
Above == IF StartsLine
         THEN Append(rows[section],
                     [row EXCEPT !.text = Run(i - Columns, i - 1)])
         ELSE rows[section]

Line == [(IF StartsLine THEN EmptyRow ELSE row)
            EXCEPT !.hex = Append(@, Base(packet, section) + i)]

(* Mutant of LastLine: one place fewer is left blank. *)
LastLineShort == [hex |-> Line.hex, pad |-> (Columns - 1) - ((i + 1) % Columns),
                  text |-> Run(i - (i % Columns), i)]

(* After the last byte blanks keep the characters in their column. *)
LastLine == [hex |-> Line.hex, pad |-> (Columns - 1) - (i % Columns),
             text |-> Run(i - (i % Columns), i)]

(* Mutant of PrintByte: the loop runs once more. *)
PrintByteOver ==
    /\ pc = "print" /\ i <= Size(packet, section)
    /\ IF i = Size(packet, section) - 1
       THEN /\ rows' = [rows EXCEPT ![section] = Append(Above, LastLine)]
            /\ row' = EmptyRow
       ELSE /\ rows' = [rows EXCEPT ![section] = Above]
            /\ row' = Line
    /\ i' = i + 1
    /\ UNCHANGED <<argc, pc, packet, numPackets, section>>

(* One turn of the loop of print_packet. *)
PrintByte ==
    /\ pc = "print" /\ i < Size(packet, section)
    /\ IF i = Size(packet, section) - 1
       THEN /\ rows' = [rows EXCEPT ![section] = Append(Above, LastLine)]
            /\ row' = EmptyRow
       ELSE /\ rows' = [rows EXCEPT ![section] = Above]
            /\ row' = Line
    /\ i' = i + 1
    /\ UNCHANGED <<argc, pc, packet, numPackets, section>>

(* The end of the loop: the next call, or the next packet. *)
NextSection ==
    /\ pc = "print" /\ i >= Size(packet, section)
    /\ IF section < 3
       THEN section' = section + 1 /\ i' = 0 /\ UNCHANGED pc
       ELSE pc' = "receive" /\ UNCHANGED <<section, i>>
    /\ UNCHANGED <<argc, packet, numPackets, rows, row>>

(* The loop has no end of its own; the bound on it is MaxPackets. *)
Stopped ==
    /\ \/ pc \in {"crashed", "failed"}
       \/ pc = "receive" /\ numPackets = MaxPackets
    /\ UNCHANGED vars

Next ==
    \/ \E p \in Packets : Receive(p)
    \/ ReceiveFails
    \/ PrintByte
    \/ NextSection
    \/ Stopped

Spec == Init /\ [][Next]_vars

-----------------------------------------------------------------------------
(* Every variable has values of its kind.                                  *)
TypeOK ==
    /\ argc \in 1..3
    /\ pc \in {"receive", "print", "crashed", "failed"}
    /\ packet \in Packets \cup {NoPacket}
    /\ numPackets \in 0..MaxPackets
    /\ section \in Sections
    /\ i \in Nat
    /\ rows \in [Sections -> Seq([hex : Seq(Nat), pad : 0..Columns,
                                  text : Seq(Nat)])]
    /\ row \in [hex : Seq(Nat), pad : {0}, text : {<<>>}]
    /\ Len(row.hex) <= Columns

(* A dump as it should be: full lines but for the last one, in each line   *)
(* the same bytes in hex and as characters, and the characters always in   *)
(* the same column.                                                        *)
NumLines(n) == (n + Columns - 1) \div Columns
LayoutLine(base, n, r) ==
    LET from == (r - 1) * Columns
        to == IF r * Columns < n THEN r * Columns ELSE n
        bytes == [k \in 1..(to - from) |-> base + from + k - 1]
    IN [hex |-> bytes, pad |-> Columns - (to - from), text |-> bytes]
Layout(base, n) == [r \in 1..NumLines(n) |-> LayoutLine(base, n, r)]

Printed(s) ==
    \/ pc = "print" /\ s < section
    \/ pc = "print" /\ s = section /\ i >= Size(packet, s)
    \/ pc \in {"receive", "failed"} /\ numPackets > 0

(* Every dump is laid out as it should be, also when its length is a       *)
(* multiple of the width, one more or one less, zero or negative, although *)
(* the line feeds come from two branches (interceptor.c:187-231).          *)
DumpExact ==
    \A s \in Sections :
        Printed(s) => rows[s] = Layout(Base(packet, s), Size(packet, s))

(* The bytes of a line that were read, in either column. *)
Below(r, bound) ==
    /\ \A k \in DOMAIN r.hex : r.hex[k] < bound
    /\ \A k \in DOMAIN r.text : r.text[k] < bound

(* Whatever the headers say of their own length, nothing behind the end of *)
(* the buffer is read, and no byte of an earlier packet left behind in the *)
(* buffer is printed as payload (interceptor.c:136-178). The dumps of the  *)
(* headers may hold such bytes.                                            *)
InBuffer ==
    /\ \A s \in Sections : \A k \in DOMAIN rows[s] : Below(rows[s][k], BufSize)
    /\ \A k \in DOMAIN rows[3] : Below(rows[3][k], packet.size)
    /\ Below(row, IF section = 3 THEN packet.size ELSE BufSize)

Columnwise(rs, n) == { rs[k].hex[n] : k \in { m \in DOMAIN rs : n \in DOMAIN rs[m].hex } }
Bytes(s) == UNION { Columnwise(rows[s], n) : n \in 1..Columns }

(* When the headers are as long as they say, the three dumps together hold *)
(* the packet, every byte in exactly one of them (interceptor.c:171-178).  *)
DumpsCover ==
    pc = "receive" /\ numPackets > 0 /\ Size(packet, 3) >= 0 =>
        /\ Bytes(1) \cup Bytes(2) \cup Bytes(3) = 0..(packet.size - 1)
        /\ \A s, t \in Sections : s # t => Bytes(s) \cap Bytes(t) = {}
=============================================================================

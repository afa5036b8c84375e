-------------------------- MODULE PacketDumpProofs --------------------------
(***************************************************************************)
(* The dumps of the packet interceptor for every width of a line, every    *)
(* size of the buffer and every length the headers may claim.              *)
(***************************************************************************)
EXTENDS PacketDump, TLAPS

(* The bytes of a line, a full line, and the first q lines of a dump.      *)
Span(from, count) == [k \in 1..count |-> from + k - 1]
FullLine(base, r) ==
    [hex  |-> Span(base + (r - 1) * Columns, Columns), pad |-> 0,
     text |-> Span(base + (r - 1) * Columns, Columns)]
FullLines(base, q) == [r \in 1..q |-> FullLine(base, r)]
Partial(from, count) == [hex |-> Span(from, count), pad |-> 0, text |-> <<>>]

Done(s) == rows[s] = Layout(Base(packet, s), Size(packet, s))

(* In the middle of a dump: q full lines and d bytes of the next one. A    *)
(* line that is full is finished by the byte that starts the next one.     *)
Midway(q, d) ==
    /\ i = q * Columns + d
    /\ d = 0 => q = 0
    /\ rows[section] = FullLines(Base(packet, section), q)
    /\ row = Partial(Base(packet, section) + q * Columns, d)

(* The dumps before the current one are complete, those after it not begun. *)
PrintInv ==
    /\ packet \in Packets
    /\ numPackets > 0
    /\ \A s \in Sections : s < section => Done(s)
    /\ \A s \in Sections : s > section => rows[s] = <<>>
    /\ IF i < Size(packet, section)
       THEN \E q \in Nat, d \in 0..Columns : Midway(q, d)
       ELSE Done(section) /\ row = EmptyRow

IndInv ==
    /\ argc \in 1..3
    /\ pc \in {"receive", "print", "crashed", "failed"}
    /\ packet \in Packets \cup {NoPacket}
    /\ numPackets \in 0..MaxPackets
    /\ section \in Sections
    /\ i \in Nat
    /\ rows = [s \in Sections |-> rows[s]]
    /\ pc = "print" => PrintInv
    /\ pc # "print" => row = EmptyRow
    /\ pc = "crashed" => numPackets = 0
    /\ argc > 2 => numPackets = 0
    /\ numPackets = 0 => \A s \in Sections : rows[s] = <<>>
    /\ pc # "print" /\ numPackets > 0 =>
           packet \in Packets /\ \A s \in Sections : Done(s)

-----------------------------------------------------------------------------
(* Rows of equal width: the multiples of Columns keep the order.           *)
LEMMA Multiples ==
    ASSUME NEW a \in Int, NEW b \in Int
    PROVE  /\ a * Columns \in Int
           /\ (a + 1) * Columns = a * Columns + Columns
           /\ a <= b => a * Columns <= b * Columns
           /\ a < b => a * Columns + Columns <= b * Columns
<1>1. /\ a * Columns \in Int
      /\ (a + 1) * Columns = a * Columns + Columns
  BY WidthAssumption
<1>2. ASSUME NEW x \in Int, NEW y \in Int, x <= y
      PROVE  x * Columns <= y * Columns
  BY <1>2, WidthAssumption
<1>3. a < b => a + 1 \in Int /\ a + 1 <= b
  OBVIOUS
<1> QED
  BY <1>1, <1>2, <1>3

LEMMA BytesAbove ==
    ASSUME NEW q \in Nat
    PROVE  q * Columns \in Nat
<1> QED
  BY WidthAssumption

(* Line and column of a byte, and the byte in a line and a column.         *)
LEMMA PlaceOf ==
    ASSUME NEW a \in Int, NEW q \in Int, q = a \div Columns
    PROVE  q * Columns <= a /\ a < q * Columns + Columns
<1>1. q * Columns <= a
  BY WidthAssumption
<1>2. a < q * Columns + Columns
  BY WidthAssumption
<1> QED
  BY <1>1, <1>2

LEMMA ByteAt ==
    ASSUME NEW q \in Int, NEW d \in 0..(Columns - 1)
    PROVE  /\ (q * Columns + d) \div Columns = q
           /\ (q * Columns + d) % Columns = d
<1>1. (q * Columns + d) \div Columns = q
  BY WidthAssumption
<1>2. (q * Columns + d) % Columns = d
  BY WidthAssumption
<1> QED
  BY <1>1, <1>2

(* How many lines a dump has.                                              *)
LEMMA LinesOf ==
    ASSUME NEW n \in Int
    PROVE  /\ NumLines(n) \in Int
           /\ n <= 0 => NumLines(n) <= 0
           /\ \A r \in Int : r <= NumLines(n) <=> (r - 1) * Columns < n
<1> DEFINE m == NumLines(n)
<1>1. m \in Int
  BY WidthAssumption DEF NumLines
<1>2. m * Columns <= n + Columns - 1 /\ n + Columns - 1 < m * Columns + Columns
  BY <1>1, PlaceOf, WidthAssumption DEF NumLines
<1> HIDE DEF m
<1>3. ASSUME NEW r \in Int PROVE r <= m <=> (r - 1) * Columns < n
  <2>1. /\ r - 1 \in Int /\ (r - 1) + 1 = r
        /\ (r - 1) * Columns \in Int /\ m * Columns \in Int
        /\ r * Columns = (r - 1) * Columns + Columns
        /\ r <= m => r * Columns <= m * Columns
        /\ m < r => m * Columns + Columns <= r * Columns
    BY <1>1, Multiples
  <2> QED
    BY <2>1, <1>1, <1>2, WidthAssumption
<1>4. n <= 0 => m <= 0
  <2>1. (1 - 1) * Columns = 0
    BY WidthAssumption
  <2> QED
    BY <2>1, <1>1, <1>3
<1> QED
  BY <1>1, <1>3, <1>4 DEF m

(* A line of the layout that is full, and the last one.                    *)
LEMMA FullOf ==
    ASSUME NEW base \in Int, NEW n \in Int, NEW r \in Int, r * Columns <= n
    PROVE  LayoutLine(base, n, r) = FullLine(base, r)
<1>1. r * Columns \in Int /\ (r - 1) * Columns \in Int
      /\ r * Columns = (r - 1) * Columns + Columns
  <2>1. r - 1 \in Int /\ (r - 1) + 1 = r
    OBVIOUS
  <2> QED
    BY <2>1, Multiples
<1> DEFINE from == (r - 1) * Columns
           to == IF r * Columns < n THEN r * Columns ELSE n
<1>2. to - from = Columns /\ from \in Int
  BY <1>1, WidthAssumption
<1> HIDE DEF from, to
<1>3. [k \in 1..Columns |-> base + from + k - 1] = Span(base + from, Columns)
  BY <1>2, WidthAssumption DEF Span
<1>4. LayoutLine(base, n, r) =
          [hex |-> [k \in 1..(to - from) |-> base + from + k - 1],
           pad |-> Columns - (to - from),
           text |-> [k \in 1..(to - from) |-> base + from + k - 1]]
  BY DEF LayoutLine, from, to
<1>5. Columns - Columns = 0
  BY WidthAssumption
<1> QED
  BY <1>2, <1>3, <1>4, <1>5 DEF FullLine, from

LEMMA LastOf ==
    ASSUME NEW base \in Int, NEW q \in Nat, NEW d \in 0..(Columns - 1)
    PROVE  LayoutLine(base, q * Columns + d + 1, q + 1) =
               [hex |-> Span(base + q * Columns, d + 1), pad |-> Columns - 1 - d,
                text |-> Span(base + q * Columns, d + 1)]
<1> DEFINE n == q * Columns + d + 1
           from == ((q + 1) - 1) * Columns
           to == IF (q + 1) * Columns < n THEN (q + 1) * Columns ELSE n
<1>1. q * Columns \in Int /\ (q + 1) * Columns = q * Columns + Columns
      /\ (q + 1) - 1 = q
  BY Multiples
<1>2. from = q * Columns /\ to - from = d + 1
  BY <1>1, WidthAssumption
<1>3. LayoutLine(base, n, q + 1) =
          [hex |-> [k \in 1..(to - from) |-> base + from + k - 1],
           pad |-> Columns - (to - from),
           text |-> [k \in 1..(to - from) |-> base + from + k - 1]]
  BY DEF LayoutLine
<1> HIDE DEF n, from, to
<1>4. [k \in 1..(d + 1) |-> base + from + k - 1] = Span(base + from, d + 1)
  BY <1>1, <1>2 DEF Span
<1>5. Columns - (d + 1) = Columns - 1 - d
  BY WidthAssumption
<1> QED
  BY <1>2, <1>3, <1>4, <1>5 DEF n

(* The layout of a dump whose last byte is byte d of line q + 1.           *)
LEMMA LayoutOf ==
    ASSUME NEW base \in Int, NEW q \in Nat, NEW d \in 0..(Columns - 1)
    PROVE  Layout(base, q * Columns + d + 1) =
               Append(FullLines(base, q),
                      [hex |-> Span(base + q * Columns, d + 1), pad |-> Columns - 1 - d,
                       text |-> Span(base + q * Columns, d + 1)])
<1> DEFINE n == q * Columns + d + 1
           last == [hex |-> Span(base + q * Columns, d + 1), pad |-> Columns - 1 - d,
                    text |-> Span(base + q * Columns, d + 1)]
           done == FullLines(base, q)
<1>1. n \in Int /\ q * Columns \in Int /\ (q + 1) * Columns = q * Columns + Columns
  BY Multiples
<1>2. NumLines(n) = q + 1
  <2>1. /\ (q + 1) - 1 = q /\ (q + 2) - 1 = q + 1
        /\ q + 1 \in Int /\ q + 2 \in Int
        /\ q * Columns < n /\ ~((q + 1) * Columns < n)
    BY <1>1, WidthAssumption
  <2>2. q + 1 <= NumLines(n) /\ ~(q + 2 <= NumLines(n)) /\ NumLines(n) \in Int
    BY <2>1, <1>1, LinesOf
  <2> QED
    BY <2>2
<1>3. ASSUME NEW r \in 1..q PROVE LayoutLine(base, n, r) = FullLine(base, r)
  <2>1. r * Columns \in Int /\ r * Columns <= q * Columns
    BY Multiples
  <2>2. r * Columns <= n
    BY <2>1, <1>1, WidthAssumption
  <2> QED
    BY <2>2, <1>1, FullOf
<1>4. LayoutLine(base, n, q + 1) = last
  BY LastOf
<1>5. Layout(base, n) = [r \in 1..(q + 1) |-> LayoutLine(base, n, r)]
  BY <1>2 DEF Layout
<1> HIDE DEF last, n
<1>6. Append(done, last) =
          [r \in 1..(q + 1) |-> IF r = q + 1 THEN last ELSE FullLine(base, r)]
  <2> DEFINE Nth(r) == FullLine(base, r)
  <2> HIDE DEF Nth
  <2>1. Append([r \in 1..q |-> Nth(r)], last) =
            [r \in 1..(q + 1) |-> IF r = q + 1 THEN last ELSE Nth(r)]
    OBVIOUS
  <2> QED
    BY <2>1 DEF FullLines, Nth
<1>7. \A r \in 1..(q + 1) :
          LayoutLine(base, n, r) = IF r = q + 1 THEN last ELSE FullLine(base, r)
  BY <1>3, <1>4
<1> QED
  BY <1>5, <1>6, <1>7 DEF last, n

(* A byte more makes a line longer; a full line more makes a dump longer.  *)
LEMMA Longer ==
    ASSUME NEW from \in Int, NEW d \in Nat
    PROVE  Append(Span(from, d), from + d) = Span(from, d + 1)
<1>1. Append([k \in 1..d |-> from + k - 1], from + d) =
          [k \in 1..(d + 1) |-> from + k - 1]
  OBVIOUS
<1> QED
  BY <1>1 DEF Span

LEMMA FullLonger ==
    ASSUME NEW base \in Int, NEW q \in Nat
    PROVE  Append(FullLines(base, q), FullLine(base, q + 1)) = FullLines(base, q + 1)
<1> DEFINE Nth(r) == FullLine(base, r)
<1> HIDE DEF Nth
<1>1. Append([r \in 1..q |-> Nth(r)], Nth(q + 1)) = [r \in 1..(q + 1) |-> Nth(r)]
  OBVIOUS
<1> QED
  BY <1>1 DEF FullLines, Nth

(* An empty dump has no line, nor has one whose length is negative.        *)
LEMMA NothingOf ==
    ASSUME NEW base \in Int, NEW n \in Int, n <= 0
    PROVE  Layout(base, n) = <<>>
<1>1. NumLines(n) \in Int /\ NumLines(n) <= 0
  BY LinesOf
<1>2. [r \in 1..NumLines(n) |-> LayoutLine(base, n, r)] = <<>>
  BY <1>1
<1> QED
  BY <1>2 DEF Layout

-----------------------------------------------------------------------------
(* The headers of a packet, and where its dumps end.                       *)
LEMMA Extents ==
    ASSUME NEW p \in Packets
    PROVE  /\ p.size \in Nat /\ p.size <= BufSize
           /\ \A s \in Sections :
                /\ Base(p, s) \in Nat /\ Size(p, s) \in Int
                /\ Base(p, s) + Size(p, s) <= BufSize
           /\ Base(p, 1) = 0 /\ Size(p, 1) >= 0 /\ Size(p, 2) >= 0
           /\ Base(p, 2) = Size(p, 1)
           /\ Base(p, 3) = Base(p, 2) + Size(p, 2)
           /\ Base(p, 3) + Size(p, 3) = p.size
<1>1. PICK by \in Sources, h \in Ihls, d \in Doffs, r \in Rests :
          p = [source |-> by, ihl |-> h, doff |-> d, size |-> h * 4 + r]
  BY DEF Packets
<1>2. p.ihl = h /\ p.doff = d /\ p.size = h * 4 + r
  BY <1>1
<1>3. h \in 5..15 /\ d \in 0..15 /\ r \in Nat /\ h * 4 + r <= BufSize
      /\ BufSize \in Nat /\ BufSize >= 120
  BY HeaderAssumption, BufferAssumption
<1>4. /\ Base(p, 1) = 0 /\ Base(p, 2) = h * 4 /\ Base(p, 3) = h * 4 + d * 4
      /\ Size(p, 1) = h * 4 /\ Size(p, 2) = d * 4
      /\ Size(p, 3) = h * 4 + r - d * 4 - h * 4
  <2>1. Base(p, 1) = 0 /\ Size(p, 1) = p.ihl * 4
    BY DEF Base, Size
  <2>2. Base(p, 2) = p.ihl * 4 /\ Size(p, 2) = p.doff * 4
    BY DEF Base, Size
  <2>3. /\ Base(p, 3) = p.ihl * 4 + p.doff * 4
        /\ Size(p, 3) = p.size - p.doff * 4 - p.ihl * 4
    BY DEF Base, Size
  <2> QED
    BY <2>1, <2>2, <2>3, <1>2, <1>3
<1>5. \A s \in Sections : s = 1 \/ s = 2 \/ s = 3
  BY DEF Sections
<1>6. /\ \A s \in Sections :
             /\ Base(p, s) \in Nat /\ Size(p, s) \in Int
             /\ Base(p, s) + Size(p, s) <= BufSize
  BY <1>3, <1>4, <1>5
<1> QED
  BY <1>2, <1>3, <1>4, <1>6

-----------------------------------------------------------------------------
LEMMA InitInv == Init => IndInv
<1> SUFFICES ASSUME Init PROVE IndInv
  OBVIOUS
<1>1. \A s \in Sections : rows[s] = <<>>
  BY DEF Init
<1>2. rows = [s \in Sections |-> rows[s]] /\ section \in Sections
  BY DEF Init, Sections
<1> QED
  BY <1>1, <1>2, CountAssumption DEF Init, IndInv

(* What a turn of the loop finds: byte i is in column d of line q + 1, the *)
(* q lines above are full, and it has made the line one byte longer.       *)
LEMMA Turn ==
    ASSUME packet \in Packets, section \in Sections,
           NEW q0 \in Nat, NEW d0 \in 0..Columns, Midway(q0, d0)
    PROVE  \E q \in Nat, d \in 0..(Columns - 1) :
               /\ i = q * Columns + d /\ i % Columns = d
               /\ Above = FullLines(Base(packet, section), q)
               /\ Line = Partial(Base(packet, section) + q * Columns, d + 1)
<1> DEFINE base == Base(packet, section)
<1>1. base \in Nat
  BY Extents
<1> HIDE DEF base
<1>2. /\ i = q0 * Columns + d0
      /\ d0 = 0 => q0 = 0
      /\ rows[section] = FullLines(base, q0)
      /\ row = Partial(base + q0 * Columns, d0)
  BY DEF Midway, base
<1>3. /\ q0 * Columns \in Int /\ 0 <= q0 * Columns
      /\ (q0 + 1) * Columns = q0 * Columns + Columns
      /\ q0 > 0 => q0 * Columns >= Columns
  <2>1. 0 * Columns = 0 /\ 1 * Columns = Columns
    BY WidthAssumption
  <2> QED
    BY <2>1, Multiples
<1>4. Partial(base + q0 * Columns, d0).hex = Span(base + q0 * Columns, d0)
  BY DEF Partial
<1>5. CASE d0 = Columns
  <2>1. i = (q0 + 1) * Columns + 0 /\ q0 + 1 \in Nat /\ 0 \in 0..(Columns - 1)
    BY <1>2, <1>3, <1>5, WidthAssumption
  <2>2. i % Columns = 0 /\ i # 0
    BY <2>1, ByteAt, <1>3, WidthAssumption
  <2>3. Run(i - Columns, i - 1) = Span(base + q0 * Columns, Columns)
    <3>1. i - Columns = q0 * Columns /\ i - 1 - (i - Columns) + 1 = Columns
      BY <2>1, <1>3, WidthAssumption
    <3> DEFINE from == i - Columns
               to == i - 1
    <3>2. Run(from, to) = [k \in 1..(to - from + 1) |-> base + from + k - 1]
      BY DEF Run, base
    <3> QED
      BY <3>1, <3>2, WidthAssumption DEF Span
  <2>4. [row EXCEPT !.text = Run(i - Columns, i - 1)] = FullLine(base, q0 + 1)
    <3>1. (q0 + 1) - 1 = q0
      OBVIOUS
    <3> QED
      BY <3>1, <2>3, <1>2, <1>5 DEF Partial, FullLine
  <2>5. Above = FullLines(base, q0 + 1)
    <3>1. Above = Append(FullLines(base, q0), FullLine(base, q0 + 1))
      BY <2>2, <2>4, <1>2 DEF Above, StartsLine
    <3>2. Append(FullLines(base, q0), FullLine(base, q0 + 1))
              = FullLines(base, q0 + 1)
      <4>1. base \in Int
        BY <1>1
      <4> QED
        BY <4>1, FullLonger, Zenon
    <3> QED
      BY <3>1, <3>2
  <2>6. Line = Partial(base + (q0 + 1) * Columns, 0 + 1)
    <3>1. Line = [EmptyRow EXCEPT !.hex = Append(EmptyRow.hex, base + i)]
      BY <2>2 DEF Line, StartsLine, base
    <3>2. Append(<<>>, base + i) = Span(base + i, 1)
      BY <1>1, <2>1, <1>3, WidthAssumption DEF Span
    <3>3. i = (q0 + 1) * Columns /\ 0 + 1 = 1
      BY <2>1, <1>3, WidthAssumption
    <3>4. Line = Partial(base + i, 1)
      BY <3>1, <3>2 DEF EmptyRow, Partial
    <3> QED
      BY <3>3, <3>4
  <2> QED
    BY <2>1, <2>2, <2>5, <2>6 DEF base
<1>6. CASE d0 # Columns
  <2>1. d0 \in 0..(Columns - 1)
    BY <1>6, WidthAssumption
  <2>2. i % Columns = d0
    BY <2>1, <1>2, ByteAt
  <2>3. ~StartsLine
    <3>1. ASSUME d0 = 0 PROVE i = 0
      BY <3>1, <1>2, WidthAssumption
    <3> QED
      BY <3>1, <2>2 DEF StartsLine
  <2>4. Above = FullLines(base, q0)
    BY <2>3, <1>2 DEF Above
  <2>5. Line = Partial(base + q0 * Columns, d0 + 1)
    <3>1. Line = [row EXCEPT !.hex = Append(row.hex, base + i)]
      BY <2>3 DEF Line, base
    <3> DEFINE from == base + q0 * Columns
    <3>2. base + i = from + d0 /\ from \in Int
      BY <1>1, <1>2, <1>3
    <3>3. row = Partial(from, d0) /\ Partial(from, d0).hex = Span(from, d0)
      BY <1>2, <1>4
    <3> HIDE DEF from
    <3>4. Append(Span(from, d0), from + d0) = Span(from, d0 + 1)
      <4>1. d0 \in Nat
        BY <2>1, WidthAssumption
      <4> QED
        BY <3>2, <4>1, Longer, Zenon
    <3>5. Line = Partial(from, d0 + 1)
      BY <3>1, <3>2, <3>3, <3>4 DEF Partial
    <3> QED
      BY <3>5 DEF from
  <2> QED
    BY <1>2, <2>1, <2>2, <2>4, <2>5 DEF base
<1> QED
  BY <1>5, <1>6

(* The last byte of a dump completes its last line.                        *)
LEMMA LastTurn ==
    ASSUME packet \in Packets, section \in Sections,
           NEW q \in Nat, NEW d \in 0..(Columns - 1),
           i = q * Columns + d, i % Columns = d,
           i = Size(packet, section) - 1,
           Above = FullLines(Base(packet, section), q),
           Line = Partial(Base(packet, section) + q * Columns, d + 1)
    PROVE  Append(Above, LastLine) = Layout(Base(packet, section), Size(packet, section))
<1> DEFINE base == Base(packet, section)
           last == [hex |-> Span(base + q * Columns, d + 1), pad |-> Columns - 1 - d,
                    text |-> Span(base + q * Columns, d + 1)]
<1>1. base \in Int /\ Size(packet, section) \in Int
  BY Extents
<1>2. Size(packet, section) = q * Columns + d + 1 /\ q * Columns \in Int
  BY <1>1, Multiples
<1>3. Run(i - (i % Columns), i) = Span(base + q * Columns, d + 1)
  <2>1. i - (i % Columns) = q * Columns /\ i - (q * Columns) + 1 = d + 1
    BY <1>2, WidthAssumption
  <2>2. Run(q * Columns, i) =
            [k \in 1..(i - (q * Columns) + 1) |-> base + q * Columns + k - 1]
    BY DEF Run
  <2> QED
    BY <2>1, <2>2 DEF Span
<1>4. LastLine = last
  <2>1. Line.hex = Span(base + q * Columns, d + 1)
    BY DEF Partial
  <2>2. (Columns - 1) - (i % Columns) = Columns - 1 - d
    OBVIOUS
  <2> QED
    BY <1>3, <2>1, <2>2, Zenon DEF LastLine
<1>5. Layout(base, q * Columns + d + 1) = Append(FullLines(base, q), last)
  <2> HIDE DEF base
  <2> QED
    BY <1>1, LayoutOf, Zenon
<1> QED
  BY <1>2, <1>4, <1>5

LEMMA PrintByteKeeps == IndInv /\ PrintByte => IndInv'
<1> SUFFICES ASSUME IndInv, PrintByte PROVE IndInv'
  OBVIOUS
<1> DEFINE n == Size(packet, section)
           base == Base(packet, section)
<1>1. /\ packet \in Packets /\ section \in Sections /\ i \in Nat
      /\ pc = "print" /\ PrintInv /\ i < n
      /\ rows = [s \in Sections |-> rows[s]]
      /\ n \in Int /\ base \in Nat
  BY Extents DEF PrintByte, IndInv, PrintInv
<1>2. PICK q0 \in Nat, d0 \in 0..Columns : Midway(q0, d0)
  BY <1>1 DEF PrintInv
<1>3. PICK q \in Nat, d \in 0..(Columns - 1) :
          /\ i = q * Columns + d /\ i % Columns = d
          /\ Above = FullLines(base, q)
          /\ Line = Partial(base + q * Columns, d + 1)
  BY <1>1, <1>2, Turn
<1>4. /\ i' = i + 1
      /\ UNCHANGED <<argc, pc, packet, numPackets, section>>
      /\ n' = n /\ base' = base
  BY DEF PrintByte
<1>5. \E new : rows' = [rows EXCEPT ![section] = new]
  BY DEF PrintByte
<1>6. /\ rows' = [s \in Sections |-> rows'[s]]
      /\ \A s \in Sections : s # section => rows'[s] = rows[s]
  BY <1>1, <1>5
<1>7. IF i' < n'
      THEN \E p \in Nat, e \in 0..Columns : Midway(p, e)'
      ELSE Done(section)' /\ row' = EmptyRow
  <2>1. CASE i = n - 1
    <3>1. Append(Above, LastLine) = Layout(base, n)
      BY <1>1, <1>3, <2>1, LastTurn
    <3>2. rows'[section] = Layout(base, n) /\ row' = EmptyRow
      BY <3>1, <2>1, <1>1 DEF PrintByte
    <3>3. Done(section)'
      BY <3>2, <1>4 DEF Done
    <3>4. ~(i' < n')
      BY <1>1, <1>4, <2>1
    <3> QED
      BY <3>2, <3>3, <3>4
  <2>2. CASE i # n - 1
    <3>1. rows'[section] = FullLines(base, q)
      BY <1>1, <1>3, <2>2 DEF PrintByte
    <3>2. row' = Partial(base + q * Columns, d + 1)
      BY <1>3, <2>2 DEF PrintByte
    <3>3. /\ d + 1 \in 0..Columns /\ d + 1 # 0
          /\ q * Columns \in Int /\ i' = q * Columns + (d + 1)
      BY <1>3, <1>4, Multiples, WidthAssumption
    <3>4. Midway(q, d + 1)'
      BY <3>1, <3>2, <3>3, <1>4 DEF Midway
    <3>5. i' < n'
      BY <1>1, <1>4, <2>2
    <3> QED
      BY <3>3, <3>4, <3>5
  <2> QED
    BY <2>1, <2>2
<1>8. PrintInv'
  <2>1. \A s \in Sections : s < section => Done(s)'
    BY <1>1, <1>4, <1>6 DEF PrintInv, Done, Sections
  <2>2. \A s \in Sections : s > section => rows'[s] = <<>>
    BY <1>1, <1>6 DEF PrintInv, Sections
  <2> QED
    BY <1>1, <1>4, <1>7, <2>1, <2>2 DEF PrintInv
<1>9. numPackets > 0 /\ numPackets \in Nat
  BY <1>1, CountAssumption DEF PrintInv, IndInv
<1> QED
  BY <1>1, <1>4, <1>6, <1>8, <1>9 DEF IndInv

(* Behind its last byte a dump is done, and the next one, which may have   *)
(* no byte at all, begins empty.                                           *)
LEMMA NextSectionKeeps == IndInv /\ NextSection => IndInv'
<1> SUFFICES ASSUME IndInv, NextSection PROVE IndInv'
  OBVIOUS
<1>1. /\ packet \in Packets /\ section \in Sections /\ i \in Nat
      /\ pc = "print" /\ PrintInv
      /\ \A s \in Sections : Base(packet, s) \in Nat /\ Size(packet, s) \in Int
  BY Extents DEF NextSection, IndInv, PrintInv
<1>2. ~(i < Size(packet, section))
  BY <1>1 DEF NextSection
<1>3. Done(section) /\ row = EmptyRow
  BY <1>1, <1>2 DEF PrintInv
<1>4. /\ UNCHANGED <<argc, packet, numPackets, rows, row>>
      /\ \A s \in Sections : Done(s)' <=> Done(s)
  BY DEF NextSection, Done
<1>5. numPackets > 0 /\ numPackets \in Nat
  BY <1>1, CountAssumption DEF PrintInv, IndInv
<1>6. CASE section < 3
  <2>1. section' = section + 1 /\ i' = 0 /\ pc' = pc /\ section' \in Sections
    BY <1>1, <1>6 DEF NextSection, Sections
  <2>2. /\ \A s \in Sections : s < section' => Done(s)'
        /\ \A s \in Sections : s > section' => rows'[s] = <<>>
        /\ rows'[section'] = <<>>
    BY <1>1, <1>3, <1>4, <2>1 DEF PrintInv, Sections
  <2>3. CASE 0 < Size(packet, section')
    <3>1. FullLines(Base(packet, section'), 0) = <<>>
      BY DEF FullLines
    <3>2. EmptyRow = Partial(Base(packet, section') + 0 * Columns, 0)
      <4>1. Span(Base(packet, section') + 0 * Columns, 0) = <<>>
        BY DEF Span
      <4> QED
        BY <4>1 DEF EmptyRow, Partial
    <3>3. 0 = 0 * Columns + 0 /\ 0 \in 0..Columns /\ 0 \in Nat
      BY WidthAssumption
    <3>4. Midway(0, 0)'
      BY <3>1, <3>2, <3>3, <2>1, <2>2, <1>3, <1>4 DEF Midway
    <3>5. i' < Size(packet', section')
      BY <2>1, <2>3, <1>4
    <3>6. \E q \in Nat, d \in 0..Columns : Midway(q, d)'
      BY <3>3, <3>4
    <3>7. PrintInv'
      BY <3>5, <3>6, <2>1, <2>2, <1>1, <1>4, <1>5 DEF PrintInv
    <3> QED
      BY <3>7, <2>1, <1>1, <1>4, <1>5 DEF IndInv
  <2>4. CASE ~(0 < Size(packet, section'))
    <3> DEFINE m == Size(packet, section')
               base == Base(packet, section')
    <3>1. m \in Int /\ base \in Int /\ m <= 0
      BY <1>1, <2>1, <2>4
    <3> HIDE DEF m, base
    <3>2. Layout(base, m) = <<>>
      BY <3>1, NothingOf
    <3>3. Done(section)'
      BY <3>2, <2>2, <1>4 DEF Done, m, base
    <3>4. ~(i' < Size(packet', section'))
      BY <3>1, <2>1, <1>4 DEF m
    <3>5. PrintInv'
      BY <3>3, <3>4, <2>1, <2>2, <1>1, <1>3, <1>4, <1>5 DEF PrintInv
    <3> QED
      BY <3>5, <2>1, <1>1, <1>4, <1>5 DEF IndInv
  <2> QED
    BY <2>3, <2>4
<1>7. CASE ~(section < 3)
  <2>1. pc' = "receive" /\ section' = section /\ i' = i
    BY <1>7 DEF NextSection
  <2>2. \A s \in Sections : Done(s)'
    BY <1>1, <1>3, <1>4, <1>7 DEF PrintInv, Sections
  <2> QED
    BY <2>1, <2>2, <1>1, <1>3, <1>4, <1>5 DEF IndInv
<1> QED
  BY <1>6, <1>7


(* A packet that is not logged leaves the dumps of the last one alone.     *)
LEMMA ReceiveKeeps ==
    ASSUME NEW p \in Packets, IndInv, Receive(p)
    PROVE  IndInv'
<1> USE CountAssumption
<1>1. /\ pc = "receive" /\ numPackets < MaxPackets /\ numPackets \in Nat
      /\ row = EmptyRow /\ argc' = argc
  BY DEF IndInv, Receive
<1>2. CASE argc > 2
  <2>1. /\ pc' = "crashed" /\ packet' = p
        /\ UNCHANGED <<numPackets, section, i, rows, row>>
    BY <1>2 DEF Receive
  <2> QED
    BY <1>1, <1>2, <2>1 DEF IndInv
<1>3. CASE ~(argc > 2) /\ Filter(p)
  <2>1. /\ pc' = "print" /\ packet' = p /\ numPackets' = numPackets + 1
        /\ section' = 1 /\ i' = 0 /\ row' = EmptyRow
        /\ rows' = [s \in Sections |-> <<>>]
    BY <1>3 DEF Receive
  <2>2. /\ section' \in Sections /\ \A s \in Sections : rows'[s] = <<>>
        /\ rows' = [s \in Sections |-> rows'[s]]
        /\ \A s \in Sections : ~(s < section')
    BY <2>1 DEF Sections
  <2>3. IF i' < Size(packet', section')
        THEN \E q \in Nat, d \in 0..Columns : Midway(q, d)'
        ELSE Done(section)' /\ row' = EmptyRow
    <3> DEFINE m == Size(p, 1)
    <3>1. Base(p, 1) = 0 /\ m \in Int
      BY Extents DEF Sections
    <3>2. CASE 0 < m
      <4>1. FullLines(Base(p, 1), 0) = <<>>
        BY DEF FullLines
      <4>2. EmptyRow = Partial(Base(p, 1) + 0 * Columns, 0)
        <5>1. Span(Base(p, 1) + 0 * Columns, 0) = <<>>
          BY DEF Span
        <5> QED
          BY <5>1 DEF EmptyRow, Partial
      <4>3. 0 = 0 * Columns + 0 /\ 0 \in 0..Columns /\ 0 \in Nat
        BY WidthAssumption
      <4>4. Midway(0, 0)'
        BY <4>1, <4>2, <4>3, <2>1, <2>2 DEF Midway
      <4> QED
        BY <4>3, <4>4, <3>2, <2>1
    <3>3. CASE ~(0 < m)
      <4>1. Layout(0, m) = <<>>
        BY <3>1, <3>3, NothingOf
      <4> QED
        BY <4>1, <3>1, <3>3, <2>1, <2>2 DEF Done
    <3> QED
      BY <3>2, <3>3
  <2>4. PrintInv'
    BY <1>1, <2>1, <2>2, <2>3 DEF PrintInv
  <2> QED
    BY <1>1, <1>3, <2>1, <2>2, <2>4 DEF IndInv
<1>4. CASE ~(argc > 2) /\ ~Filter(p)
  <2>1. UNCHANGED vars
    BY <1>1, <1>4 DEF Receive, vars
  <2> QED
    BY <2>1 DEF vars, IndInv, PrintInv, Done, Midway
<1> QED
  BY <1>2, <1>3, <1>4

LEMMA StepInv == IndInv /\ [Next]_vars => IndInv'
<1> SUFFICES ASSUME IndInv, [Next]_vars PROVE IndInv'
  OBVIOUS
<1>1. ASSUME NEW p \in Packets, Receive(p) PROVE IndInv'
  BY <1>1, ReceiveKeeps
<1>2. CASE ReceiveFails
  BY <1>2 DEF ReceiveFails, IndInv, PrintInv, Done
<1>3. CASE PrintByte
  BY <1>3, PrintByteKeeps
<1>4. CASE NextSection
  BY <1>4, NextSectionKeeps
<1>5. CASE Stopped \/ UNCHANGED vars
  BY <1>5 DEF Stopped, vars, IndInv, PrintInv, Done, Midway
<1> QED
  BY <1>1, <1>2, <1>3, <1>4, <1>5 DEF Next

LEMMA Invariance == Spec => []IndInv
<1> QED
  BY InitInv, StepInv, PTL DEF Spec

-----------------------------------------------------------------------------
(* Every dump that is printed to its end is laid out exactly as it should  *)
(* be, whatever the lengths in the headers and the width of a line.        *)
THEOREM DumpExactCorrect == Spec => []DumpExact
<1>1. ASSUME IndInv PROVE DumpExact
  <2> SUFFICES ASSUME NEW s \in Sections, Printed(s)
               PROVE  Done(s)
    BY DEF DumpExact, Done
  <2>1. CASE pc = "print" /\ s < section
    BY <1>1, <2>1 DEF IndInv, PrintInv
  <2>2. CASE pc = "print" /\ s = section /\ i >= Size(packet, s)
    <3>1. packet \in Packets /\ i \in Nat /\ PrintInv
      BY <1>1, <2>2 DEF IndInv, PrintInv
    <3>2. ~(i < Size(packet, section))
      BY <2>2, <3>1, Extents
    <3> QED
      BY <2>2, <3>1, <3>2 DEF PrintInv
  <2>3. CASE pc \in {"receive", "failed"} /\ numPackets > 0
    BY <1>1, <2>3 DEF IndInv
  <2> QED
    BY <2>1, <2>2, <2>3 DEF Printed
<1> QED
  BY <1>1, Invariance, PTL

(* Lines of a dump that show bytes before the bound only.                  *)
LinesWithin(bound) ==
    { l \in [hex : Seq(Nat), pad : 0..Columns, text : Seq(Nat)] : Below(l, bound) }

LEMMA LineWithin ==
    ASSUME NEW from \in Nat, NEW w \in Nat, NEW p \in 0..Columns,
           NEW bound \in Int, from + w <= bound
    PROVE  [hex |-> Span(from, w), pad |-> p, text |-> Span(from, w)]
               \in LinesWithin(bound)
<1>1. /\ Span(from, w) \in Seq(Nat)
      /\ \A k \in DOMAIN Span(from, w) : Span(from, w)[k] < bound
  BY DEF Span
<1> DEFINE bytes == Span(from, w)
<1> HIDE DEF bytes
<1> QED
  BY <1>1 DEF LinesWithin, Below, bytes

(* A line of the layout: where it begins and how many bytes it has.        *)
LEMMA LayoutLineIs ==
    ASSUME NEW base \in Nat, NEW n \in Int,
           NEW r \in Nat \ {0}, r <= NumLines(n)
    PROVE  /\ (r - 1) * Columns \in Nat
           /\ \E w \in 1..Columns :
                /\ (r - 1) * Columns + w <= n
                /\ r * Columns <= n \/ (r - 1) * Columns + w = n
                /\ r * Columns <= n => w = Columns
                /\ LayoutLine(base, n, r) =
                       [hex |-> Span(base + (r - 1) * Columns, w), pad |-> Columns - w,
                        text |-> Span(base + (r - 1) * Columns, w)]
<1> DEFINE from == (r - 1) * Columns
           to == IF r * Columns < n THEN r * Columns ELSE n
           w == to - from
<1>1. /\ from \in Int /\ r * Columns = from + Columns /\ from >= 0
  <2>1. r - 1 \in Nat /\ (r - 1) + 1 = r
    OBVIOUS
  <2>2. (r - 1) * Columns \in Nat
    BY <2>1, BytesAbove
  <2> QED
    BY <2>1, <2>2, Multiples
<1>2. from < n
  BY LinesOf
<1>3. /\ w \in 1..Columns /\ from + w <= n
      /\ r * Columns <= n \/ from + w = n
      /\ r * Columns <= n => w = Columns
  BY <1>1, <1>2, WidthAssumption
<1>4. LayoutLine(base, n, r) =
          [hex |-> [k \in 1..(to - from) |-> base + from + k - 1],
           pad |-> Columns - (to - from),
           text |-> [k \in 1..(to - from) |-> base + from + k - 1]]
  BY DEF LayoutLine
<1>5. LayoutLine(base, n, r) =
          [hex |-> Span(base + from, w), pad |-> Columns - w,
           text |-> Span(base + from, w)]
  BY <1>4 DEF Span
<1> HIDE DEF w, from
<1>6. from \in Nat
  BY <1>1
<1> QED
  BY <1>3, <1>5, <1>6 DEF from

LEMMA LayoutWithin ==
    ASSUME NEW base \in Nat, NEW n \in Int
    PROVE  Layout(base, n) \in Seq(LinesWithin(base + n))
<1>1. CASE n <= 0
  <2>1. Layout(base, n) = <<>>
    BY <1>1, NothingOf
  <2> QED
    BY <2>1
<1>2. CASE n > 0
  <2> DEFINE m == NumLines(n)
  <2>1. m \in Nat
    <3>1. 1 <= m <=> (1 - 1) * Columns < n
      BY LinesOf
    <3>2. (1 - 1) * Columns = 0 /\ m \in Int
      BY LinesOf, WidthAssumption
    <3> QED
      BY <3>1, <3>2, <1>2
  <2>2. ASSUME NEW r \in 1..m PROVE LayoutLine(base, n, r) \in LinesWithin(base + n)
    <3>1. r \in Nat \ {0} /\ r <= NumLines(n)
      BY <2>1
    <3>2. PICK w \in 1..Columns :
            /\ (r - 1) * Columns + w <= n
            /\ LayoutLine(base, n, r) =
                   [hex |-> Span(base + (r - 1) * Columns, w), pad |-> Columns - w,
                    text |-> Span(base + (r - 1) * Columns, w)]
      BY <3>1, LayoutLineIs
    <3> DEFINE from == base + (r - 1) * Columns
               blank == Columns - w
    <3>3. from \in Nat /\ w \in Nat /\ blank \in 0..Columns /\ base + n \in Int
          /\ from + w <= base + n
      <4>1. (r - 1) * Columns \in Nat
        BY <3>1, LayoutLineIs
      <4> QED
        BY <4>1, <3>2, WidthAssumption
    <3>4. LayoutLine(base, n, r) = [hex |-> Span(from, w), pad |-> blank, text |-> Span(from, w)]
      BY <3>2
    <3> HIDE DEF from, blank
    <3> QED
      BY <3>3, <3>4, LineWithin
  <2> HIDE DEF m
  <2>3. [r \in 1..m |-> LayoutLine(base, n, r)] \in Seq(LinesWithin(base + n))
    BY <2>1, <2>2
  <2> QED
    BY <2>3 DEF Layout, m
<1> QED
  BY <1>1, <1>2

LEMMA FullLinesWithin ==
    ASSUME NEW base \in Nat, NEW q \in Nat, NEW n \in Int, q * Columns <= n
    PROVE  FullLines(base, q) \in Seq(LinesWithin(base + n))
<1>1. ASSUME NEW r \in 1..q PROVE FullLine(base, r) \in LinesWithin(base + n)
  <2>1. r - 1 \in Nat /\ (r - 1) + 1 = r /\ r \in Int /\ r <= q
    OBVIOUS
  <2>2. /\ (r - 1) * Columns \in Nat
        /\ r * Columns = (r - 1) * Columns + Columns
        /\ r * Columns <= q * Columns /\ q * Columns \in Int
    <3>1. (r - 1) * Columns \in Nat
      BY <2>1, BytesAbove, Zenon
    <3>2. r * Columns <= q * Columns /\ q * Columns \in Int
      BY <2>1, Multiples
    <3>3. ((r - 1) + 1) * Columns = (r - 1) * Columns + Columns
      BY <2>1, Multiples
    <3> QED
      BY <3>1, <3>2, <3>3, <2>1
  <2> DEFINE from == base + (r - 1) * Columns
  <2>3. from \in Nat /\ Columns \in Nat /\ 0 \in 0..Columns /\ base + n \in Int
        /\ from + Columns <= base + n
    BY <2>1, <2>2, WidthAssumption
  <2> HIDE DEF from
  <2>4. [hex |-> Span(from, Columns), pad |-> 0, text |-> Span(from, Columns)]
            \in LinesWithin(base + n)
    BY <2>3, LineWithin
  <2> QED
    BY <2>4 DEF FullLine, from
<1>2. [r \in 1..q |-> FullLine(base, r)] \in Seq(LinesWithin(base + n))
  BY <1>1
<1> QED
  BY <1>2 DEF FullLines

(* Nothing a dump shows lies behind its own end: packet in hand, its       *)
(* finished lines and the line that is being printed.                      *)
LEMMA DumpsWithin ==
    ASSUME IndInv, pc = "print" \/ numPackets > 0
    PROVE  /\ packet \in Packets
           /\ \A s \in Sections :
                rows[s] \in Seq(LinesWithin(Base(packet, s) + Size(packet, s)))
<1>1. /\ packet \in Packets /\ section \in Sections /\ i \in Nat
      /\ \A s \in Sections : Base(packet, s) \in Nat /\ Size(packet, s) \in Int
  BY Extents DEF IndInv, PrintInv
<1>2. ASSUME NEW s \in Sections, Done(s)
      PROVE  rows[s] \in Seq(LinesWithin(Base(packet, s) + Size(packet, s)))
  BY <1>1, <1>2, LayoutWithin DEF Done
<1>3. ASSUME NEW s \in Sections, rows[s] = <<>>
      PROVE  rows[s] \in Seq(LinesWithin(Base(packet, s) + Size(packet, s)))
  BY <1>3
<1>4. ASSUME NEW s \in Sections, ~Done(s), rows[s] # <<>>
      PROVE  rows[s] \in Seq(LinesWithin(Base(packet, s) + Size(packet, s)))
  <2>1. s = section /\ PrintInv /\ i < Size(packet, section)
    BY <1>1, <1>4 DEF IndInv, PrintInv, Sections
  <2>2. PICK q \in Nat, d \in 0..Columns : Midway(q, d)
    BY <2>1 DEF PrintInv
  <2> DEFINE base == Base(packet, section)
             n == Size(packet, section)
  <2>3. base \in Nat /\ n \in Int
    BY <1>1
  <2>4. i = q * Columns + d /\ rows[section] = FullLines(base, q) /\ i < n
    BY <2>1, <2>2 DEF Midway
  <2> HIDE DEF base, n
  <2>5. q * Columns <= n
    BY <2>3, <2>4, <1>1, Multiples, WidthAssumption
  <2>6. FullLines(base, q) \in Seq(LinesWithin(base + n))
    BY <2>3, <2>5, FullLinesWithin
  <2> QED
    BY <2>1, <2>4, <2>6 DEF base, n
<1> QED
  BY <1>1, <1>2, <1>3, <1>4

LEMMA RowWithin ==
    ASSUME IndInv
    PROVE  /\ row \in [hex : Seq(Nat), pad : {0}, text : {<<>>}]
           /\ Len(row.hex) <= Columns
           /\ row # EmptyRow =>
                packet \in Packets /\
                Below(row, Base(packet, section) + Size(packet, section))
<1>1. CASE row = EmptyRow
  BY <1>1, WidthAssumption DEF EmptyRow
<1>2. CASE row # EmptyRow
  <2>1. PrintInv /\ i < Size(packet, section) /\ packet \in Packets
        /\ section \in Sections /\ i \in Nat
    BY <1>2 DEF IndInv, PrintInv
  <2>2. PICK q \in Nat, d \in 0..Columns : Midway(q, d)
    BY <2>1 DEF PrintInv
  <2> DEFINE base == Base(packet, section)
             n == Size(packet, section)
             from == base + q * Columns
  <2>3. base \in Nat /\ n \in Int
    BY <2>1, Extents
  <2>4. i = q * Columns + d /\ row = Partial(from, d) /\ i < n
    BY <2>1, <2>2 DEF Midway
  <2>5. from \in Nat /\ d \in Nat /\ from + d <= base + n
    <3>1. q * Columns \in Nat
      BY BytesAbove
    <3> QED
      BY <3>1, <2>3, <2>4, <2>1, WidthAssumption
  <2> HIDE DEF base, n, from
  <2>6. /\ Span(from, d) \in Seq(Nat) /\ Len(Span(from, d)) = d
        /\ \A k \in DOMAIN Span(from, d) : Span(from, d)[k] < base + n
    BY <2>3, <2>5 DEF Span
  <2>7. /\ row = [hex |-> Span(from, d), pad |-> 0, text |-> <<>>]
        /\ d <= Columns
    BY <2>4, WidthAssumption DEF Partial
  <2> DEFINE bytes == Span(from, d)
  <2> HIDE DEF bytes
  <2>8. Below(row, base + n)
    BY <2>6, <2>7 DEF Below, bytes
  <2>9. row \in [hex : Seq(Nat), pad : {0}, text : {<<>>}] /\ Len(row.hex) <= Columns
    BY <2>6, <2>7 DEF bytes
  <2> QED
    BY <2>1, <2>8, <2>9 DEF base, n
<1> QED
  BY <1>1, <1>2

LEMMA WithinMore ==
    ASSUME NEW a \in Int, NEW b \in Int, a <= b
    PROVE  LinesWithin(a) \subseteq LinesWithin(b)
<1> SUFFICES ASSUME NEW l \in LinesWithin(a) PROVE l \in LinesWithin(b)
  OBVIOUS
<1>1. l \in [hex : Seq(Nat), pad : 0..Columns, text : Seq(Nat)] /\ Below(l, a)
  BY DEF LinesWithin
<1>2. /\ \A k \in DOMAIN l.hex : l.hex[k] \in Nat
      /\ \A k \in DOMAIN l.text : l.text[k] \in Nat
  BY <1>1
<1>3. Below(l, b)
  BY <1>1, <1>2 DEF Below
<1> QED
  BY <1>1, <1>3 DEF LinesWithin

(* Every variable keeps its type.                                          *)
THEOREM TypeCorrect == Spec => []TypeOK
<1>1. ASSUME IndInv PROVE TypeOK
  <2> DEFINE Lines == [hex : Seq(Nat), pad : 0..Columns, text : Seq(Nat)]
  <2>1. ASSUME NEW s \in Sections PROVE rows[s] \in Seq(Lines)
    <3>1. CASE pc = "print" \/ numPackets > 0
      <4> DEFINE bound == Base(packet, s) + Size(packet, s)
      <4>1. rows[s] \in Seq(LinesWithin(bound))
        BY <1>1, <3>1, DumpsWithin
      <4>2. LinesWithin(bound) \subseteq Lines
        BY DEF LinesWithin
      <4> HIDE DEF bound, Lines
      <4> QED
        BY <4>1, <4>2
    <3>2. CASE ~(pc = "print" \/ numPackets > 0)
      <4>1. rows[s] = <<>>
        BY <1>1, <3>2, CountAssumption DEF IndInv
      <4> QED
        BY <4>1
    <3> QED
      BY <3>1, <3>2
  <2>2. rows \in [Sections -> Seq(Lines)]
    BY <2>1, <1>1 DEF IndInv
  <2> QED
    BY <2>2, <1>1, RowWithin DEF TypeOK, IndInv
<1> QED
  BY <1>1, Invariance, PTL

(* Whatever the headers claim, no dump reads behind the buffer, and the    *)
(* dump of the payload shows bytes of this packet only.                    *)
THEOREM InBufferCorrect == Spec => []InBuffer
<1>1. ASSUME IndInv PROVE InBuffer
  <2>1. CASE ~(pc = "print" \/ numPackets > 0)
    <3>1. \A s \in Sections : rows[s] = <<>>
      BY <1>1, <2>1, CountAssumption DEF IndInv
    <3>2. row = EmptyRow
      BY <1>1, <2>1 DEF IndInv
    <3> QED
      BY <3>1, <3>2 DEF InBuffer, Below, EmptyRow, Sections
  <2>2. CASE pc = "print" \/ numPackets > 0
    <3>1. /\ packet \in Packets /\ BufSize \in Nat
          /\ \A s \in Sections :
               /\ rows[s] \in Seq(LinesWithin(Base(packet, s) + Size(packet, s)))
               /\ Base(packet, s) + Size(packet, s) \in Int
               /\ Base(packet, s) + Size(packet, s) <= BufSize
          /\ Base(packet, 3) + Size(packet, 3) = packet.size
      BY <1>1, <2>2, DumpsWithin, Extents, BufferAssumption
    <3>2. ASSUME NEW s \in Sections, NEW k \in DOMAIN rows[s]
          PROVE  Below(rows[s][k], BufSize)
      <4> DEFINE bound == Base(packet, s) + Size(packet, s)
      <4>1. rows[s] \in Seq(LinesWithin(bound)) /\ bound \in Int /\ bound <= BufSize
        BY <3>1
      <4> HIDE DEF bound
      <4>2. rows[s][k] \in LinesWithin(bound)
        BY <4>1
      <4>3. rows[s][k] \in LinesWithin(BufSize)
        BY <4>1, <4>2, <3>1, WithinMore
      <4> QED
        BY <4>3 DEF LinesWithin
    <3>3. ASSUME NEW k \in DOMAIN rows[3]
          PROVE  Below(rows[3][k], packet.size)
      <4>1. rows[3] \in Seq(LinesWithin(packet.size))
        BY <3>1 DEF Sections
      <4>2. rows[3][k] \in LinesWithin(packet.size)
        BY <4>1
      <4> QED
        BY <4>2 DEF LinesWithin
    <3>4. Below(row, IF section = 3 THEN packet.size ELSE BufSize)
      <4>1. CASE row = EmptyRow
        BY <4>1 DEF Below, EmptyRow
      <4>2. CASE row # EmptyRow
        <5> DEFINE bound == Base(packet, section) + Size(packet, section)
        <5>1. /\ Below(row, bound) /\ row.hex \in Seq(Nat) /\ row.text = <<>>
              /\ section \in Sections
          BY <1>1, <4>2, RowWithin DEF IndInv
        <5>2. bound \in Int /\ bound <= BufSize /\ (section = 3 => bound = packet.size)
          BY <5>1, <3>1
        <5> HIDE DEF bound
        <5>3. \A k \in DOMAIN row.hex : row.hex[k] \in Nat /\ row.hex[k] < bound
          BY <5>1 DEF Below
        <5>4. Below(row, BufSize)
          BY <5>1, <5>2, <5>3, <3>1 DEF Below
        <5> QED
          BY <5>1, <5>2, <5>4
      <4> QED
        BY <4>1, <4>2
    <3> QED
      BY <3>2, <3>3, <3>4 DEF InBuffer
  <2> QED
    BY <2>1, <2>2
<1> QED
  BY <1>1, Invariance, PTL

(* The layout of n bytes shows each of them, and no other.                 *)
LEMMA LayoutShows ==
    ASSUME NEW base \in Nat, NEW n \in Nat
    PROVE  UNION { Columnwise(Layout(base, n), c) : c \in 1..Columns }
               = base..(base + n - 1)
<1> DEFINE m == NumLines(n)
           rs == Layout(base, n)
<1>1. m \in Int /\ \A r \in Int : r <= m <=> (r - 1) * Columns < n
  BY LinesOf
<1>2. DOMAIN rs = 1..m /\ \A r \in 1..m : rs[r] = LayoutLine(base, n, r)
  BY DEF Layout
<1> HIDE DEF m, rs
<1>3. ASSUME NEW c \in 1..Columns, NEW x \in Columnwise(rs, c)
      PROVE  x \in base..(base + n - 1)
  <2>1. PICK r \in 1..m : c \in DOMAIN rs[r].hex /\ x = rs[r].hex[c]
    BY <1>2, <1>3 DEF Columnwise
  <2>2. r \in Nat \ {0} /\ r <= NumLines(n) /\ n \in Int
    BY <1>1 DEF m
  <2>3. PICK w \in 1..Columns :
          /\ (r - 1) * Columns + w <= n
          /\ LayoutLine(base, n, r) =
                 [hex |-> Span(base + (r - 1) * Columns, w), pad |-> Columns - w,
                  text |-> Span(base + (r - 1) * Columns, w)]
    BY <2>2, LayoutLineIs, Zenon
  <2> DEFINE from == (r - 1) * Columns
  <2>4. from \in Nat
    BY <2>2, LayoutLineIs
  <2>5. rs[r].hex = Span(base + from, w) /\ from + w <= n
    BY <1>2, <2>3
  <2> HIDE DEF from
  <2>6. c \in 1..w /\ x = base + from + c - 1
    BY <2>1, <2>5 DEF Span
  <2> QED
    BY <2>4, <2>5, <2>6, WidthAssumption
<1>4. ASSUME NEW x \in base..(base + n - 1)
      PROVE  \E c \in 1..Columns : x \in Columnwise(rs, c)
  <2> DEFINE a == x - base
             q == a \div Columns
             c == a - q * Columns + 1
             r == q + 1
  <2>1. a \in Nat /\ a < n /\ q \in Int
    BY WidthAssumption
  <2>2. q * Columns <= a /\ a < q * Columns + Columns /\ q * Columns \in Int
    <3> HIDE DEF a
    <3>1. q * Columns <= a /\ a < q * Columns + Columns
      BY <2>1, PlaceOf
    <3> QED
      BY <3>1, <2>1, Multiples
  <2> HIDE DEF a, q
  <2>3. q \in Nat
    <3>1. SUFFICES ASSUME q <= 0 - 1 PROVE FALSE
      BY <2>1
    <3>2. (0 - 1) * Columns = 0 - Columns
      BY WidthAssumption
    <3>3. q * Columns <= (0 - 1) * Columns
      BY <2>1, <3>1, Multiples
    <3> QED
      BY <3>2, <3>3, <2>1, <2>2, WidthAssumption
  <2>4. /\ r \in Nat \ {0} /\ r - 1 = q /\ (r - 1) * Columns < n
        /\ r * Columns = q * Columns + Columns
    <3>1. (q + 1) * Columns = q * Columns + Columns
      BY <2>1, Multiples
    <3>2. r - 1 = q /\ r \in Nat \ {0}
      BY <2>3
    <3> QED
      BY <3>1, <3>2, <2>1, <2>2
  <2>5. r \in 1..m /\ r <= NumLines(n) /\ n \in Int
    BY <1>1, <2>4 DEF m
  <2>6. PICK w \in 1..Columns :
          /\ (r - 1) * Columns + w <= n
          /\ r * Columns <= n \/ (r - 1) * Columns + w = n
          /\ r * Columns <= n => w = Columns
          /\ LayoutLine(base, n, r) =
                 [hex |-> Span(base + (r - 1) * Columns, w), pad |-> Columns - w,
                  text |-> Span(base + (r - 1) * Columns, w)]
    <3> HIDE DEF r
    <3> QED
      BY <2>4, <2>5, LayoutLineIs, Zenon
  <2>7. c \in 1..w
    BY <2>1, <2>2, <2>4, <2>6, WidthAssumption
  <2>8. rs[r].hex = Span(base + q * Columns, w)
    <3>1. rs[r].hex = Span(base + (r - 1) * Columns, w)
      <4>1. rs[r] = LayoutLine(base, n, r)
        BY <2>5, <1>2
      <4> HIDE DEF r
      <4> QED
        BY <4>1, <2>6
    <3>2. r - 1 = q
      BY <2>4
    <3> HIDE DEF r
    <3> QED
      BY <3>1, <3>2
  <2>9. rs[r].hex[c] = x /\ c \in DOMAIN rs[r].hex
    <3> DEFINE from == base + q * Columns
    <3>1. from + c - 1 = x
      BY <2>1, <2>2 DEF a
    <3>2. rs[r].hex = [k \in 1..w |-> from + k - 1]
      BY <2>8 DEF Span
    <3> HIDE DEF from, c, r
    <3> QED
      BY <3>1, <3>2, <2>7
  <2>10. c \in 1..Columns
    BY <2>7, <2>6, WidthAssumption
  <2> HIDE DEF c, r
  <2>11. x \in Columnwise(rs, c)
    BY <2>9, <2>5, <1>2 DEF Columnwise
  <2> QED
    BY <2>10, <2>11
<1>5. UNION { Columnwise(rs, c) : c \in 1..Columns } \subseteq base..(base + n - 1)
  BY <1>3
<1>6. base..(base + n - 1) \subseteq UNION { Columnwise(rs, c) : c \in 1..Columns }
  BY <1>4
<1> QED
  BY <1>5, <1>6 DEF rs

(* When the headers are not longer than the packet, every byte of it is in *)
(* exactly one of the three dumps.                                         *)
THEOREM DumpsCoverCorrect == Spec => []DumpsCover
<1>1. ASSUME IndInv PROVE DumpsCover
  <2> SUFFICES ASSUME pc = "receive", numPackets > 0, Size(packet, 3) >= 0
               PROVE  /\ Bytes(1) \cup Bytes(2) \cup Bytes(3) = 0..(packet.size - 1)
                      /\ \A s, t \in Sections :
                             s # t => Bytes(s) \cap Bytes(t) = {}
    BY DEF DumpsCover
  <2>1. packet \in Packets /\ \A s \in Sections : Done(s)
    BY <1>1 DEF IndInv
  <2>2. \A s \in Sections :
          Base(packet, s) \in Nat /\ Size(packet, s) \in Int
    BY <2>1, Extents
  <2>3. /\ 1 \in Sections /\ 2 \in Sections /\ 3 \in Sections
        /\ \A s \in Sections : s = 1 \/ s = 2 \/ s = 3
    BY DEF Sections
  <2> DEFINE a == Size(packet, 1)
             b == Base(packet, 3)
             c == Size(packet, 2)
             d == Size(packet, 3)
             e == packet.size
  <2>4. /\ a \in Nat /\ b \in Nat /\ c \in Nat /\ d \in Nat /\ e \in Nat
        /\ Base(packet, 1) = 0 /\ Base(packet, 2) = a
        /\ b = a + c /\ b + d = e
    BY <2>1, <2>2, <2>3, Extents
  <2>5. ASSUME NEW s \in Sections, Size(packet, s) \in Nat
        PROVE  Bytes(s) = Base(packet, s)..(Base(packet, s) + Size(packet, s) - 1)
    BY <2>1, <2>2, <2>5, LayoutShows DEF Bytes, Done
  <2>6. /\ Bytes(1) = 0..(0 + a - 1)
        /\ Bytes(2) = a..(a + c - 1)
        /\ Bytes(3) = b..(b + d - 1)
    BY <2>3, <2>4, <2>5
  <2> HIDE DEF a, b, c, d, e
  <2>7. Bytes(1) \cup Bytes(2) \cup Bytes(3) = 0..(e - 1)
    BY <2>4, <2>6
  <2>8. /\ Bytes(1) \cap Bytes(2) = {}
        /\ Bytes(1) \cap Bytes(3) = {}
        /\ Bytes(2) \cap Bytes(3) = {}
    BY <2>4, <2>6
  <2> QED
    BY <2>3, <2>7, <2>8 DEF e
<1> QED
  BY <1>1, Invariance, PTL
=============================================================================

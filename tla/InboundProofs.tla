---------------------------- MODULE InboundProofs ----------------------------
(***************************************************************************)
(* That every frame build_frame assembles is one parse_frame takes apart   *)
(* again, and what the coordinator therefore hears of a stream.            *)
(***************************************************************************)
EXTENDS Inbound, ReassemblerProofs

\* The right-hand side of Total, with g for the function it defines.
Adding(g, s) == IF s = <<>> THEN 0 ELSE Head(s) + g[Tail(s)]

\* Total satisfies its equation.
LEMMA TotalEquation ==
  \A s \in Seq(Nat) : Total[s] = Adding(Total, s) /\ Total[s] \in Nat
<1> DEFINE V == Nat
           Step == [gs \in [Seq(Nat) -> V] \X Seq(Nat) |-> Adding(gs[1], gs[2])]
<1>0. ASSUME NEW s \in Seq(Nat), s # <<>>
      PROVE  Head(s) \in Nat /\ Tail(s) \in Seq(Nat) /\ Len(Tail(s)) < Len(s)
  BY <1>0
<1>1. 0 \in V
  OBVIOUS
<1>2. ASSUME NEW g \in [Seq(Nat) -> V], NEW t \in Seq(Nat)
      PROVE  Step[<<g, t>>] = Adding(g, t) /\ Adding(g, t) \in V
  <2>1. CASE t = <<>>
    BY <2>1 DEF Adding
  <2>2. CASE t # <<>>
    <3>1. Head(t) \in Nat /\ g[Tail(t)] \in Nat
      BY <1>0, <2>2
    <3>2. Adding(g, t) = Head(t) + g[Tail(t)]
      BY <2>2 DEF Adding
    <3> QED
      BY <3>1, <3>2
  <2> QED
    BY <2>1, <2>2
<1>3. Step \in Steps(V)
  BY <1>2 DEF Steps
<1>4. ASSUME NEW g \in [Seq(Nat) -> V], NEW h \in [Seq(Nat) -> V], NEW t \in Seq(Nat),
             \A u \in Seq(Nat) : Len(u) < Len(t) => g[u] = h[u]
      PROVE  Step[<<g, t>>] = Step[<<h, t>>]
  <2>1. Adding(g, t) = Adding(h, t)
    BY <1>0, <1>4 DEF Adding
  <2> QED
    BY <1>2, <2>1
<1> HIDE DEF V, Step
<1>5. LooksAhead(V, Step)
  BY <1>4 DEF LooksAhead
<1>6. PICK f \in [Seq(Nat) -> V] : Defined(f, Step)
  BY <1>1, <1>3, <1>5, Recursion, Zenon
<1>7. f = [t \in Seq(Nat) |-> Adding(f, t)]
  BY <1>2, <1>6 DEF Defined
<1>8. Total = CHOOSE g : g = [t \in Seq(Nat) |-> Adding(g, t)]
  BY Zenon DEF Total, Adding
<1>9. Total = [t \in Seq(Nat) |-> Adding(Total, t)]
  BY <1>7, <1>8
<1>10. ASSUME NEW t \in Seq(Nat)
       PROVE  Total[t] \in Nat
  <2> DEFINE bad == {u \in Seq(Nat) : Total[u] \notin Nat}
  <2> SUFFICES ASSUME bad # {}
               PROVE  FALSE
    OBVIOUS
  <2>1. PICK u \in bad : \A w \in bad : Len(u) <= Len(w)
    <3>1. bad \in SUBSET Seq(Nat)
      OBVIOUS
    <3> HIDE DEF bad
    <3> QED
      BY <3>1, Shortest
  <2>2. Total[u] = Adding(Total, u)
    BY <1>9
  <2>3. Adding(Total, u) \in Nat
    <3>1. CASE u = <<>>
      BY <3>1 DEF Adding
    <3>2. CASE u # <<>>
      <4>1. Head(u) \in Nat /\ Tail(u) \in Seq(Nat) /\ Len(Tail(u)) < Len(u)
        BY <1>0, <3>2
      <4>2. Total[Tail(u)] \in Nat
        <5>1. Tail(u) \notin bad
          <6>1. Len(u) \in Nat /\ Len(Tail(u)) \in Nat
            BY <4>1
          <6>2. ~(Len(u) <= Len(Tail(u)))
            BY <4>1, <6>1
          <6> HIDE DEF bad
          <6> QED
            BY <2>1, <6>2, Zenon
        <5> QED
          BY <4>1, <5>1
      <4> QED
        BY <3>2, <4>1, <4>2 DEF Adding
    <3> QED
      BY <3>1, <3>2
  <2> QED
    BY <2>2, <2>3
<1> QED
  BY <1>9, <1>10

\* A checksum fits into its two bytes.
LEMMA ChecksumType ==
  ASSUME NEW s \in Seq(Nat)
  PROVE  Checksum(s) \in Nat /\ Checksum(s) < 65536
<1>1. Total[s] \in Nat
  BY TotalEquation
<1> QED
  BY <1>1 DEF Checksum

\* What two bytes can say is what is read from them.
LEMMA WordRead ==
  ASSUME NEW n \in Nat, n < 65536
  PROVE  Word(n) \in Seq(Nat) /\ Len(Word(n)) = 2 /\ Value(Word(n)) = n
<1>1. n \div 256 \in 0..255 /\ n % 256 \in 0..255 /\ n = 256 * (n \div 256) + (n % 256)
  OBVIOUS
<1>2. (n \div 256) % 256 = n \div 256
  BY <1>1
<1> QED
  BY <1>1, <1>2 DEF Word, Value

\* A slice of what comes first is not changed by what follows.
LEMMA SliceBefore ==
  ASSUME NEW s \in Seq(Nat), NEW t \in Seq(Nat), NEW i \in Nat, NEW j \in Nat,
         1 <= i, j <= Len(s)
  PROVE  SubSeq(s \o t, i, j) = SubSeq(s, i, j)
<1> DEFINE long == SubSeq(s \o t, i, j)
           short == SubSeq(s, i, j)
<1>1. s \o t \in Seq(Nat) /\ Len(s \o t) = Len(s) + Len(t)
  OBVIOUS
<1>2. \A k \in i..j : s[k] \in Nat /\ (s \o t)[k] = s[k]
  OBVIOUS
<1>3. \A k \in i..j : (s \o t)[k] \in Nat
  BY <1>2
<1>4. /\ long \in Seq(Nat) /\ Len(long) = (IF i <= j THEN j - i + 1 ELSE 0)
      /\ \A k \in 1..j - i + 1 : long[k] = (s \o t)[i + k - 1]
  BY <1>3, SubSeqProperties
<1>5. /\ short \in Seq(Nat) /\ Len(short) = (IF i <= j THEN j - i + 1 ELSE 0)
      /\ \A k \in 1..j - i + 1 : short[k] = s[i + k - 1]
  BY <1>2, SubSeqProperties
<1>6. Len(long) = Len(short) /\ \A k \in 1..Len(long) : long[k] = short[k]
  <2> HIDE DEF long, short
  <2> QED
    BY <1>2, <1>4, <1>5
<1> HIDE DEF long, short
<1>7. long = short
  BY <1>4, <1>5, <1>6, SeqEqual
<1> QED
  BY <1>7 DEF long, short

\* The slice behind what comes first is what follows.
LEMMA SliceBehind ==
  ASSUME NEW s \in Seq(Nat), NEW t \in Seq(Nat)
  PROVE  SubSeq(s \o t, Len(s) + 1, Len(s) + Len(t)) = t
<1>1. From(s \o t, Len(s) + 1) = t
  BY FramesBehind
<1>2. Len(s \o t) = Len(s) + Len(t)
  OBVIOUS
<1> QED
  BY <1>1, <1>2, Zenon DEF From

\* The slices of u that end within s are those of s.
Begins(u, s) ==
  \A i, j \in Nat : 1 <= i /\ j <= Len(s) => SubSeq(u, i, j) = SubSeq(s, i, j)

LEMMA ConcatBegins == \A s, t \in Seq(Nat) : Begins(s \o t, s)
BY SliceBefore DEF Begins

LEMMA BeginsBegins ==
  ASSUME NEW u, NEW s \in Seq(Nat), NEW r \in Seq(Nat),
         Begins(u, s), Begins(s, r), Len(r) <= Len(s)
  PROVE  Begins(u, r)
<1>1. \A j \in Nat : j <= Len(r) => j <= Len(s)
  OBVIOUS
<1> QED
  BY <1>1, Zenon DEF Begins

LEMMA SlicesBehind ==
  \A s, t \in Seq(Nat) : SubSeq(s \o t, Len(s) + 1, Len(s) + Len(t)) = t
BY SliceBehind

LEMMA ConcatType ==
  \A s, t \in Seq(Nat) : s \o t \in Seq(Nat) /\ Len(s \o t) = Len(s) + Len(t)
OBVIOUS

\* What build_frame is given, and the frame fits what its header can say.
Sendable(serial, password, command, payload) ==
  /\ serial \in Seq(Nat) /\ Len(serial) = SerialLen
  /\ password \in Seq(Nat) /\ Len(password) = PasswordLen
  /\ command \in Nat /\ command < 65536
  /\ payload \in Seq(Nat) /\ FrameMinLen + Len(payload) < 65536

\* parse_frame gets back what build_frame was given.
LEMMA RoundTrip ==
  ASSUME NEW serial, NEW password, NEW command, NEW payload,
         Sendable(serial, password, command, payload)
  PROVE  LET frame == BuildFrame(serial, password, command, payload)
         IN  /\ frame \in Seq(Nat) /\ Len(frame) = FrameMinLen + Len(payload)
             /\ SubSeq(frame, 3, 4) = Word(Len(frame))
             /\ Ours(frame)
             /\ Content(frame) = [serial |-> Hex(serial), command |-> command, payload |-> payload]
<1> DEFINE frame == BuildFrame(serial, password, command, payload)
           size == Word(FrameMinLen + Len(payload))
           code == Word(command)
<1>1. /\ SerialLen \in Nat /\ PasswordLen \in Nat
      /\ FrameMinLen = HeaderLen + 4 /\ HeaderLen = 7 + SerialLen + PasswordLen
      /\ TrailerLen = 4
  BY InboundAssumption DEF FrameMinLen, HeaderLen, TrailerLen
<1>2. /\ serial \in Seq(Nat) /\ Len(serial) = SerialLen
      /\ password \in Seq(Nat) /\ Len(password) = PasswordLen
      /\ payload \in Seq(Nat) /\ Len(payload) \in Nat
  BY DEF Sendable
<1>3. size \in Seq(Nat) /\ Len(size) = 2 /\ Value(size) = FrameMinLen + Len(payload)
  BY <1>1, WordRead DEF Sendable
<1>4. code \in Seq(Nat) /\ Len(code) = 2 /\ Value(code) = command
  BY WordRead DEF Sendable
<1> DEFINE start == FrameMagic \o size
           head == start \o <<0>>
           owned == head \o serial
           known == owned \o password
           named == known \o code
           body == named \o payload
           sum == Word(Checksum(body))
           whole == body \o sum
<1>5. frame = whole \o FrameTail
  BY Zenon DEF BuildFrame
<1> HIDE DEF frame, size, code
<1>6. /\ start = FrameMagic \o size
      /\ head = start \o <<0>>
      /\ owned = head \o serial
      /\ known = owned \o password
      /\ named = known \o code
      /\ body = named \o payload
      /\ whole = body \o sum
  OBVIOUS
<1>7. FrameTail \in Seq(Nat) /\ Len(FrameTail) = 2 /\ <<0>> \in Seq(Nat) /\ Len(<<0>>) = 1
  BY DEF FrameTail
<1>8. FrameMagic \in Seq(Nat) /\ Len(FrameMagic) = 2
  BY DEF FrameMagic
<1> HIDE DEF start, head, owned, known, named, body, sum, whole
<1>9. /\ start \in Seq(Nat) /\ Len(start) = 4
      /\ head \in Seq(Nat) /\ Len(head) = 5
      /\ owned \in Seq(Nat) /\ Len(owned) = 5 + SerialLen
      /\ known \in Seq(Nat) /\ Len(known) = 5 + SerialLen + PasswordLen
      /\ named \in Seq(Nat) /\ Len(named) = HeaderLen
      /\ body \in Seq(Nat) /\ Len(body) = HeaderLen + Len(payload)
      /\ sum \in Seq(Nat) /\ Len(sum) = 2 /\ Value(sum) = Checksum(body)
      /\ whole \in Seq(Nat) /\ Len(whole) = HeaderLen + Len(payload) + 2
  <2>1. start \in Seq(Nat) /\ Len(start) = Len(FrameMagic) + Len(size)
    BY <1>3, <1>6, <1>8, ConcatType, Zenon
  <2>2. head \in Seq(Nat) /\ Len(head) = Len(start) + Len(<<0>>)
    BY <1>6, <1>7, <2>1, ConcatType, Zenon
  <2>3. owned \in Seq(Nat) /\ Len(owned) = Len(head) + Len(serial)
    BY <1>2, <1>6, <2>2, ConcatType, Zenon
  <2>4. known \in Seq(Nat) /\ Len(known) = Len(owned) + Len(password)
    BY <1>2, <1>6, <2>3, ConcatType, Zenon
  <2>5. named \in Seq(Nat) /\ Len(named) = Len(known) + Len(code)
    BY <1>4, <1>6, <2>4, ConcatType, Zenon
  <2>6. body \in Seq(Nat) /\ Len(body) = Len(named) + Len(payload)
    BY <1>2, <1>6, <2>5, ConcatType, Zenon
  <2>7. sum \in Seq(Nat) /\ Len(sum) = 2 /\ Value(sum) = Checksum(body)
    <3>1. Checksum(body) \in Nat /\ Checksum(body) < 65536
      BY <2>6, ChecksumType
    <3> QED
      BY <3>1, WordRead DEF sum
  <2>8. whole \in Seq(Nat) /\ Len(whole) = Len(body) + Len(sum)
    BY <1>6, <2>6, <2>7, ConcatType, Zenon
  <2>9. Len(start) = 4 /\ Len(head) = 5 /\ Len(owned) = 5 + SerialLen
    BY <1>1, <1>2, <1>3, <1>7, <1>8, <2>1, <2>2, <2>3
  <2>10. Len(known) = 5 + SerialLen + PasswordLen /\ Len(named) = HeaderLen
    BY <1>1, <1>2, <1>4, <2>4, <2>5, <2>9
  <2> QED
    BY <1>1, <1>2, <2>1, <2>2, <2>3, <2>4, <2>5, <2>6, <2>7, <2>8, <2>9, <2>10
<1>10. frame \in Seq(Nat) /\ Len(frame) = FrameMinLen + Len(payload)
  <2>1. frame \in Seq(Nat) /\ Len(frame) = Len(whole) + Len(FrameTail)
    BY <1>5, <1>7, <1>9, ConcatType, Zenon
  <2> QED
    BY <1>1, <1>2, <1>7, <1>9, <2>1
<1>11. Begins(frame, whole) /\ Begins(frame, body)
  <2>1. Begins(frame, whole) /\ Begins(whole, body)
    BY <1>5, <1>6, <1>7, <1>9, ConcatBegins, Zenon
  <2>2. Len(body) <= Len(whole)
    BY <1>1, <1>2, <1>9
  <2> QED
    BY <1>9, <2>1, <2>2, BeginsBegins
<1>12. Begins(frame, named) /\ Begins(frame, known)
  <2>1. Begins(body, named) /\ Begins(named, known)
    BY <1>2, <1>4, <1>6, <1>9, ConcatBegins, Zenon
  <2>2. Len(named) <= Len(body) /\ Len(known) <= Len(named)
    BY <1>1, <1>2, <1>9
  <2>3. Begins(frame, named)
    BY <1>9, <1>11, <2>1, <2>2, BeginsBegins
  <2> QED
    BY <1>9, <2>1, <2>2, <2>3, BeginsBegins
<1>13. Begins(frame, owned) /\ Begins(frame, start)
  <2>1. Begins(known, owned) /\ Begins(owned, head) /\ Begins(head, start)
    BY <1>2, <1>6, <1>7, <1>9, ConcatBegins, Zenon
  <2>2. Len(owned) <= Len(known) /\ Len(head) <= Len(owned) /\ Len(start) <= Len(head)
    BY <1>1, <1>9
  <2>3. Begins(frame, owned)
    BY <1>9, <1>12, <2>1, <2>2, BeginsBegins
  <2>4. Begins(frame, head)
    BY <1>9, <2>1, <2>2, <2>3, BeginsBegins
  <2> QED
    BY <1>9, <2>1, <2>2, <2>3, <2>4, BeginsBegins
<1>14. SubSeq(frame, 1, 2) = FrameMagic
  <2>1. Begins(start, FrameMagic)
    BY <1>3, <1>6, <1>8, ConcatBegins, Zenon
  <2>2. Begins(frame, FrameMagic)
    <3>1. Len(FrameMagic) <= Len(start)
      BY <1>8, <1>9
    <3> QED
      BY <1>8, <1>9, <1>13, <2>1, <3>1, BeginsBegins
  <2>3. 1 \in Nat /\ Len(FrameMagic) \in Nat /\ 1 <= 1 /\ Len(FrameMagic) <= Len(FrameMagic)
    BY <1>8
  <2>4. SubSeq(frame, 1, Len(FrameMagic)) = SubSeq(FrameMagic, 1, Len(FrameMagic))
    BY <2>2, <2>3, Zenon DEF Begins
  <2>5. SubSeq(FrameMagic, 1, Len(FrameMagic)) = FrameMagic
    BY <1>8
  <2> QED
    BY <1>8, <2>4, <2>5, Zenon
<1>15. SubSeq(frame, 3, 4) = size
  <2>1. SubSeq(start, Len(FrameMagic) + 1, Len(FrameMagic) + Len(size)) = size
    BY <1>3, <1>6, <1>8, SlicesBehind, Zenon
  <2>2. Len(FrameMagic) + 1 = 3 /\ Len(FrameMagic) + Len(size) = 4
    BY <1>3, <1>8
  <2>3. SubSeq(frame, 3, 4) = SubSeq(start, 3, 4)
    <3>1. 3 \in Nat /\ 4 \in Nat /\ 1 <= 3 /\ 4 <= Len(start)
      BY <1>9
    <3> QED
      BY <1>13, <3>1, Zenon DEF Begins
  <2> QED
    BY <2>1, <2>2, <2>3, Zenon
<1>16. SubSeq(frame, 6, 5 + SerialLen) = serial
  <2>1. SubSeq(owned, Len(head) + 1, Len(head) + Len(serial)) = serial
    BY <1>2, <1>6, <1>9, SlicesBehind, Zenon
  <2>2. Len(head) + 1 = 6 /\ Len(head) + Len(serial) = 5 + SerialLen
    BY <1>1, <1>2, <1>9
  <2>3. 5 + SerialLen \in Nat /\ 5 + SerialLen <= Len(owned) /\ 1 <= 6 /\ 6 \in Nat
    BY <1>1, <1>9
  <2>4. SubSeq(frame, 6, 5 + SerialLen) = SubSeq(owned, 6, 5 + SerialLen)
    BY <1>13, <2>3, Zenon DEF Begins
  <2> QED
    BY <2>1, <2>2, <2>4, Zenon
<1>17. SubSeq(frame, HeaderLen - 1, HeaderLen) = code
  <2>1. SubSeq(named, Len(known) + 1, Len(known) + Len(code)) = code
    BY <1>4, <1>6, <1>9, SlicesBehind, Zenon
  <2>2. Len(known) + 1 = HeaderLen - 1 /\ Len(known) + Len(code) = HeaderLen
    BY <1>1, <1>4, <1>9
  <2>3. HeaderLen - 1 \in Nat /\ HeaderLen \in Nat /\ 1 <= HeaderLen - 1 /\ HeaderLen <= Len(named)
    BY <1>1, <1>9
  <2>4. SubSeq(frame, HeaderLen - 1, HeaderLen) = SubSeq(named, HeaderLen - 1, HeaderLen)
    BY <1>12, <2>3, Zenon DEF Begins
  <2> QED
    BY <2>1, <2>2, <2>4, Zenon
<1>18. SubSeq(frame, HeaderLen + 1, Len(frame) - TrailerLen) = payload
  <2>1. SubSeq(body, Len(named) + 1, Len(named) + Len(payload)) = payload
    BY <1>2, <1>6, <1>9, SlicesBehind, Zenon
  <2>2. /\ Len(named) + 1 = HeaderLen + 1
        /\ Len(named) + Len(payload) = Len(frame) - TrailerLen
        /\ HeaderLen + 1 \in Nat /\ Len(frame) - TrailerLen \in Nat /\ 1 <= HeaderLen + 1
        /\ Len(frame) - TrailerLen <= Len(body)
    <3>1. /\ Len(frame) = Len(body) + 4 /\ Len(body) = Len(named) + Len(payload)
          /\ Len(named) = HeaderLen /\ HeaderLen \in Nat /\ Len(payload) \in Nat
          /\ Len(body) \in Nat
      BY <1>1, <1>2, <1>9, <1>10
    <3> QED
      BY <1>1, <3>1
  <2>3. SubSeq(frame, HeaderLen + 1, Len(frame) - TrailerLen)
          = SubSeq(body, HeaderLen + 1, Len(frame) - TrailerLen)
    BY <1>11, <2>2, Zenon DEF Begins
  <2> QED
    BY <2>1, <2>2, <2>3, Zenon
<1>19. SubSeq(frame, 1, Len(frame) - TrailerLen) = body
  <2>1. /\ Len(frame) - TrailerLen = Len(body) /\ Len(body) \in Nat
        /\ 1 \in Nat /\ 1 <= 1 /\ Len(body) <= Len(body)
    BY <1>1, <1>2, <1>9, <1>10
  <2>2. SubSeq(frame, 1, Len(body)) = SubSeq(body, 1, Len(body))
    BY <1>11, <2>1, Zenon DEF Begins
  <2>3. SubSeq(body, 1, Len(body)) = body
    BY <1>9, SMTT(30)
  <2> QED
    BY <2>1, <2>2, <2>3, Zenon
<1>20. SubSeq(frame, Len(frame) - 3, Len(frame) - 2) = sum
  <2>1. SubSeq(whole, Len(body) + 1, Len(body) + Len(sum)) = sum
    BY <1>6, <1>9, SlicesBehind, Zenon
  <2>2. /\ Len(body) + 1 = Len(frame) - 3 /\ Len(body) + Len(sum) = Len(frame) - 2
        /\ Len(frame) - 3 \in Nat /\ Len(frame) - 2 \in Nat /\ 1 <= Len(frame) - 3
        /\ Len(frame) - 2 <= Len(whole)
    <3>1. /\ Len(frame) = Len(body) + 4 /\ Len(whole) = Len(body) + 2
          /\ Len(sum) = 2 /\ Len(body) \in Nat
      BY <1>1, <1>2, <1>9, <1>10
    <3> QED
      BY <3>1
  <2>3. SubSeq(frame, Len(frame) - 3, Len(frame) - 2) = SubSeq(whole, Len(frame) - 3, Len(frame) - 2)
    BY <1>11, <2>2, Zenon DEF Begins
  <2> QED
    BY <2>1, <2>2, <2>3, Zenon
<1>21. SubSeq(frame, Len(frame) - 1, Len(frame)) = FrameTail
  <2>1. Len(whole) + 1 = Len(frame) - 1 /\ Len(whole) + Len(FrameTail) = Len(frame)
    BY <1>1, <1>2, <1>7, <1>9, <1>10
  <2>2. SubSeq(frame, Len(whole) + 1, Len(whole) + Len(FrameTail)) = FrameTail
    BY <1>5, <1>7, <1>9, SlicesBehind, Zenon
  <2> QED
    BY <2>1, <2>2, Zenon
<1>22. Value(SubSeq(frame, 3, 4)) = Len(frame) /\ SubSeq(frame, 3, 4) = Word(Len(frame))
  BY <1>3, <1>10, <1>15, Zenon DEF size
<1>23. Ours(frame)
  <2>1. Len(frame) >= FrameMinLen
    BY <1>1, <1>2, <1>10
  <2> QED
    BY <1>9, <1>14, <1>19, <1>20, <1>21, <1>22, <2>1, Zenon DEF Ours, Framed
<1>24. Content(frame) = [serial |-> Hex(serial), command |-> command, payload |-> payload]
  BY <1>4, <1>16, <1>17, <1>18, Zenon DEF Content
<1> QED
  BY <1>10, <1>22, <1>23, <1>24, Zenon DEF frame

\* Every message of the charger is one that build_frame can send.
LEMMA MessagesSendable ==
  ASSUME NEW m \in Messages
  PROVE  Sendable(m.serial, Password, m.command, m.payload)
<1>1. /\ m.serial \in Seq(0..255) /\ Len(m.serial) = SerialLen
      /\ m.command \in Nat /\ m.command < 65536
      /\ m.payload \in Seq(0..255) /\ FrameMinLen + Len(m.payload) <= MaxLen
      /\ MaxLen < 65536 /\ Password \in Seq(0..255) /\ Len(Password) = PasswordLen
  BY InboundAssumption
<1>2. m.serial \in Seq(Nat) /\ m.payload \in Seq(Nat) /\ Password \in Seq(Nat)
  <2>1. 0..255 \subseteq Nat
    OBVIOUS
  <2>2. m.serial \in Seq(0..255) /\ m.payload \in Seq(0..255) /\ Password \in Seq(0..255)
    BY <1>1
  <2> QED
    BY <2>1, <2>2, SeqMonotonic
<1>3. FrameMinLen + Len(m.payload) < 65536
  <2>1. /\ FrameMinLen \in Nat /\ MaxLen \in Nat /\ Len(m.payload) \in Nat
    BY <1>2, InboundAssumption, ReassemblerAssumption DEF FrameMinLen, HeaderLen, TrailerLen
  <2> QED
    BY <1>1, <2>1
<1> QED
  BY <1>1, <1>2, <1>3 DEF Sendable

\* What the charger sends gets past parse_frame with what was put into it.
THEOREM FramesHeard ==
  \A m \in Messages : Ours(FrameOf(m)) /\ Content(FrameOf(m)) = ContentOf(m)
<1> SUFFICES ASSUME NEW m \in Messages
             PROVE  Ours(FrameOf(m)) /\ Content(FrameOf(m)) = ContentOf(m)
  OBVIOUS
<1>1. Sendable(m.serial, Password, m.command, m.payload)
  BY MessagesSendable
<1> HIDE DEF Sendable
<1>2. LET frame == BuildFrame(m.serial, Password, m.command, m.payload)
      IN  /\ Ours(frame)
          /\ Content(frame) = [serial |-> Hex(m.serial), command |-> m.command,
                               payload |-> m.payload]
  BY <1>1, RoundTrip
<1> QED
  BY <1>2, Zenon DEF FrameOf, ContentOf

\* What FramesAssumption asks of the frames is what build_frame makes of messages
\* that fit: it follows from InboundAssumption.
THEOREM FramesBuilt == \A frame \in Frames : Whole(frame)
<1> SUFFICES ASSUME NEW frame \in Frames
             PROVE  Whole(frame)
  OBVIOUS
<1>1. Frames = {FrameOf(m) : m \in Messages} /\ MinLen = FrameMinLen /\ Magic = FrameMagic
  BY InboundAssumption
<1>2. PICK m \in Messages : frame = FrameOf(m)
  BY <1>1, Zenon
<1>3. Sendable(m.serial, Password, m.command, m.payload)
  BY MessagesSendable
<1>4. LET built == BuildFrame(m.serial, Password, m.command, m.payload)
      IN  /\ built \in Seq(Nat) /\ Len(built) = FrameMinLen + Len(m.payload)
          /\ Ours(built)
  BY <1>3, RoundTrip
<1>5. frame \in Seq(Nat) /\ Len(frame) = FrameMinLen + Len(m.payload) /\ Ours(frame)
  BY <1>2, <1>4, Zenon DEF FrameOf
<1>6. FrameMinLen + Len(m.payload) <= MaxLen /\ Len(m.payload) \in Nat
  BY <1>3, InboundAssumption DEF Sendable
<1>7. FrameMinLen \in Nat /\ 4 <= FrameMinLen
  BY InboundAssumption DEF FrameMinLen, HeaderLen, TrailerLen
<1>8. SubSeq(frame, 1, 2) = Magic /\ Value(SubSeq(frame, 3, 4)) = Len(frame)
  BY <1>1, <1>5, Zenon DEF Ours, Framed
<1>9. SubSeq(frame, 3, 4)[1] = frame[3] /\ SubSeq(frame, 3, 4)[2] = frame[4]
  <2>1. \A k \in 3..4 : frame[k] \in Nat
    BY <1>5, <1>6, <1>7
  <2>2. \A k \in 1..4 - 3 + 1 : SubSeq(frame, 3, 4)[k] = frame[3 + k - 1]
    BY <2>1, SubSeqProperties
  <2> QED
    BY <2>2
<1>10. Value(SubSeq(frame, 3, 4)) = 256 * frame[3] + frame[4]
  BY <1>9 DEF Value
<1> QED
  BY <1>1, <1>5, <1>6, <1>7, <1>8, <1>10 DEF Whole

\* What ResyncCorrect says is returned after damage is what the coordinator hears, each
\* frame with what the charger put into it: not the frames with an inner magic that
\* come before MAX_FRAME_LEN bytes of others have.
THEOREM SaidCorrect == Spec => []SaidIsHeard
<1>1. TypeOK /\ Resynchronises => SaidIsHeard
  <2> SUFFICES ASSUME TypeOK, Resynchronises, ~feeding, air = <<>>, NEW i \in DOMAIN said
               PROVE  \E m \in Messages :
                        said[i] = FrameOf(m) /\ said[i] \in Heard /\ Content(said[i]) = ContentOf(m)
    BY Zenon DEF SaidIsHeard
  <2>1. said \in Seq(Frames) /\ frames \in Seq(Seq(Nat))
    BY Zenon DEF TypeOK
  <2>2. said[i] \in Frames
    BY <2>1
  <2>3. PICK m \in Messages : said[i] = FrameOf(m)
    <3>1. Frames = {FrameOf(m) : m \in Messages}
      BY InboundAssumption
    <3> QED
      BY <2>2, <3>1, Zenon
  <2>4. said[i] \in Range(frames)
    <3>1. PICK lost \in 0..Len(frames) : SubSeq(frames, lost + 1, Len(frames)) = said
      BY Zenon DEF Resynchronises, From
    <3>2. Len(said) = Len(frames) - lost /\ \A k \in 1..Len(said) : said[k] = frames[lost + k]
      <4> DEFINE first == lost + 1
                 last == Len(frames)
                 rest == SubSeq(frames, first, last)
      <4>1. /\ first \in Int /\ last \in Int
            /\ \A k \in first..last : frames[k] \in Seq(Nat)
        BY <2>1, <3>1
      <4>2. /\ Len(rest) = (IF first <= last THEN last - first + 1 ELSE 0)
            /\ \A k \in 1..last - first + 1 : rest[k] = frames[first + k - 1]
        BY <4>1, SubSeqProperties
      <4>3. rest = said
        BY <3>1
      <4> HIDE DEF rest
      <4> QED
        BY <2>1, <3>1, <4>2, <4>3, SMTT(30)
    <3>3. i \in 1..Len(said)
      BY <2>1
    <3>4. lost + i \in DOMAIN frames
      BY <2>1, <3>1, <3>2, <3>3
    <3>5. said[i] = frames[lost + i]
      BY <3>2, <3>3, Zenon
    <3> QED
      BY <3>4, <3>5, Zenon DEF Range
  <2>5. Ours(said[i]) /\ Content(said[i]) = ContentOf(m)
    BY <2>3, FramesHeard, Zenon
  <2> QED
    BY <2>3, <2>4, <2>5, Zenon DEF Heard
<1> QED
  BY <1>1, TypeCorrect, ResyncCorrect, PTL

----------------------------------------------------------------------------

\* What `lower' leaves is no capital.
LEMMA LowerLowers ==
  \A c : Lower(c) \notin {"A", "B", "C", "D", "E", "F"}
BY DEF Lower

\* A hexadecimal digit spelt in lower case has the value of its place in HexDigits.
LEMMA NibbleRead ==
  ASSUME NEW c \in Range(HexDigits) \cup Range(Capitals),
         c \notin {"A", "B", "C", "D", "E", "F"}
  PROVE  Nibble(c) \in 0..15 /\ HexDigits[Nibble(c) + 1] = c
<1>1. DOMAIN HexDigits = 1..16 /\ DOMAIN Capitals = 1..16
  BY DEF HexDigits, Capitals
<1>2. \E n \in 0..15 : c \in {HexDigits[n + 1], Capitals[n + 1]}
  <2>1. PICK k \in 1..16 : c \in {HexDigits[k], Capitals[k]}
    BY <1>1 DEF Range
  <2>2. k - 1 \in 0..15 /\ (k - 1) + 1 = k
    OBVIOUS
  <2> QED
    BY <2>1, <2>2
<1>3. Nibble(c) \in 0..15 /\ c \in {HexDigits[Nibble(c) + 1], Capitals[Nibble(c) + 1]}
  BY <1>2, Zenon DEF Nibble
<1>4. \A n \in 0..15 : \/ HexDigits[n + 1] = Capitals[n + 1]
                       \/ Capitals[n + 1] \in {"A", "B", "C", "D", "E", "F"}
  BY DEF HexDigits, Capitals
<1> QED
  BY <1>3, <1>4, Zenon

\* A serial spelt in lower-case digits comes back from its bytes as it was spelt.
LEMMA HexFromHex ==
  ASSUME NEW n \in Nat, NEW hex \in [1..2 * n -> Range(HexDigits) \cup Range(Capitals)],
         \A i \in 1..2 * n : hex[i] \notin {"A", "B", "C", "D", "E", "F"}
  PROVE  Hex(FromHex(hex)) = hex
<1> DEFINE bytes == FromHex(hex)
<1>1. \A i \in 1..2 * n : Nibble(hex[i]) \in 0..15 /\ HexDigits[Nibble(hex[i]) + 1] = hex[i]
  BY NibbleRead
<1>2. Len(hex) = 2 * n /\ Len(hex) \div 2 = n
  BY SMT
<1>3. bytes = [k \in 1..n |-> 16 * Nibble(hex[2 * k - 1]) + Nibble(hex[2 * k])]
  BY <1>2, Zenon DEF FromHex
<1>4. Len(bytes) = n
  BY <1>3
<1> HIDE DEF bytes
<1> DEFINE Digit(i) == LET byte == bytes[(i + 1) \div 2]
                       IN  HexDigits[1 + (IF i % 2 = 1 THEN byte \div 16 ELSE byte % 16)]
<1>5. Hex(bytes) = [i \in 1..2 * n |-> Digit(i)]
  BY <1>4, Zenon DEF Hex
<1>6. ASSUME NEW i \in 1..2 * n
      PROVE  Digit(i) = hex[i]
  <2> DEFINE k == (i + 1) \div 2
             high == Nibble(hex[2 * k - 1])
             low == Nibble(hex[2 * k])
  <2>1. k \in 1..n /\ 2 * k - 1 \in 1..2 * n /\ 2 * k \in 1..2 * n
    OBVIOUS
  <2>2. (i % 2 = 1 /\ i = 2 * k - 1) \/ (i % 2 = 0 /\ i = 2 * k)
    OBVIOUS
  <2> HIDE DEF k
  <2>3. /\ high \in 0..15 /\ HexDigits[high + 1] = hex[2 * k - 1]
        /\ low \in 0..15 /\ HexDigits[low + 1] = hex[2 * k]
    BY <1>1, <2>1
  <2>4. bytes[k] = 16 * high + low
    BY <1>3, <2>1
  <2> HIDE DEF high, low
  <2>5. bytes[k] \div 16 = high /\ bytes[k] % 16 = low
    BY <2>3, <2>4
  <2>6. Digit(i) = HexDigits[1 + (IF i % 2 = 1 THEN bytes[k] \div 16 ELSE bytes[k] % 16)]
    BY Zenon DEF k
  <2> HIDE DEF Digit
  <2>7. CASE i % 2 = 1 /\ i = 2 * k - 1
    <3>1. Digit(i) = HexDigits[1 + high]
      BY <2>5, <2>6, <2>7
    <3>2. 1 + high = high + 1
      BY <2>3
    <3> QED
      BY <2>3, <2>7, <3>1, <3>2, Zenon
  <2>8. CASE i % 2 = 0 /\ i = 2 * k
    <3>1. Digit(i) = HexDigits[1 + low]
      BY <2>5, <2>6, <2>8
    <3>2. 1 + low = low + 1
      BY <2>3
    <3> QED
      BY <2>3, <2>8, <3>1, <3>2, Zenon
  <2> QED
    BY <2>2, <2>7, <2>8
<1> HIDE DEF Digit
<1>7. hex = [i \in 1..2 * n |-> hex[i]]
  OBVIOUS
<1> QED
  BY <1>5, <1>6, <1>7, Zenon DEF bytes

\* However a serial was typed, the charger's frames are recognised by it.
THEOREM SerialsCorrect == Spec => []SerialsRecognised
<1>1. ASSUME NEW text, SerialFits(text)
      PROVE  Hex(FromHex(Normalised(text))) = Normalised(text)
  <2> DEFINE bare == SelectSeq(Strip(text), LAMBDA c : c \notin {" ", "-"})
             spelt == Normalised(text)
  <2>1. SerialLen \in Nat
    BY InboundAssumption
  <2>2. spelt \in [1..2 * SerialLen -> Range(HexDigits) \cup Range(Capitals)]
    BY <1>1, Zenon DEF SerialFits
  <2>3. spelt = [i \in 1..Len(bare) |-> Lower(bare[i])]
    BY Zenon DEF Normalised
  <2> HIDE DEF spelt, bare
  <2>4. 1..Len(bare) = 1..2 * SerialLen
    BY <2>2, <2>3, Zenon
  <2>5. \A i \in 1..2 * SerialLen : spelt[i] = Lower(bare[i])
    BY <2>3, <2>4, Zenon
  <2>6. \A i \in 1..2 * SerialLen : spelt[i] \notin {"A", "B", "C", "D", "E", "F"}
    BY <2>5, LowerLowers, Zenon
  <2> QED
    BY <2>1, <2>2, <2>6, HexFromHex DEF spelt
<1>2. SerialsRecognised
  <2> SUFFICES ASSUME NEW frame \in Heard, NEW m \in Messages, Content(frame) = ContentOf(m),
                      NEW text \in Serials, SerialFits(text),
                      FromHex(Normalised(text)) = m.serial
               PROVE  Content(frame).serial = Normalised(text)
    BY Zenon DEF SerialsRecognised
  <2>1. Content(frame).serial = Hex(m.serial)
    <3>1. Content(frame).serial = ContentOf(m).serial
      OBVIOUS
    <3>2. ContentOf(m).serial = Hex(m.serial)
      BY DEF ContentOf
    <3> QED
      BY <3>1, <3>2, Zenon
  <2> QED
    BY <1>1, <2>1, Zenon
<1> QED
  BY <1>2, PTL

----------------------------------------------------------------------------
(* What the checksum tells apart *)

\* Two sequences of bytes of one length that are the same but perhaps in place i.
AgreeBut(s, t, i) ==
  /\ Len(s) = Len(t) /\ i \in 1..Len(s)
  /\ \A k \in 1..Len(s) : k # i => s[k] = t[k]

\* Their sums differ by what they have there.
SumFollows(s) ==
  \A t \in Seq(Nat), i \in Nat : AgreeBut(s, t, i) => Total[s] + t[i] = Total[t] + s[i]

\* The same without their heads.
LEMMA TailsAgree ==
  ASSUME NEW s \in Seq(Nat), NEW t \in Seq(Nat), NEW i \in Nat, AgreeBut(s, t, i), i # 1
  PROVE  /\ Tail(s) \in Seq(Nat) /\ Tail(t) \in Seq(Nat) /\ i - 1 \in Nat
         /\ AgreeBut(Tail(s), Tail(t), i - 1)
         /\ Tail(s)[i - 1] = s[i] /\ Tail(t)[i - 1] = t[i]
         /\ Head(s) = Head(t) /\ Len(Tail(s)) < Len(s)
<1>1. /\ Len(s) = Len(t) /\ i \in 2..Len(s)
      /\ \A k \in 1..Len(s) : k # i => s[k] = t[k]
  BY DEF AgreeBut
<1>2. /\ Tail(s) \in Seq(Nat) /\ Len(Tail(s)) = Len(s) - 1
      /\ Tail(t) \in Seq(Nat) /\ Len(Tail(t)) = Len(s) - 1
      /\ \A k \in 1..Len(s) - 1 : Tail(s)[k] = s[k + 1] /\ Tail(t)[k] = t[k + 1]
      /\ Head(s) = s[1] /\ Head(t) = t[1]
  BY <1>1
<1>3. i - 1 \in 1..Len(s) - 1 /\ (i - 1) + 1 = i /\ 1 \in 1..Len(s) /\ 1 # i /\ i - 1 \in Nat
  BY <1>1
<1>4. \A k \in 1..Len(s) - 1 : k + 1 \in 1..Len(s) /\ (k # i - 1 => k + 1 # i)
  <2>1. Len(s) \in Nat
    OBVIOUS
  <2>2. \A n \in Nat : \A k \in 1..n - 1 : k + 1 \in 1..n /\ (k # i - 1 => k + 1 # i)
    OBVIOUS
  <2> QED
    BY <2>1, <2>2
<1>5. \A k \in 1..Len(s) - 1 : k # i - 1 => Tail(s)[k] = Tail(t)[k]
  BY <1>1, <1>2, <1>4
<1>6. AgreeBut(Tail(s), Tail(t), i - 1)
  BY <1>2, <1>3, <1>5 DEF AgreeBut
<1>7. Tail(s)[i - 1] = s[i] /\ Tail(t)[i - 1] = t[i]
  <2>1. Tail(s)[i - 1] = s[(i - 1) + 1] /\ Tail(t)[i - 1] = t[(i - 1) + 1]
    BY <1>2, <1>3
  <2> QED
    BY <1>3, <2>1
<1>8. Head(s) = Head(t)
  <2>1. s[1] = t[1]
    BY <1>1, <1>3
  <2> QED
    BY <1>2, <2>1
<1>9. Len(Tail(s)) < Len(s)
  BY <1>2
<1> QED
  BY <1>2, <1>3, <1>6, <1>7, <1>8, <1>9, Zenon

\* The sum of a sequence that is not empty.
LEMMA TotalOfTail ==
  \A s \in Seq(Nat) : s # <<>> =>
    /\ Total[s] = Head(s) + Total[Tail(s)]
    /\ Total[s] \in Nat /\ Head(s) \in Nat /\ Total[Tail(s)] \in Nat
<1> SUFFICES ASSUME NEW s \in Seq(Nat), s # <<>>
             PROVE  /\ Total[s] = Head(s) + Total[Tail(s)]
                    /\ Total[s] \in Nat /\ Head(s) \in Nat /\ Total[Tail(s)] \in Nat
  OBVIOUS
<1>1. Head(s) \in Nat /\ Tail(s) \in Seq(Nat)
  OBVIOUS
<1>2. Total[s] = Adding(Total, s) /\ Total[s] \in Nat /\ Total[Tail(s)] \in Nat
  BY <1>1, TotalEquation
<1> QED
  BY <1>1, <1>2 DEF Adding

\* A change of one byte changes the sum by as much: shown of the shortest sequence of
\* which it could be wrong.
LEMMA TotalFollows == \A s \in Seq(Nat) : SumFollows(s)
<1> DEFINE wrong == {s \in Seq(Nat) : ~SumFollows(s)}
<1> SUFFICES ASSUME wrong # {}
             PROVE  FALSE
  OBVIOUS
<1>1. PICK s \in wrong : \A u \in wrong : Len(s) <= Len(u)
  <2>1. wrong \in SUBSET Seq(Nat)
    OBVIOUS
  <2> HIDE DEF wrong
  <2> QED
    BY <2>1, Shortest
<1>2. s \in Seq(Nat) /\ ~SumFollows(s)
  OBVIOUS
<1>3. \A u \in Seq(Nat) : Len(u) < Len(s) => SumFollows(u)
  <2> SUFFICES ASSUME NEW u \in Seq(Nat), Len(u) < Len(s), u \in wrong
               PROVE  FALSE
    OBVIOUS
  <2>1. Len(s) <= Len(u)
    BY <1>1, Zenon
  <2> QED
    BY <1>2, <2>1
<1> HIDE DEF wrong
<1>4. PICK t \in Seq(Nat), i \in Nat :
        AgreeBut(s, t, i) /\ Total[s] + t[i] # Total[t] + s[i]
  BY <1>2 DEF SumFollows
<1>5. s # <<>> /\ t # <<>> /\ i \in 1..Len(s) /\ Len(s) = Len(t)
  BY <1>2, <1>4 DEF AgreeBut
<1>6. /\ Total[s] = Head(s) + Total[Tail(s)] /\ Head(s) \in Nat /\ Total[Tail(s)] \in Nat
      /\ Total[t] = Head(t) + Total[Tail(t)] /\ Head(t) \in Nat /\ Total[Tail(t)] \in Nat
  BY <1>2, <1>5, TotalOfTail
<1>7. CASE i = 1
  <2>1. /\ Tail(s) \in Seq(Nat) /\ Len(Tail(s)) = Len(s) - 1
        /\ Tail(t) \in Seq(Nat) /\ Len(Tail(t)) = Len(s) - 1
        /\ \A k \in 1..Len(s) - 1 : Tail(s)[k] = s[k + 1] /\ Tail(t)[k] = t[k + 1]
        /\ Head(s) = s[i] /\ Head(t) = t[i]
    BY <1>2, <1>5, <1>7
  <2>2. \A k \in 1..Len(s) - 1 : s[k + 1] = t[k + 1]
    BY <1>2, <1>4, <1>7, SMTT(30) DEF AgreeBut
  <2>3. Tail(s) = Tail(t)
    <3>1. \A k \in 1..Len(Tail(s)) : Tail(s)[k] = Tail(t)[k]
      BY <2>1, <2>2
    <3> QED
      BY <2>1, <3>1, SeqEqual
  <2>4. s[i] \in Nat /\ t[i] \in Nat
    BY <1>6, <2>1
  <2>5. Total[s] = s[i] + Total[Tail(s)] /\ Total[t] = t[i] + Total[Tail(s)]
    BY <1>6, <2>1, <2>3
  <2>6. Total[s] + t[i] = Total[t] + s[i]
    BY <1>6, <2>4, <2>5, SMTT(30)
  <2> QED
    BY <1>4, <2>6
<1>8. CASE i # 1
  <2>1. /\ Tail(s) \in Seq(Nat) /\ Tail(t) \in Seq(Nat) /\ i - 1 \in Nat
        /\ AgreeBut(Tail(s), Tail(t), i - 1)
        /\ Tail(s)[i - 1] = s[i] /\ Tail(t)[i - 1] = t[i]
        /\ Head(s) = Head(t) /\ Len(Tail(s)) < Len(s)
    BY <1>2, <1>4, <1>8, TailsAgree
  <2>2. Total[Tail(s)] + Tail(t)[i - 1] = Total[Tail(t)] + Tail(s)[i - 1]
    BY <1>3, <2>1 DEF SumFollows
  <2>3. s[i] \in Nat /\ t[i] \in Nat
    BY <1>2, <1>5
  <2>4. Total[s] = Head(s) + Total[Tail(s)] /\ Total[t] = Head(s) + Total[Tail(t)]
    BY <1>6, <2>1
  <2>5. Total[Tail(s)] + t[i] = Total[Tail(t)] + s[i]
    BY <2>1, <2>2
  <2>6. Total[s] + t[i] = Total[t] + s[i]
    <3> DEFINE h == Head(s)
               p == Total[Tail(s)]
               q == Total[Tail(t)]
               a == s[i]
               b == t[i]
    <3>1. h \in Nat /\ p \in Nat /\ q \in Nat /\ a \in Nat /\ b \in Nat
      BY <1>6, <2>3
    <3>2. p + b = q + a
      BY <2>5, Zenon
    <3>3. Total[s] = h + p /\ Total[t] = h + q
      BY <2>4, Zenon
    <3> HIDE DEF h, p, q, a, b
    <3>4. (h + p) + b = (h + q) + a
      BY <3>1, <3>2
    <3> QED
      BY <3>3, <3>4, Zenon DEF a, b
  <2> QED
    BY <1>4, <2>6
<1> QED
  BY <1>7, <1>8

\* Two sequences are the same in a place that a slice they share covers.
LEMMA SliceAgrees ==
  \A s, t \in Seq(Nat), i, j, k \in Nat :
    /\ Len(s) = Len(t) /\ 1 <= i /\ j <= Len(s) /\ i <= k /\ k <= j
    /\ SubSeq(s, i, j) = SubSeq(t, i, j)
    => s[k] = t[k]
<1> SUFFICES ASSUME NEW s \in Seq(Nat), NEW t \in Seq(Nat), NEW i \in Nat, NEW j \in Nat,
                    NEW k \in Nat, Len(s) = Len(t), 1 <= i, j <= Len(s), i <= k, k <= j,
                    SubSeq(s, i, j) = SubSeq(t, i, j)
             PROVE  s[k] = t[k]
  OBVIOUS
<1>1. \A n \in i..j : s[n] \in Nat /\ t[n] \in Nat
  OBVIOUS
<1>2. \A n \in 1..j - i + 1 : SubSeq(s, i, j)[n] = s[i + n - 1]
  BY <1>1, SubSeqProperties
<1>3. \A n \in 1..j - i + 1 : SubSeq(t, i, j)[n] = t[i + n - 1]
  BY <1>1, SubSeqProperties
<1>4. k - i + 1 \in 1..j - i + 1 /\ i + (k - i + 1) - 1 = k
  OBVIOUS
<1> QED
  BY <1>2, <1>3, <1>4, Zenon

\* The first n bytes of sequences that agree but in place i.
HeadsAgree(s, t, i, n) ==
  LET a == SubSeq(s, 1, n)
      b == SubSeq(t, 1, n)
  IN  /\ a \in Seq(Nat) /\ b \in Seq(Nat)
      /\ n < i => a = b
      /\ i <= n => AgreeBut(a, b, i) /\ a[i] = s[i] /\ b[i] = t[i]

LEMMA SliceOfAgreeing ==
  ASSUME NEW s \in Seq(Nat), NEW t \in Seq(Nat), NEW i \in Nat, NEW n \in Nat,
         AgreeBut(s, t, i), n <= Len(s)
  PROVE  HeadsAgree(s, t, i, n)
<1> DEFINE a == SubSeq(s, 1, n)
           b == SubSeq(t, 1, n)
<1>1. /\ Len(s) = Len(t) /\ i \in 1..Len(s)
      /\ \A k \in 1..Len(s) : k # i => s[k] = t[k]
  BY DEF AgreeBut
<1>2. \A k \in 1..n : k \in 1..Len(s) /\ s[k] \in Nat /\ t[k] \in Nat
  BY <1>1, SMTT(30)
<1>3. /\ a \in Seq(Nat) /\ Len(a) = n /\ b \in Seq(Nat) /\ Len(b) = n
      /\ \A k \in 1..n : a[k] = s[k] /\ b[k] = t[k]
  <2>1. /\ a \in Seq(Nat) /\ Len(a) = (IF 1 <= n THEN n - 1 + 1 ELSE 0)
        /\ \A k \in 1..n - 1 + 1 : a[k] = s[1 + k - 1]
    BY <1>2, SubSeqProperties
  <2>2. /\ b \in Seq(Nat) /\ Len(b) = (IF 1 <= n THEN n - 1 + 1 ELSE 0)
        /\ \A k \in 1..n - 1 + 1 : b[k] = t[1 + k - 1]
    BY <1>2, SubSeqProperties
  <2> HIDE DEF a, b
  <2> QED
    BY <2>1, <2>2
<1> HIDE DEF a, b
<1>4. ASSUME n < i
      PROVE  a = b
  <2>1. \A k \in 1..n : k # i
    BY <1>4
  <2>2. \A k \in 1..n : a[k] = b[k]
    BY <1>1, <1>2, <1>3, <2>1
  <2> QED
    BY <1>3, <2>2, SeqEqual
<1>5. ASSUME i <= n
      PROVE  AgreeBut(a, b, i) /\ a[i] = s[i] /\ b[i] = t[i]
  <2>1. i \in 1..n
    BY <1>1, <1>5
  <2>2. \A k \in 1..n : k # i => a[k] = b[k]
    BY <1>1, <1>2, <1>3
  <2> QED
    BY <1>3, <2>1, <2>2 DEF AgreeBut
<1> QED
  BY <1>3, <1>4, <1>5, Zenon DEF a, b, HeadsAgree

\* Two bytes can say a number in one way only.
LEMMA WordsDiffer ==
  \A a, b, c, d \in Nat : b < 256 /\ d < 256 /\ 256 * a + b = 256 * c + d => a = c /\ b = d
OBVIOUS

\* What is taken modulo 65536 is the same for two sums that are less than that apart.
LEMMA SumsDiffer ==
  ASSUME NEW x \in Nat, NEW y \in Nat, NEW a \in Nat, NEW b \in Nat, a < 256, b < 256,
         x % 65536 = y % 65536, x + a = y + b
  PROVE  a = b
<1>1. x = 65536 * (x \div 65536) + (x % 65536) /\ y = 65536 * (y \div 65536) + (y % 65536)
  OBVIOUS
<1>2. x \div 65536 \in Nat /\ y \div 65536 \in Nat
  OBVIOUS
<1> QED
  BY <1>1, <1>2

\* parse_frame never accepts two sequences of bytes that differ in one place.
LEMMA OneByteTold ==
  ASSUME NEW s \in Seq(0..255), NEW t \in Seq(0..255), NEW i \in Nat,
         AgreeBut(s, t, i), Ours(s), Ours(t)
  PROVE  s[i] = t[i]
<1>1. s \in Seq(Nat) /\ t \in Seq(Nat)
  <2>1. 0..255 \subseteq Nat
    OBVIOUS
  <2> QED
    BY <2>1, SeqMonotonic
<1>2. Len(s) = Len(t) /\ i \in 1..Len(s) /\ \A k \in 1..Len(s) : k # i => s[k] = t[k]
  BY DEF AgreeBut
<1> DEFINE n == Len(s)
<1>3. n \in Nat /\ n >= 11 /\ TrailerLen = 4
  <2>1. FrameMinLen \in Nat /\ FrameMinLen >= 11
    BY InboundAssumption DEF FrameMinLen, HeaderLen, TrailerLen
  <2>2. Len(s) >= FrameMinLen
    BY Zenon DEF Ours, Framed
  <2> QED
    BY <2>1, <2>2, <1>1 DEF TrailerLen
<1>4. \A k \in 1..n : s[k] \in Nat /\ s[k] < 256 /\ t[k] \in Nat /\ t[k] < 256
  <2> DEFINE Byte == 0..255
  <2>1. s \in Seq(Byte) /\ t \in Seq(Byte)
    OBVIOUS
  <2>2. \A k \in Byte : k \in Nat /\ k < 256
    OBVIOUS
  <2> HIDE DEF Byte
  <2>3. \A k \in 1..n : s[k] \in Byte /\ t[k] \in Byte
    BY <1>2, <2>1
  <2> QED
    BY <2>2, <2>3
<1>5. CASE i > n - 2
  <2>1. SubSeq(s, n - 1, n) = SubSeq(t, n - 1, n)
    BY <1>2, Zenon DEF Ours, Framed
  <2>2. n - 1 \in Nat /\ 1 <= n - 1 /\ n <= Len(s) /\ n - 1 <= i /\ i <= n
    BY <1>2, <1>3, <1>5
  <2> HIDE DEF n
  <2> QED
    BY <1>1, <1>2, <1>3, <2>1, <2>2, SliceAgrees, Zenon
<1> DEFINE a == SubSeq(s, 1, n - TrailerLen)
           b == SubSeq(t, 1, n - TrailerLen)
<1>6. /\ Value(SubSeq(s, n - 3, n - 2)) = Checksum(a)
      /\ Value(SubSeq(t, n - 3, n - 2)) = Checksum(b)
  BY <1>2, Zenon DEF Ours
<1>7. /\ a \in Seq(Nat) /\ b \in Seq(Nat)
      /\ n - TrailerLen < i => a = b
      /\ i <= n - TrailerLen => AgreeBut(a, b, i) /\ a[i] = s[i] /\ b[i] = t[i]
  <2>1. n - TrailerLen \in Nat /\ n - TrailerLen <= Len(s)
    BY <1>3
  <2>2. HeadsAgree(s, t, i, n - TrailerLen)
    BY <1>1, <2>1, SliceOfAgreeing
  <2> QED
    BY <2>2, Zenon DEF HeadsAgree
<1>8. /\ Value(SubSeq(s, n - 3, n - 2)) = 256 * s[n - 3] + s[n - 2]
      /\ Value(SubSeq(t, n - 3, n - 2)) = 256 * t[n - 3] + t[n - 2]
      /\ n - 3 \in 1..n /\ n - 2 \in 1..n
  <2>1. \A k \in (n - 3)..(n - 2) : s[k] \in Nat /\ t[k] \in Nat
    <3>1. \A k \in (n - 3)..(n - 2) : k \in 1..n
      BY <1>3
    <3> QED
      BY <1>4, <3>1, Zenon
  <2>2. /\ \A k \in 1..(n - 2) - (n - 3) + 1 : SubSeq(s, n - 3, n - 2)[k] = s[(n - 3) + k - 1]
        /\ \A k \in 1..(n - 2) - (n - 3) + 1 : SubSeq(t, n - 3, n - 2)[k] = t[(n - 3) + k - 1]
    BY <1>3, <2>1, SubSeqProperties
  <2>3. /\ 1 \in 1..(n - 2) - (n - 3) + 1 /\ 2 \in 1..(n - 2) - (n - 3) + 1
        /\ (n - 3) + 1 - 1 = n - 3 /\ (n - 3) + 2 - 1 = n - 2
        /\ n - 3 \in 1..n /\ n - 2 \in 1..n
    BY <1>3
  <2>4. /\ SubSeq(s, n - 3, n - 2)[1] = s[n - 3] /\ SubSeq(s, n - 3, n - 2)[2] = s[n - 2]
        /\ SubSeq(t, n - 3, n - 2)[1] = t[n - 3] /\ SubSeq(t, n - 3, n - 2)[2] = t[n - 2]
    BY <2>2, <2>3, Zenon
  <2> QED
    BY <2>3, <2>4, Zenon DEF Value
<1> HIDE DEF n, a, b
<1>9. CASE n - TrailerLen < i /\ i <= n - 2
  <2>1. 256 * s[n - 3] + s[n - 2] = 256 * t[n - 3] + t[n - 2]
    BY <1>6, <1>7, <1>8, <1>9, Zenon
  <2>2. s[n - 3] = t[n - 3] /\ s[n - 2] = t[n - 2]
    <3>1. /\ s[n - 3] \in Nat /\ t[n - 3] \in Nat
          /\ s[n - 2] \in Nat /\ s[n - 2] < 256 /\ t[n - 2] \in Nat /\ t[n - 2] < 256
      BY <1>4, <1>8, SMTT(30)
    <3> DEFINE p == s[n - 3]
               q == s[n - 2]
               v == t[n - 3]
               w == t[n - 2]
    <3>2. /\ p \in Nat /\ q \in Nat /\ v \in Nat /\ w \in Nat /\ q < 256 /\ w < 256
          /\ 256 * p + q = 256 * v + w
      BY <2>1, <3>1
    <3> HIDE DEF p, q, v, w
    <3>3. p = v /\ q = w
      BY <3>2, WordsDiffer
    <3> QED
      BY <3>3, Zenon DEF p, q, v, w
  <2>3. i = n - 3 \/ i = n - 2
    BY <1>3, <1>9
  <2> QED
    BY <2>2, <2>3, Zenon
<1>10. CASE i <= n - TrailerLen
  <2>1. s[n - 3] = t[n - 3] /\ s[n - 2] = t[n - 2]
    <3>1. n - 3 # i /\ n - 2 # i
      BY <1>3, <1>10
    <3> QED
      BY <1>2, <1>8, <3>1 DEF n
  <2>2. Checksum(a) = Checksum(b)
    BY <1>6, <1>8, <2>1, Zenon
  <2>3. Total[a] \in Nat /\ Total[b] \in Nat /\ Total[a] + t[i] = Total[b] + s[i]
    <3>1. SumFollows(a)
      BY <1>7, TotalFollows
    <3>2. Total[a] + b[i] = Total[b] + a[i]
      BY <1>7, <1>10, <3>1, Zenon DEF SumFollows
    <3> QED
      BY <1>7, <1>10, <3>2, TotalEquation
  <2>4. Total[a] % 65536 = Total[b] % 65536
    BY <2>2 DEF Checksum
  <2>5. s[i] \in Nat /\ s[i] < 256 /\ t[i] \in Nat /\ t[i] < 256
    BY <1>2, <1>4 DEF n
  <2> DEFINE x == Total[a]
             y == Total[b]
             p == t[i]
             q == s[i]
  <2>6. /\ x \in Nat /\ y \in Nat /\ p \in Nat /\ q \in Nat /\ p < 256 /\ q < 256
        /\ x + p = y + q
    BY <2>3, <2>5
  <2>7. x % 65536 = y % 65536
    BY <2>4
  <2> HIDE DEF x, y, p, q
  <2>8. p = q
    BY <2>6, <2>7, SumsDiffer
  <2> QED
    BY <2>8, Zenon DEF p, q
<1> QED
  BY <1>2, <1>3, <1>5, <1>9, <1>10 DEF n

----------------------------------------------------------------------------
(* What the coordinator hears of damaged frames *)

Byte == 0..255

LEMMA ByteType == \A b \in Byte : b \in Nat /\ b < 256
BY DEF Byte

\* Sequences of bytes are sequences of numbers.
LEMMA BytesType == \A s \in Seq(Byte) : s \in Seq(Nat)
<1>1. Byte \subseteq Nat
  BY ByteType
<1> QED
  BY <1>1, SeqMonotonic

\* A sequence whose members are of a set is one of that set.
LEMMA ListOf ==
  ASSUME NEW S, NEW t \in Seq(Nat), \A i \in 1..Len(t) : t[i] \in S
  PROVE  t \in Seq(S)
<1>1. t \in [1..Len(t) -> S] /\ Len(t) \in Nat
  OBVIOUS
<1> QED
  BY <1>1

\* A slice of bytes is one of bytes.
LEMMA SliceOfBytes ==
  ASSUME NEW s \in Seq(Byte), NEW t \in Seq(Nat), HasSlice(s, t)
  PROVE  t \in Seq(Byte)
<1>1. PICK p \in Seq(Nat), q \in Seq(Nat) : s = (p \o t) \o q
  BY DEF HasSlice
<1>2. \A i \in 1..Len(t) : Len(p) + i \in 1..Len((p \o t) \o q) /\ ((p \o t) \o q)[Len(p) + i] = t[i]
  <2> DEFINE front == p \o t
  <2>1. /\ front \in Seq(Nat) /\ Len(front) = Len(p) + Len(t)
        /\ \A i \in 1..Len(t) : front[Len(p) + i] = t[i]
    OBVIOUS
  <2> HIDE DEF front
  <2>2. /\ Len(front \o q) = Len(front) + Len(q)
        /\ \A i \in 1..Len(front) : (front \o q)[i] = front[i]
    BY <2>1, HeadContinued, Zenon
  <2>3. \A i \in 1..Len(t) : Len(p) + i \in 1..Len(front) /\ Len(p) + i \in 1..Len(front \o q)
    BY <2>1, <2>2, SMTT(30)
  <2> QED
    BY <2>1, <2>2, <2>3, Zenon DEF front
<1>3. \A k \in 1..Len(s) : s[k] \in Byte
  OBVIOUS
<1>4. \A i \in 1..Len(t) : t[i] \in Byte
  BY <1>1, <1>2, <1>3, Zenon
<1> QED
  BY <1>4, ListOf

\* What the charger sends are bytes.
LEMMA FrameOfBytes == ASSUME NEW m \in Messages PROVE FrameOf(m) \in Seq(Byte)
<1>1. m.serial \in Seq(Byte) /\ m.payload \in Seq(Byte) /\ m.command \in Nat
  <2>1. m.serial \in Seq(0..255) /\ m.payload \in Seq(0..255) /\ m.command \in Nat
    BY InboundAssumption
  <2> QED
    BY <2>1, Zenon DEF Byte
<1>2. Password \in Seq(Byte)
  <2>1. Password \in Seq(0..255)
    BY InboundAssumption
  <2> QED
    BY <2>1, Zenon DEF Byte
<1>3. ASSUME NEW n \in Nat
      PROVE  Word(n) \in Seq(Byte)
  <2>1. (n \div 256) % 256 \in Byte /\ n % 256 \in Byte
    BY DEF Byte
  <2> QED
    BY <2>1 DEF Word
<1>4. FrameMagic \in Seq(Byte) /\ FrameTail \in Seq(Byte) /\ <<0>> \in Seq(Byte)
  BY DEF FrameMagic, FrameTail, Byte
<1>5. \A s, t \in Seq(Byte) : s \o t \in Seq(Byte)
  OBVIOUS
<1>6. FrameMinLen + Len(m.payload) \in Nat /\ m.command \in Nat
  <2>1. FrameMinLen \in Nat
    BY InboundAssumption DEF FrameMinLen, HeaderLen, TrailerLen
  <2> QED
    BY <1>1, <2>1
<1> DEFINE body == FrameMagic \o Word(FrameMinLen + Len(m.payload)) \o <<0>> \o m.serial
                     \o Password \o Word(m.command) \o m.payload
<1>7. body \in Seq(Byte)
  <2>1. Word(FrameMinLen + Len(m.payload)) \in Seq(Byte) /\ Word(m.command) \in Seq(Byte)
    BY <1>3, <1>6
  <2> QED
    BY <1>1, <1>2, <1>4, <1>5, <2>1, ZenonT(30)
<1> HIDE DEF body
<1>8. Word(Checksum(body)) \in Seq(Byte)
  <2>1. Checksum(body) \in Nat
    BY <1>7, BytesType, ChecksumType
  <2> QED
    BY <1>3, <2>1
<1>9. FrameOf(m) = body \o Word(Checksum(body)) \o FrameTail
  BY Zenon DEF FrameOf, BuildFrame, body
<1>10. body \o Word(Checksum(body)) \in Seq(Byte)
  BY <1>5, <1>7, <1>8, Zenon
<1> QED
  BY <1>4, <1>5, <1>9, <1>10, Zenon

BytesInv == stream \in Seq(Byte) /\ air \in Seq(Byte)

LEMMA BytesStep == TypeOK /\ BytesInv /\ [Next]_vars => BytesInv'
<1> SUFFICES ASSUME TypeOK, BytesInv, [Next]_vars
             PROVE  BytesInv'
  OBVIOUS
<1>0. stream \in Seq(Byte) /\ air \in Seq(Byte) /\ <<>> \in Seq(Byte)
  BY DEF BytesInv
<1>1. CASE Notify
  <2>1. PICK n \in 1..Len(air) :
          stream' = stream \o SubSeq(air, 1, n) /\ air' = SubSeq(air, n + 1, Len(air))
    BY <1>1, Zenon DEF Notify, From
  <2>2. SubSeq(air, 1, n) \in Seq(Byte)
    BY <1>0
  <2>3. SubSeq(air, n + 1, Len(air)) \in Seq(Byte)
    <3>1. \A i \in n + 1..Len(air) : air[i] \in Byte
      BY <1>0
    <3> QED
      BY <1>0, <3>1, SubSeqProperties
  <2>4. \A s, t \in Seq(Byte) : s \o t \in Seq(Byte)
    OBVIOUS
  <2> QED
    BY <1>0, <2>1, <2>2, <2>3, <2>4, Zenon DEF BytesInv
<1>2. CASE Say
  <2>1. PICK piece \in Frames \cup Rubbish : air' = piece /\ stream' = stream
    BY <1>2, Zenon DEF Say
  <2>2. CASE piece \in Frames
    <3>1. PICK m \in Messages : piece = FrameOf(m)
      <4>1. Frames = {FrameOf(m) : m \in Messages}
        BY InboundAssumption
      <4> QED
        BY <2>2, <4>1, Zenon
    <3> QED
      BY <1>0, <2>1, <3>1, FrameOfBytes, Zenon DEF BytesInv
  <2>3. CASE piece \in Rubbish
    <3>1. Rubbish \subseteq Seq(Byte)
      <4>1. Rubbish \subseteq Seq(0..255)
        BY InboundAssumption
      <4> QED
        BY <4>1, Zenon DEF Byte
    <3> QED
      BY <1>0, <2>1, <2>3, <3>1, Zenon DEF BytesInv
  <2> QED
    BY <2>2, <2>3, Zenon
<1>3. CASE Reset
  BY <1>0, <1>3, Zenon DEF Reset, BytesInv
<1>4. CASE Turn \/ UNCHANGED vars
  <2>1. UNCHANGED <<stream, air>>
    BY <1>4, Zenon DEF Turn, NoMagic, AwaitHeader, SkipMagic, AwaitFrame, TakeFrame, vars
  <2> QED
    BY <1>0, <2>1, Zenon DEF BytesInv
<1> QED
  BY <1>1, <1>2, <1>3, <1>4, Zenon DEF Next

\* What is heard are bytes that came one after another.
LEMMA HeardBytes ==
  ASSUME TypeOK, FramesAreSlices, NEW frame \in Heard
  PROVE  Ours(frame) /\ frame \in Seq(Nat) /\ HasSlice(stream, frame)
<1>1. Ours(frame) /\ frame \in Range(frames)
  BY Zenon DEF Heard
<1>2. PICK i \in DOMAIN frames : frame = frames[i]
  BY <1>1, Zenon DEF Range
<1>3. frames \in Seq(Seq(Nat))
  BY Zenon DEF TypeOK
<1>4. frame \in Seq(Nat)
  BY <1>2, <1>3
<1>5. HasSlice(stream, frame)
  BY <1>2, Zenon DEF FramesAreSlices, Returned
<1> QED
  BY <1>1, <1>4, <1>5, Zenon

LEMMA BytesCorrect == Spec => []BytesInv
<1>1. Init => BytesInv
  <2>1. <<>> \in Seq(Byte)
    OBVIOUS
  <2> QED
    BY <2>1, Zenon DEF Init, BytesInv
<1> QED
  BY <1>1, BytesStep, TypeCorrect, PTL DEF Spec

\* Of what is heard, nothing differs from a frame of the charger in a single byte.
LEMMA DamageTold == TypeOK /\ FramesAreSlices /\ BytesInv => DamageUnheard
<1> SUFFICES ASSUME TypeOK, FramesAreSlices, BytesInv,
                    NEW frame \in Heard, NEW m \in Messages, Len(frame) = Len(FrameOf(m)),
                    NEW i \in DOMAIN frame, Changed(frame, FrameOf(m)) = {i}
             PROVE  FALSE
  BY Zenon DEF DamageUnheard
<1> DEFINE good == FrameOf(m)
<1>1. Ours(frame) /\ frame \in Seq(Nat) /\ HasSlice(stream, frame)
  BY HeardBytes
<1>2. frame \in Seq(Byte)
  BY <1>1, SliceOfBytes DEF BytesInv
<1>3. good \in Seq(Byte) /\ Ours(good)
  BY FrameOfBytes, FramesHeard
<1>4. Len(frame) = Len(good) /\ {k \in DOMAIN good : frame[k] # good[k]} = {i}
  BY Zenon DEF Changed
<1> HIDE DEF good
<1>5. i \in DOMAIN good /\ frame[i] # good[i] /\ \A k \in DOMAIN good : k # i => frame[k] = good[k]
  BY <1>4, Zenon
<1>6. DOMAIN good = 1..Len(frame) /\ i \in Nat
  BY <1>2, <1>3, <1>4
<1>7. AgreeBut(frame, good, i)
  BY <1>4, <1>5, <1>6, Zenon DEF AgreeBut
<1>8. frame[i] = good[i]
  BY <1>1, <1>2, <1>3, <1>6, <1>7, OneByteTold DEF Byte
<1> QED
  BY <1>5, <1>8

\* A frame of which a single byte was changed on its way is never heard, whatever the
\* frame and whichever the byte: the framing tells the first four and the last two, the
\* sum all others, since one byte changes it by less than it is taken modulo.
THEOREM DamageCorrect == Spec => []DamageUnheard
BY DamageTold, BytesCorrect, SlicesCorrect, TypeCorrect, PTL

\* While frames come whole, each with one byte changed at most, the coordinator hears
\* those that are undamaged, and no others: by IntactCorrect each is returned, and
\* by OneByteTold the damaged ones are refused.
THEOREM ContainedCorrect == Spec => []DamageContained
<1>1. TypeOK /\ FramesAreSlices /\ BytesInv /\ IntactDelivered => DamageContained
  <2> SUFFICES ASSUME TypeOK, FramesAreSlices, BytesInv, IntactDelivered,
                      ~feeding, air = <<>>, Intact,
                      \A piece \in Range(sent) : piece \in Frames \/ Damaged(piece)
               PROVE  Heard = Range(sent) \cap Frames
    BY Zenon DEF DamageContained
  <2>1. frames = sent
    BY Zenon DEF IntactDelivered
  <2>2. ASSUME NEW piece \in Range(sent), piece \in Frames
        PROVE  piece \in Heard
    <3>1. Frames = {FrameOf(m) : m \in Messages}
      BY InboundAssumption
    <3>2. Ours(piece)
      BY <2>2, <3>1, FramesHeard, Zenon
    <3> QED
      BY <2>1, <3>2, Zenon DEF Heard
  <2>3. ASSUME NEW piece \in Heard
        PROVE  piece \in Range(sent) /\ piece \in Frames
    <3>1. piece \in Range(sent)
      BY <2>1, Zenon DEF Heard
    <3>2. ASSUME Damaged(piece)
          PROVE  FALSE
      <4>1. PICK m \in Messages, i \in DOMAIN piece :
              Len(piece) = Len(FrameOf(m)) /\ Changed(piece, FrameOf(m)) = {i}
        BY <3>2, Zenon DEF Damaged
      <4>2. DamageUnheard
        BY DamageTold
      <4> QED
        BY <4>1, <4>2, Zenon DEF DamageUnheard
    <3> QED
      BY <3>1, <3>2, Zenon
  <2> QED
    BY <2>2, <2>3, Zenon
<1> QED
  BY <1>1, BytesCorrect, SlicesCorrect, IntactCorrect, TypeCorrect, PTL

\* While nothing but undamaged frames comes, the coordinator hears exactly what was
\* sent: none is lost, whatever is in them, and none is made up.
THEOREM IntactHeard ==
  Spec => [](Range(sent) \subseteq Frames /\ air = <<>> /\ ~feeding => Heard = Range(sent))
<1>1. DamageContained
        => (Range(sent) \subseteq Frames /\ air = <<>> /\ ~feeding => Heard = Range(sent))
  <2> SUFFICES ASSUME DamageContained, Range(sent) \subseteq Frames, air = <<>>, ~feeding
               PROVE  Heard = Range(sent)
    OBVIOUS
  <2>1. Intact
    BY FramesBuilt, Zenon DEF Intact, Range
  <2>2. Heard = Range(sent) \cap Frames
    BY <2>1, Zenon DEF DamageContained
  <2> QED
    BY <2>2, Zenon
<1> QED
  BY <1>1, ContainedCorrect, PTL
=============================================================================

------------------------- MODULE ReassemblerProofs -------------------------
(***************************************************************************)
(* What the reassembler guarantees for every stream of bytes, however it   *)
(* is cut into notifications.                                              *)
(***************************************************************************)
EXTENDS Reassembler, WellFoundedInduction, SequenceTheorems, TLAPS

\* A set of numbers that is not empty has a least one, and that is its Min.
LEMMA LeastNumber ==
  ASSUME NEW S \in SUBSET Nat, S # {}
  PROVE  Min(S) \in S /\ \A n \in S : Min(S) <= n
<1> DEFINE Below == {pair \in Nat \X Nat : pair[1] < pair[2]}
<1>1. IsWellFoundedOn(Below, Nat)
  BY NatLessThanWellFounded, Zenon DEF OpToRel
<1> HIDE DEF Below
<1>2. PICK n \in S : \A m \in S : <<m, n>> \notin Below
  BY <1>1, WFMin
<1>3. ASSUME NEW m \in S
      PROVE  n <= m
  <2>1. ~(m < n)
    BY <1>2 DEF Below
  <2> QED
    BY <2>1
<1> QED
  BY <1>3 DEF Min

\* `find' returns the place of a magic, which leaves at least its two bytes.
LEMMA FirstMagic ==
  ASSUME NEW s \in Seq(Nat), Magics(s) # {}
  PROVE  Min(Magics(s)) \in 1..Len(s) - 1
<1>1. Magics(s) \in SUBSET Nat
  BY DEF Magics
<1>2. Min(Magics(s)) \in Magics(s)
  BY <1>1, LeastNumber
<1> QED
  BY <1>2 DEF Magics

\* The end of a sequence from one of its places on, or from just behind it.
LEMMA FromType ==
  ASSUME NEW s \in Seq(Nat), NEW i \in 1..Len(s) + 1
  PROVE  From(s, i) \in Seq(Nat) /\ Len(From(s, i)) = Len(s) + 1 - i
BY DEF From

\* What the loop looks at is a sequence of bytes with the magic at its head.
LEMMA AlignedType ==
  ASSUME buffer \in Seq(Nat), Magics(buffer) # {}
  PROVE  Aligned \in Seq(Nat) /\ Len(Aligned) >= 2
<1>1. Min(Magics(buffer)) \in 1..Len(buffer) - 1
  BY FirstMagic
<1> QED
  BY <1>1, FromType DEF Aligned

\* The bytes of the magic are bytes.
LEMMA MagicType == Magic[1] \in Nat /\ Magic[2] \in Nat
<1>1. 1 \in 1..Len(Magic) /\ 2 \in 1..Len(Magic)
  BY ReassemblerAssumption
<1>2. Magic \in [1..Len(Magic) -> Nat]
  BY ReassemblerAssumption, SMTT(30)
<1> QED
  BY <1>1, <1>2

\* A header declares a natural number.
LEMMA DeclaredType ==
  ASSUME NEW s \in Seq(Nat), Len(s) >= 4
  PROVE  Declared(s, 1) \in Nat
<1>1. 3 \in 1..Len(s) /\ 4 \in 1..Len(s)
  OBVIOUS
<1>2. s[3] \in Nat /\ s[4] \in Nat
  BY <1>1
<1> QED
  BY <1>2 DEF Declared

\* Every callback and every turn of the loop keeps the types.
LEMMA TypeStep == TypeOK /\ [Next]_vars => TypeOK'
<1> SUFFICES ASSUME TypeOK, [Next]_vars
             PROVE  TypeOK'
  OBVIOUS
<1> USE ReassemblerAssumption DEF TypeOK, charger
<1>1. ASSUME Notify
      PROVE  TypeOK'
  <2>1. PICK n \in 1..Len(air) :
          /\ buffer' = buffer \o SubSeq(air, 1, n)
          /\ stream' = stream \o SubSeq(air, 1, n)
          /\ air' = From(air, n + 1)
    BY <1>1 DEF Notify
  <2>2. SubSeq(air, 1, n) \in Seq(Nat)
    OBVIOUS
  <2>3. From(air, n + 1) \in Seq(Nat)
    BY FromType
  <2>4. buffer' \in Seq(Nat) /\ stream' \in Seq(Nat) /\ air' \in Seq(Nat)
    <3>1. \A s, t \in Seq(Nat) : s \o t \in Seq(Nat)
      OBVIOUS
    <3>2. buffer \in Seq(Nat) /\ stream \in Seq(Nat)
      BY Zenon
    <3> QED
      BY <2>1, <2>2, <2>3, <3>1, <3>2, Zenon
  <2>5. /\ feeding' \in BOOLEAN
        /\ frames' \in Seq(Seq(Nat)) /\ sent' \in Seq(Frames \cup Rubbish)
        /\ since' \in Nat /\ said' \in Seq(Frames)
    BY <1>1, Zenon DEF Notify
  <2> QED
    BY <2>4, <2>5, Zenon
<1>2. ASSUME NoMagic
      PROVE  TypeOK'
  <2>1. Magic[1] \in Nat
    BY MagicType
  <2>2. <<Magic[1]>> \in Seq(Nat) /\ <<>> \in Seq(Nat)
    BY <2>1
  <2>3. buffer' \in Seq(Nat)
    BY <1>2, <2>2, Zenon DEF NoMagic
  <2> QED
    BY <1>2, <2>3, Zenon DEF NoMagic
<1>3. ASSUME AwaitHeader \/ AwaitFrame
      PROVE  TypeOK'
  <2>1. Aligned \in Seq(Nat)
    BY <1>3, AlignedType DEF AwaitHeader, AwaitFrame, AtHeader, AtMagic
  <2> QED
    BY <1>3, <2>1, Zenon DEF AwaitHeader, AwaitFrame
<1>4. ASSUME SkipMagic
      PROVE  TypeOK'
  <2>1. From(Aligned, 3) \in Seq(Nat)
    BY <1>4, AlignedType, FromType DEF SkipMagic, AtHeader, AtMagic
  <2> QED
    BY <1>4, <2>1, Zenon DEF SkipMagic
<1>5. ASSUME TakeFrame
      PROVE  TypeOK'
  <2>1. Aligned \in Seq(Nat) /\ Len(Aligned) >= 4
    BY <1>5, AlignedType DEF TakeFrame, AtHeader, AtMagic
  <2>2. Declared(Aligned, 1) \in 1..Len(Aligned)
    <3>1. Declared(Aligned, 1) \in Nat
      BY <2>1, DeclaredType
    <3> HIDE DEF TypeOK
    <3> QED
      BY <1>5, <2>1, <3>1 DEF TakeFrame, Plausible
  <2>3. From(Aligned, Declared(Aligned, 1) + 1) \in Seq(Nat)
    BY <2>1, <2>2, FromType
  <2>4. SubSeq(Aligned, 1, Declared(Aligned, 1)) \in Seq(Nat)
    BY <2>1, <2>2, SMTT(30)
  <2>5. buffer' \in Seq(Nat)
    BY <1>5, <2>3, Zenon DEF TakeFrame
  <2>6. frames' \in Seq(Seq(Nat))
    BY <1>5, <2>4 DEF TakeFrame
  <2> QED
    BY <1>5, <2>5, <2>6, Zenon DEF TakeFrame
<1>6. ASSUME Reset
      PROVE  TypeOK'
  <2>1. /\ <<>> \in Seq(Nat) /\ <<>> \in Seq(Seq(Nat)) /\ <<>> \in Seq(Frames \cup Rubbish)
        /\ <<>> \in Seq(Frames) /\ MaxLen \in Nat
    OBVIOUS
  <2> QED
    BY <1>6, <2>1, Zenon DEF Reset
<1>7. ASSUME Say
      PROVE  TypeOK'
  <2>1. PICK piece \in Frames \cup Rubbish :
          /\ air' = piece
          /\ sent' = Append(sent, piece)
          /\ since' = IF Disturbs(piece) THEN 0 ELSE since + Len(piece)
          /\ said' = IF Disturbs(piece) THEN <<>>
                     ELSE IF since < MaxLen THEN said ELSE Append(said, piece)
    BY <1>7, Zenon DEF Say
  <2>2. air' \in Seq(Nat) /\ sent' \in Seq(Frames \cup Rubbish)
    BY <2>1
  <2>4. since' \in Nat
    BY <2>1
  <2>5. ~Disturbs(piece) => piece \in Frames
    BY Zenon DEF Disturbs
  <2>6. said' \in Seq(Frames)
    BY <2>1, <2>5
  <2> QED
    BY <1>7, <2>2, <2>4, <2>6, Zenon DEF Say
<1>8. CASE UNCHANGED vars
  BY <1>8, Zenon DEF vars, charger
<1> QED
  BY <1>1, <1>2, <1>3, <1>4, <1>5, <1>6, <1>7, <1>8 DEF Next, Turn

\* The variables of the reassembler and of its stream keep their types.
THEOREM TypeCorrect == Spec => []TypeOK
<1>1. Init => TypeOK
  <2> SUFFICES ASSUME Init
               PROVE  TypeOK
    OBVIOUS
  <2>1. /\ buffer \in Seq(Nat) /\ stream \in Seq(Nat) /\ air \in Seq(Nat)
        /\ frames \in Seq(Seq(Nat)) /\ sent \in Seq(Frames \cup Rubbish)
        /\ since \in Nat /\ said \in Seq(Frames)
    BY ReassemblerAssumption DEF Init
  <2>2. feeding \in BOOLEAN
    BY Zenon DEF Init
  <2> QED
    BY <2>1, <2>2, Zenon DEF TypeOK
<1> QED
  BY <1>1, TypeStep, PTL DEF Spec

\* MAX_FRAME_LEN bounds what is kept from one notification to the next,
\* whatever bytes arrive: a false header cannot make `feed' collect for ever.
THEOREM BufferCorrect == Spec => []BufferBounded
<1>1. Init => BufferBounded
  BY ReassemblerAssumption DEF Init, BufferBounded
<1>2. TypeOK /\ BufferBounded /\ [Next]_vars => BufferBounded'
  <2> SUFFICES ASSUME TypeOK, BufferBounded, [Next]_vars
               PROVE  BufferBounded'
    OBVIOUS
  <2> USE ReassemblerAssumption DEF TypeOK, BufferBounded
  <2>1. ASSUME Notify \/ SkipMagic \/ TakeFrame
        PROVE  BufferBounded'
    BY <2>1 DEF Notify, SkipMagic, TakeFrame, AtHeader, AtMagic
  <2>2. ASSUME NoMagic
        PROVE  BufferBounded'
    BY <2>2 DEF NoMagic
  <2>3. ASSUME AwaitHeader
        PROVE  BufferBounded'
    BY <2>3, AlignedType DEF AwaitHeader, AtMagic
  <2>4. ASSUME AwaitFrame
        PROVE  BufferBounded'
    <3>1. Aligned \in Seq(Nat) /\ Len(Aligned) >= 4
      BY <2>4, AlignedType DEF AwaitFrame, AtHeader, AtMagic
    <3>2. Len(Aligned) < Declared(Aligned, 1) /\ Declared(Aligned, 1) <= MaxLen
      BY <2>4 DEF AwaitFrame, Plausible
    <3>3. Declared(Aligned, 1) \in Nat
      BY <3>1, DeclaredType
    <3> QED
      BY <2>4, <3>1, <3>2, <3>3 DEF AwaitFrame
  <2>5. ASSUME Reset \/ Say \/ UNCHANGED vars
        PROVE  BufferBounded'
    BY <2>5 DEF Reset, Say, vars, charger
  <2> QED
    BY <2>1, <2>2, <2>3, <2>4, <2>5 DEF Next, Turn
<1> QED
  BY <1>1, <1>2, TypeCorrect, PTL DEF Spec
----------------------------------------------------------------------------
(* Recursion over the bytes that are left: what Read is. *)

\* A set of sequences that is not empty has one that is no longer than the others.
LEMMA Shortest ==
  ASSUME NEW T \in SUBSET Seq(Nat), T # {}
  PROVE  \E s \in T : \A t \in T : Len(s) <= Len(t)
<1> DEFINE lengths == {Len(s) : s \in T}
<1>1. lengths \in SUBSET Nat
  <2>1. \A s \in T : Len(s) \in Nat
    OBVIOUS
  <2> QED
    BY <2>1
<1>2. lengths # {}
  OBVIOUS
<1>3. Min(lengths) \in lengths /\ \A n \in lengths : Min(lengths) <= n
  <2> HIDE DEF lengths
  <2> QED
    BY <1>1, <1>2, LeastNumber
<1> QED
  BY <1>3

\* How a recursive function with values in V may be defined: from what it says of
\* other sequences, all of them shorter; and that a function is so defined.
Steps(V) == [[Seq(Nat) -> V] \X Seq(Nat) -> V]

LooksAhead(V, Step) ==
  \A g, h \in [Seq(Nat) -> V], s \in Seq(Nat) :
    (\A t \in Seq(Nat) : Len(t) < Len(s) => g[t] = h[t]) => Step[<<g, s>>] = Step[<<h, s>>]

Defined(f, Step) == \A s \in Seq(Nat) : f[s] = Step[<<f, s>>]

\* Each such step does define a function.
LEMMA Recursion ==
  ASSUME NEW V, NEW none \in V, NEW Step \in Steps(V), LooksAhead(V, Step)
  PROVE  \E f \in [Seq(Nat) -> V] : Defined(f, Step)
<1> USE DEF Steps, LooksAhead
<1> DEFINE Fits(g, n) == \A s \in Seq(Nat) : Len(s) < n => g[s] = Step[<<g, s>>]
           reached == {n \in Nat : \E g \in [Seq(Nat) -> V] : Fits(g, n)}
<1>1. 0 \in reached
  <2>1. [s \in Seq(Nat) |-> none] \in [Seq(Nat) -> V]
    OBVIOUS
  <2>2. Fits([s \in Seq(Nat) |-> none], 0)
    OBVIOUS
  <2> QED
    BY <2>1, <2>2
<1>2. ASSUME NEW n \in reached
      PROVE  n + 1 \in reached
  <2>1. PICK g \in [Seq(Nat) -> V] : Fits(g, n)
    OBVIOUS
  <2> DEFINE h == [s \in Seq(Nat) |-> Step[<<g, s>>]]
  <2>2. h \in [Seq(Nat) -> V]
    OBVIOUS
  <2>3. ASSUME NEW s \in Seq(Nat), Len(s) < n + 1
        PROVE  h[s] = Step[<<h, s>>]
    <3>1. \A t \in Seq(Nat) : Len(t) < Len(s) => g[t] = h[t]
      BY <2>1, <2>3
    <3>2. Step[<<g, s>>] = Step[<<h, s>>]
      BY <2>2, <3>1
    <3> QED
      BY <3>2
  <2> HIDE DEF h
  <2>4. Fits(h, n + 1)
    BY <2>3
  <2> QED
    BY <2>2, <2>4
<1> HIDE DEF reached
<1>3. Nat \ reached = {}
  <2> SUFFICES ASSUME Nat \ reached # {}
               PROVE  FALSE
    OBVIOUS
  <2>1. PICK n \in Nat \ reached : \A m \in Nat \ reached : n <= m
    <3>1. Nat \ reached \in SUBSET Nat
      OBVIOUS
    <3> QED
      BY <3>1, LeastNumber
  <2>2. n # 0
    BY <1>1
  <2>3. n - 1 \in reached
    BY <2>1, <2>2
  <2>4. (n - 1) + 1 \in reached
    BY <1>2, <2>3
  <2>5. (n - 1) + 1 = n
    OBVIOUS
  <2> QED
    BY <2>4, <2>5
<1>4. \A n \in Nat : \E g \in [Seq(Nat) -> V] : Fits(g, n)
  BY <1>3 DEF reached
<1>5. ASSUME NEW g \in [Seq(Nat) -> V], NEW h \in [Seq(Nat) -> V],
             NEW m \in Nat, NEW n \in Nat, Fits(g, m), Fits(h, n)
      PROVE  \A s \in Seq(Nat) : Len(s) < m /\ Len(s) < n => g[s] = h[s]
  <2> DEFINE apart == {s \in Seq(Nat) : Len(s) < m /\ Len(s) < n /\ g[s] # h[s]}
  <2> SUFFICES ASSUME apart # {}
               PROVE  FALSE
    OBVIOUS
  <2>1. PICK s \in apart : \A t \in apart : Len(s) <= Len(t)
    <3>1. apart \in SUBSET Seq(Nat)
      OBVIOUS
    <3> HIDE DEF apart
    <3> QED
      BY <3>1, Shortest
  <2>2. ASSUME NEW t \in Seq(Nat), Len(t) < Len(s)
        PROVE  g[t] = h[t]
    <3>1. t \notin apart
      BY <2>1, <2>2
    <3>2. Len(s) < m /\ Len(s) < n
      OBVIOUS
    <3> QED
      BY <2>2, <3>1, <3>2
  <2>3. Step[<<g, s>>] = Step[<<h, s>>]
    BY <2>2
  <2> QED
    BY <1>5, <2>3
<1> DEFINE pick[n \in Nat] == CHOOSE g \in [Seq(Nat) -> V] : Fits(g, n)
           f == [s \in Seq(Nat) |-> pick[Len(s) + 1][s]]
<1>6. \A n \in Nat : pick[n] \in [Seq(Nat) -> V] /\ Fits(pick[n], n)
  BY <1>4
<1> HIDE DEF pick
<1>7. f \in [Seq(Nat) -> V]
  BY <1>6
<1>8. ASSUME NEW s \in Seq(Nat)
      PROVE  f[s] = Step[<<f, s>>]
  <2>1. Len(s) + 1 \in Nat
    OBVIOUS
  <2> DEFINE g == pick[Len(s) + 1]
  <2>2. g \in [Seq(Nat) -> V] /\ Fits(g, Len(s) + 1)
    BY <1>6, <2>1
  <2> HIDE DEF g
  <2>3. ASSUME NEW t \in Seq(Nat), Len(t) < Len(s)
        PROVE  f[t] = g[t]
    <3>1. Len(t) + 1 \in Nat /\ Len(t) < Len(t) + 1 /\ Len(t) < Len(s) + 1
      BY <2>3
    <3> DEFINE h == pick[Len(t) + 1]
    <3>2. h \in [Seq(Nat) -> V] /\ Fits(h, Len(t) + 1)
      BY <1>6, <3>1
    <3>3. f[t] = h[t]
      OBVIOUS
    <3> HIDE DEF h, Fits, f
    <3>4. h[t] = g[t]
      BY <1>5, <2>1, <2>2, <3>1, <3>2, ZenonT(30)
    <3> QED
      BY <3>3, <3>4
  <2>4. Step[<<f, s>>] = Step[<<g, s>>]
    BY <1>7, <2>2, <2>3
  <2>5. g[s] = Step[<<g, s>>]
    BY <2>2
  <2>6. f[s] = g[s]
    BY DEF g
  <2> QED
    BY <2>4, <2>5, <2>6
<1> QED
  BY <1>7, <1>8 DEF Defined

\* A header is a whole one, and declares what is plausible.
LEMMA HeaderType ==
  ASSUME NEW s \in Seq(Nat), NEW i \in Headers(s)
  PROVE  /\ i \in Nat /\ 1 <= i /\ i + 3 <= Len(s)
         /\ Declared(s, i) \in Nat /\ 4 <= Declared(s, i) /\ Declared(s, i) <= MaxLen
<1>1. /\ i \in Nat /\ 1 <= i /\ i + 3 <= Len(s)
      /\ MinLen <= Declared(s, i) /\ Declared(s, i) <= MaxLen
  BY DEF Headers, Magics, Plausible
<1>2. i + 2 \in 1..Len(s) /\ i + 3 \in 1..Len(s)
  BY <1>1
<1>3. Declared(s, i) \in Nat
  BY <1>2 DEF Declared
<1> QED
  BY <1>1, <1>3, ReassemblerAssumption

\* If there are any, Read begins at the first.
LEMMA FirstHeader ==
  ASSUME NEW s \in Seq(Nat), Headers(s) # {}
  PROVE  Min(Headers(s)) \in Headers(s) /\ \A i \in Headers(s) : Min(Headers(s)) <= i
<1>1. Headers(s) \in SUBSET Nat
  BY DEF Headers, Magics
<1> QED
  BY <1>1, LeastNumber

\* Where the first frame ends, if all of it is there.
FirstEnd(s) == Min(Headers(s)) + Declared(s, Min(Headers(s))) - 1

LEMMA FirstEndType ==
  ASSUME NEW s \in Seq(Nat), Headers(s) # {}
  PROVE  FirstEnd(s) \in Nat /\ Min(Headers(s)) \in Nat /\ 1 <= Min(Headers(s))
         /\ Min(Headers(s)) + 3 <= FirstEnd(s)
<1> DEFINE first == Min(Headers(s))
<1>1. first \in Headers(s)
  BY FirstHeader
<1> HIDE DEF first
<1>2. first \in Nat /\ 1 <= first /\ Declared(s, first) \in Nat /\ 4 <= Declared(s, first)
  BY <1>1, HeaderType
<1> QED
  BY <1>2 DEF first, FirstEnd

\* The right-hand side of Read, with g for the function it defines.
Reading(g, s) ==
  IF Headers(s) = {} THEN <<>>
  ELSE IF FirstEnd(s) > Len(s) THEN <<>>
  ELSE <<SubSeq(s, Min(Headers(s)), FirstEnd(s))>> \o g[From(s, FirstEnd(s) + 1)]

\* What is read is a sequence of sequences of bytes, if g says so of what is left.
LEMMA ReadingType ==
  ASSUME NEW s \in Seq(Nat), NEW g,
         \A t \in Seq(Nat) : Len(t) < Len(s) => g[t] \in Seq(Seq(Nat))
  PROVE  Reading(g, s) \in Seq(Seq(Nat))
<1>1. CASE Headers(s) = {} \/ FirstEnd(s) > Len(s)
  BY <1>1 DEF Reading
<1>2. CASE Headers(s) # {} /\ FirstEnd(s) <= Len(s)
  <2>1. /\ FirstEnd(s) \in Nat /\ Min(Headers(s)) \in Nat /\ 1 <= Min(Headers(s))
        /\ Min(Headers(s)) + 3 <= FirstEnd(s)
    BY <1>2, FirstEndType
  <2>2. SubSeq(s, Min(Headers(s)), FirstEnd(s)) \in Seq(Nat)
    BY <1>2, <2>1
  <2>3. FirstEnd(s) + 1 \in 1..Len(s) + 1
    BY <1>2, <2>1
  <2>4. From(s, FirstEnd(s) + 1) \in Seq(Nat) /\ Len(From(s, FirstEnd(s) + 1)) < Len(s)
    BY <2>1, <2>3, FromType
  <2>5. g[From(s, FirstEnd(s) + 1)] \in Seq(Seq(Nat))
    BY <2>4
  <2> QED
    BY <1>2, <2>1, <2>2, <2>5 DEF Reading
<1> QED
  BY <1>1, <1>2, FirstEndType

\* Only what is left matters to Reading.
LEMMA ReadingLocal ==
  ASSUME NEW s \in Seq(Nat), NEW g, NEW h,
         \A t \in Seq(Nat) : Len(t) < Len(s) => g[t] = h[t]
  PROVE  Reading(g, s) = Reading(h, s)
<1>1. CASE Headers(s) = {} \/ FirstEnd(s) > Len(s)
  BY <1>1 DEF Reading
<1>2. CASE Headers(s) # {} /\ FirstEnd(s) <= Len(s)
  <2>1. FirstEnd(s) \in Nat /\ 4 <= FirstEnd(s)
    BY <1>2, FirstEndType
  <2>2. FirstEnd(s) + 1 \in 1..Len(s) + 1
    BY <1>2, <2>1
  <2>3. From(s, FirstEnd(s) + 1) \in Seq(Nat) /\ Len(From(s, FirstEnd(s) + 1)) < Len(s)
    BY <2>1, <2>2, FromType
  <2>4. g[From(s, FirstEnd(s) + 1)] = h[From(s, FirstEnd(s) + 1)]
    BY <2>3
  <2> QED
    BY <2>4 DEF Reading
<1> QED
  BY <1>1, <1>2, FirstEndType

\* Read satisfies its equation.
LEMMA ReadEquation ==
  ASSUME NEW s \in Seq(Nat)
  PROVE  Read[s] = Reading(Read, s)
<1> DEFINE V == Seq(Seq(Nat))
           Step == [gs \in [Seq(Nat) -> V] \X Seq(Nat) |-> Reading(gs[1], gs[2])]
<1>1. <<>> \in V
  OBVIOUS
<1>2. ASSUME NEW g \in [Seq(Nat) -> V], NEW t \in Seq(Nat)
      PROVE  Step[<<g, t>>] = Reading(g, t) /\ Reading(g, t) \in V
  BY ReadingType
<1>3. Step \in Steps(V)
  BY <1>2 DEF Steps
<1>4. ASSUME NEW g \in [Seq(Nat) -> V], NEW h \in [Seq(Nat) -> V], NEW t \in Seq(Nat),
             \A u \in Seq(Nat) : Len(u) < Len(t) => g[u] = h[u]
      PROVE  Step[<<g, t>>] = Step[<<h, t>>]
  <2>1. Reading(g, t) = Reading(h, t)
    BY <1>4, ReadingLocal
  <2> QED
    BY <1>2, <2>1
<1> HIDE DEF V, Step
<1>5. LooksAhead(V, Step)
  BY <1>4 DEF LooksAhead
<1>6. PICK f \in [Seq(Nat) -> V] : Defined(f, Step)
  BY <1>1, <1>3, <1>5, Recursion, Zenon
<1>7. f = [t \in Seq(Nat) |-> Reading(f, t)]
  BY <1>2, <1>6 DEF Defined
<1>8. Read = CHOOSE g : g = [t \in Seq(Nat) |-> Reading(g, t)]
  BY Zenon DEF Read, Reading, FirstEnd
<1>9. Read = [t \in Seq(Nat) |-> Reading(Read, t)]
  BY <1>7, <1>8
<1> QED
  BY <1>9

LEMMA ReadType == \A s \in Seq(Nat) : Read[s] \in Seq(Seq(Nat))
<1> DEFINE bad == {s \in Seq(Nat) : Read[s] \notin Seq(Seq(Nat))}
<1> SUFFICES ASSUME bad # {}
             PROVE  FALSE
  OBVIOUS
<1>1. PICK s \in bad : \A t \in bad : Len(s) <= Len(t)
  <2>1. bad \in SUBSET Seq(Nat)
    OBVIOUS
  <2> HIDE DEF bad
  <2> QED
    BY <2>1, Shortest
<1>2. \A t \in Seq(Nat) : Len(t) < Len(s) => Read[t] \in Seq(Seq(Nat))
  BY <1>1
<1> QED
  BY <1>2, ReadingType, ReadEquation
----------------------------------------------------------------------------
(* What Read returns of a stream that is cut, or continued. *)

LEMMA BytesAssociative == \A s, t, u \in Seq(Nat) : (s \o t) \o u = s \o (t \o u)
BY SMTT(30)

LEMMA FramesAssociative == \A s, t, u \in Seq(Seq(Nat)) : (s \o t) \o u = s \o (t \o u)
OBVIOUS

\* The places of the rest of a sequence, in that sequence.
LEMMA FromAt ==
  ASSUME NEW s \in Seq(Nat), NEW k \in 1..Len(s) + 1, NEW i \in 1..Len(s) + 1 - k
  PROVE  From(s, k)[i] = s[i + k - 1]
BY DEF From

\* The rest of the rest.
LEMMA FromFrom ==
  ASSUME NEW s \in Seq(Nat), NEW k \in 1..Len(s) + 1, NEW j \in 1..Len(s) + 2 - k
  PROVE  From(From(s, k), j) = From(s, j + k - 1)
<1> DEFINE t == From(s, k)
           n == j + k - 1
<1>1. t \in Seq(Nat) /\ Len(t) = Len(s) + 1 - k
  BY FromType
<1>2. \A i \in 1..Len(t) : t[i] = s[i + k - 1]
  BY <1>1, FromAt
<1>3. n \in 1..Len(s) + 1
  OBVIOUS
<1>4. j \in 1..Len(t) + 1
  BY <1>1
<1>5. Len(t) + 1 - j = Len(s) + 1 - n
  BY <1>1
<1>6. \A i \in 1..Len(t) + 1 - j : i + j - 1 \in 1..Len(t) /\ (i + j - 1) + k - 1 = i + n - 1
  BY <1>1
<1> HIDE DEF t, n
<1>7. From(t, j) \in Seq(Nat) /\ Len(From(t, j)) = Len(t) + 1 - j
  BY <1>1, <1>4, FromType
<1>8. From(s, n) \in Seq(Nat) /\ Len(From(s, n)) = Len(s) + 1 - n
  BY <1>3, FromType
<1>9. ASSUME NEW i \in 1..Len(t) + 1 - j
      PROVE  From(t, j)[i] = From(s, n)[i]
  <2>1. From(t, j)[i] = t[i + j - 1]
    BY <1>1, <1>4, FromAt
  <2>2. t[i + j - 1] = s[i + n - 1]
    BY <1>2, <1>6
  <2>3. From(s, n)[i] = s[i + n - 1]
    BY <1>3, <1>5, FromAt
  <2> QED
    BY <2>1, <2>2, <2>3
<1>10. From(t, j) = From(s, n)
  BY <1>5, <1>7, <1>8, <1>9, SeqEqual
<1> QED
  BY <1>10 DEF t, n

\* The rest of a sequence that is continued.
LEMMA FromContinued ==
  ASSUME NEW s \in Seq(Nat), NEW x \in Seq(Nat), NEW k \in 1..Len(s) + 1
  PROVE  From(s \o x, k) = From(s, k) \o x
<1>1. From(s, k) \in Seq(Nat) /\ Len(From(s, k)) = Len(s) + 1 - k
  BY FromType
<1>2. s \o x \in Seq(Nat) /\ Len(s \o x) = Len(s) + Len(x)
  OBVIOUS
<1>3. k \in 1..Len(s \o x) + 1
  BY <1>2
<1>4. From(s \o x, k) \in Seq(Nat) /\ Len(From(s \o x, k)) = Len(s) + Len(x) + 1 - k
  BY <1>2, <1>3, FromType
<1>5. ASSUME NEW i \in 1..Len(s) + Len(x) + 1 - k
      PROVE  From(s \o x, k)[i] = (From(s, k) \o x)[i]
  <2>1. From(s \o x, k)[i] = (s \o x)[i + k - 1]
    BY <1>2, <1>3, FromAt
  <2>2. CASE i + k - 1 <= Len(s)
    <3>1. i \in 1..Len(s) + 1 - k
      BY <2>2
    <3>2. (s \o x)[i + k - 1] = s[i + k - 1]
      BY <2>2
    <3>3. (From(s, k) \o x)[i] = From(s, k)[i]
      BY <1>1, <3>1
    <3> QED
      BY <2>1, <3>1, <3>2, <3>3, FromAt
  <2>3. CASE ~(i + k - 1 <= Len(s))
    <3>1. (s \o x)[i + k - 1] = x[i + k - 1 - Len(s)]
      BY <2>3, SMTT(30)
    <3>2. (From(s, k) \o x)[i] = x[i - (Len(s) + 1 - k)]
      BY <1>1, <2>3
    <3>3. i + k - 1 - Len(s) = i - (Len(s) + 1 - k)
      OBVIOUS
    <3> QED
      BY <2>1, <3>1, <3>2, <3>3, Zenon
  <2> QED
    BY <2>2, <2>3, Zenon
<1>6. /\ From(s, k) \o x \in Seq(Nat)
      /\ Len(From(s, k) \o x) = Len(s) + Len(x) + 1 - k
  <2>1. /\ From(s, k) \o x \in Seq(Nat)
        /\ Len(From(s, k) \o x) = Len(From(s, k)) + Len(x)
    BY <1>1, ConcatProperties, Zenon
  <2> QED
    BY <1>1, <2>1
<1> DEFINE l == From(s \o x, k)
           r == From(s, k) \o x
           n == Len(s) + Len(x) + 1 - k
<1>7. l \in Seq(Nat) /\ Len(l) = n /\ r \in Seq(Nat) /\ Len(r) = n
  BY <1>4, <1>6, Zenon
<1>8. \A i \in 1..n : l[i] = r[i]
  BY <1>5, Zenon
<1> HIDE DEF l, r, n
<1>9. l = r
  BY <1>7, <1>8, SeqEqual
<1> QED
  BY <1>9, Zenon DEF l, r

\* A sequence from its first place on, or from behind its last.
LEMMA FromEnds ==
  ASSUME NEW s \in Seq(Nat)
  PROVE  From(s, 1) = s /\ From(s, Len(s) + 1) = <<>>
<1>1. From(s, 1) \in Seq(Nat) /\ Len(From(s, 1)) = Len(s)
  BY FromType
<1>2. \A i \in 1..Len(s) : From(s, 1)[i] = s[i]
  BY FromAt
<1>3. Len(From(s, Len(s) + 1)) = 0 /\ From(s, Len(s) + 1) \in Seq(Nat)
  BY FromType
<1> QED
  BY <1>1, <1>2, <1>3, SeqEqual

\* The headers of the rest are those of the sequence, and declare the same.
LEMMA HeadersOfRest ==
  ASSUME NEW s \in Seq(Nat), NEW k \in 1..Len(s) + 1, NEW i \in Nat \ {0}
  PROVE  /\ i \in Headers(From(s, k)) <=> i + k - 1 \in Headers(s)
         /\ i \in Headers(From(s, k)) => Declared(From(s, k), i) = Declared(s, i + k - 1)
<1> DEFINE t == From(s, k)
<1>1. t \in Seq(Nat) /\ Len(t) = Len(s) + 1 - k
  BY FromType
<1>2. i + 3 <= Len(t) <=> (i + k - 1) + 3 <= Len(s)
  BY <1>1
<1>3. CASE i + 3 <= Len(t)
  <2>1. /\ t[i] = s[i + k - 1] /\ t[i + 1] = s[(i + k - 1) + 1]
        /\ t[i + 2] = s[(i + k - 1) + 2] /\ t[i + 3] = s[(i + k - 1) + 3]
    <3>1. /\ i \in 1..Len(s) + 1 - k /\ i + 1 \in 1..Len(s) + 1 - k
          /\ i + 2 \in 1..Len(s) + 1 - k /\ i + 3 \in 1..Len(s) + 1 - k
      BY <1>1, <1>3
    <3>2. /\ t[i] = s[i + k - 1] /\ t[i + 1] = s[i + 1 + k - 1]
          /\ t[i + 2] = s[i + 2 + k - 1] /\ t[i + 3] = s[i + 3 + k - 1]
      BY <3>1, FromAt
    <3>3. /\ i + 1 + k - 1 = (i + k - 1) + 1 /\ i + 2 + k - 1 = (i + k - 1) + 2
          /\ i + 3 + k - 1 = (i + k - 1) + 3
      OBVIOUS
    <3> QED
      BY <3>2, <3>3
  <2>2. Declared(t, i) = Declared(s, i + k - 1)
    BY <2>1 DEF Declared
  <2>3. i \in 1..Len(t) - 1 /\ i + k - 1 \in 1..Len(s) - 1
    BY <1>1, <1>3
  <2>4. i \in Magics(t) <=> i + k - 1 \in Magics(s)
    BY <2>1, <2>3, Zenon DEF Magics
  <2> QED
    BY <1>2, <1>3, <2>2, <2>4, Zenon DEF Headers
<1>4. CASE ~(i + 3 <= Len(t))
  BY <1>2, <1>4 DEF Headers
<1> QED
  BY <1>3, <1>4

\* Nothing is read where there is no header.
LEMMA ReadNothing ==
  ASSUME NEW s \in Seq(Nat), Headers(s) = {}
  PROVE  Read[s] = <<>>
BY ReadEquation DEF Reading

\* Bytes in front of the first header do not count.
LEMMA ReadRest ==
  ASSUME NEW s \in Seq(Nat), NEW k \in 1..Len(s) + 1, \A i \in Headers(s) : k <= i
  PROVE  Read[From(s, k)] = Read[s]
<1> DEFINE t == From(s, k)
<1>1. t \in Seq(Nat) /\ Len(t) = Len(s) + 1 - k
  BY FromType
<1>2. ASSUME Headers(s) = {}
      PROVE  Read[t] = Read[s]
  <2>1. Headers(t) = {}
    <3> SUFFICES ASSUME NEW i \in Headers(t)
                 PROVE  FALSE
      OBVIOUS
    <3>1. i \in Nat \ {0}
      BY <1>1, HeaderType
    <3> QED
      BY <1>2, <3>1, HeadersOfRest
  <2> QED
    BY <1>1, <1>2, <2>1, ReadNothing
<1>3. ASSUME Headers(s) # {}
      PROVE  Read[t] = Read[s]
  <2> DEFINE f == Min(Headers(s))
             g == Min(Headers(t))
             e == FirstEnd(s)
  <2>1. /\ f \in Headers(s) /\ \A i \in Headers(s) : f <= i
        /\ f \in Nat /\ 1 <= f /\ k <= f /\ f + 3 <= e /\ e \in Nat
    BY <1>3, FirstHeader, FirstEndType
  <2>2. f - k + 1 \in Nat \ {0} /\ (f - k + 1) + k - 1 = f
    BY <2>1
  <2>3. f - k + 1 \in Headers(t) /\ Declared(t, f - k + 1) = Declared(s, f)
    BY <2>1, <2>2, HeadersOfRest
  <2>4. g \in Headers(t) /\ g <= f - k + 1
    <3> HIDE DEF t, f
    <3> QED
      BY <1>1, <2>3, FirstHeader
  <2>5. g \in Nat \ {0} /\ g + k - 1 \in Headers(s)
    <3> HIDE DEF g
    <3>1. g \in Nat \ {0}
      BY <1>1, <2>4, HeaderType
    <3> QED
      BY <2>4, <3>1, HeadersOfRest
  <2>6. g = f - k + 1
    <3>1. f <= g + k - 1
      BY <2>1, <2>5
    <3> HIDE DEF f, g
    <3> QED
      BY <2>1, <2>4, <2>5, <3>1
  <2>7. FirstEnd(t) = e - k + 1
    <3>1. Declared(t, g) = Declared(s, f) /\ Declared(s, f) \in Nat
      BY <2>1, <2>3, <2>6, HeaderType
    <3>2. FirstEnd(t) = g + Declared(t, g) - 1 /\ e = f + Declared(s, f) - 1
      BY DEF FirstEnd
    <3> HIDE DEF f, g, e, t
    <3> QED
      BY <2>1, <2>6, <3>1, <3>2, SMTT(30)
  <2> HIDE DEF f, g, e, t
  <2>8. Headers(t) # {}
    BY <2>3
  <2>9. CASE e > Len(s)
    <3>1. e - k + 1 > Len(t)
      BY <1>1, <2>1, <2>9
    <3>2. Reading(Read, t) = <<>>
      BY <2>7, <2>8, <3>1 DEF Reading
    <3>3. Reading(Read, s) = <<>>
      BY <1>3, <2>9 DEF Reading, e
    <3> QED
      BY <1>1, <3>2, <3>3, ReadEquation
  <2>10. CASE e <= Len(s)
    <3>1. ~(e - k + 1 > Len(t)) /\ ~(e > Len(s))
      BY <1>1, <2>1, <2>10
    <3>2. SubSeq(t, g, e - k + 1) = SubSeq(s, f, e)
      <4>1. SubSeq(t, g, e - k + 1) \in Seq(Nat) /\ Len(SubSeq(t, g, e - k + 1)) = e + 1 - f
        BY <1>1, <2>1, <2>6, <2>10
      <4>2. SubSeq(s, f, e) \in Seq(Nat) /\ Len(SubSeq(s, f, e)) = e + 1 - f
        BY <2>1, <2>10
      <4>3. ASSUME NEW i \in 1..e + 1 - f
            PROVE  SubSeq(t, g, e - k + 1)[i] = SubSeq(s, f, e)[i]
        <5>1. SubSeq(t, g, e - k + 1)[i] = t[g + i - 1]
          <6>1. g \in Int /\ e - k + 1 \in Int /\ i \in 1..(e - k + 1) - g + 1
            BY <2>1, <2>6
          <6>2. \A j \in g..e - k + 1 : t[j] \in Nat
            BY <1>1, <2>1, <2>5, <2>6, <2>10
          <6> QED
            BY <6>1, <6>2, SubSeqProperties
        <5>2. SubSeq(s, f, e)[i] = s[f + i - 1]
          <6>1. f \in Int /\ e \in Int /\ i \in 1..e - f + 1
            BY <2>1
          <6>2. \A j \in f..e : s[j] \in Nat
            BY <2>1, <2>10
          <6> QED
            BY <6>1, <6>2, SubSeqProperties
        <5>3. g + i - 1 \in 1..Len(s) + 1 - k /\ (g + i - 1) + k - 1 = f + i - 1
          BY <2>1, <2>6, <2>10
        <5>4. t[g + i - 1] = s[f + i - 1]
          BY <5>3, FromAt DEF t
        <5> QED
          BY <5>1, <5>2, <5>4
      <4> QED
        BY <4>1, <4>2, <4>3, SeqEqual
    <3>3. From(t, (e - k + 1) + 1) = From(s, e + 1)
      <4>1. (e - k + 1) + 1 \in 1..Len(s) + 2 - k /\ (e - k + 1) + 1 + k - 1 = e + 1
        BY <2>1, <2>10
      <4> QED
        BY <4>1, FromFrom DEF t
    <3>4. Reading(Read, t) = <<SubSeq(t, g, e - k + 1)>> \o Read[From(t, (e - k + 1) + 1)]
      BY <2>7, <2>8, <3>1, Zenon DEF Reading, g
    <3>5. Reading(Read, s) = <<SubSeq(s, f, e)>> \o Read[From(s, e + 1)]
      BY <1>3, <3>1, Zenon DEF Reading, f, e
    <3> QED
      BY <1>1, <3>2, <3>3, <3>4, <3>5, ReadEquation
  <2> QED
    BY <2>1, <2>9, <2>10
<1> QED
  BY <1>2, <1>3

\* A frame at the head is returned, and what follows it is read; unless the
\* frame is not complete.
LEMMA ReadFirst ==
  ASSUME NEW s \in Seq(Nat), 1 \in Headers(s)
  PROVE  Read[s] = IF Declared(s, 1) > Len(s) THEN <<>>
                   ELSE <<SubSeq(s, 1, Declared(s, 1))>> \o Read[From(s, Declared(s, 1) + 1)]
<1>1. Min(Headers(s)) = 1
  <2>1. Min(Headers(s)) \in Headers(s) /\ Min(Headers(s)) <= 1
    BY FirstHeader
  <2>2. Min(Headers(s)) \in Nat /\ 1 <= Min(Headers(s))
    BY <2>1, HeaderType
  <2> QED
    BY <2>1, <2>2
<1>2. FirstEnd(s) = Declared(s, 1)
  <2>1. Declared(s, 1) \in Nat
    BY HeaderType
  <2>2. FirstEnd(s) = 1 + Declared(s, 1) - 1
    BY <1>1 DEF FirstEnd
  <2> QED
    BY <2>1, <2>2
<1>3. Headers(s) # {}
  OBVIOUS
<1> QED
  BY <1>1, <1>2, <1>3, ReadEquation, Zenon DEF Reading

\* A magic at the head.
Headed(b) == 2 <= Len(b) /\ b[1] = Magic[1] /\ b[2] = Magic[2]

\* What `feed' may leave: nothing, half a magic, or the head of what may be a frame.
Settled(b) ==
  \/ b = <<>>
  \/ b = <<Magic[1]>>
  \/ Headed(b) /\ (4 <= Len(b) => Plausible(Declared(b, 1)) /\ Len(b) < Declared(b, 1))

\* The head of a sequence that is continued.
LEMMA HeadContinued ==
  ASSUME NEW b \in Seq(Nat), NEW x \in Seq(Nat)
  PROVE  /\ b \o x \in Seq(Nat) /\ Len(b \o x) = Len(b) + Len(x)
         /\ \A i \in 1..Len(b) : (b \o x)[i] = b[i]
         /\ 4 <= Len(b) => Declared(b \o x, 1) = Declared(b, 1)
         /\ Headed(b) => 1 \in Magics(b \o x)
<1>1. /\ b \o x \in Seq(Nat) /\ Len(b \o x) = Len(b) + Len(x)
      /\ \A i \in 1..Len(b) : (b \o x)[i] = b[i]
  OBVIOUS
<1>2. ASSUME 4 <= Len(b)
      PROVE  Declared(b \o x, 1) = Declared(b, 1)
  <2>1. (b \o x)[1 + 2] = b[1 + 2] /\ (b \o x)[1 + 3] = b[1 + 3]
    BY <1>1, <1>2
  <2> QED
    BY <2>1, Zenon DEF Declared
<1>3. ASSUME Headed(b)
      PROVE  1 \in Magics(b \o x)
  <2>1. (b \o x)[1] = Magic[1] /\ (b \o x)[1 + 1] = Magic[2]
    BY <1>1, <1>3 DEF Headed
  <2>2. 1 \in 1..Len(b \o x) - 1
    BY <1>1, <1>3 DEF Headed
  <2> QED
    BY <2>1, <2>2 DEF Magics
<1> QED
  BY <1>1, <1>2, <1>3

\* A header that begins in front of the last byte begins with a magic there already.
LEMMA HeaderWithin ==
  ASSUME NEW b \in Seq(Nat), NEW x \in Seq(Nat), NEW i \in Headers(b \o x), i < Len(b)
  PROVE  i \in Magics(b)
<1>1. /\ b \o x \in Seq(Nat) /\ Len(b \o x) = Len(b) + Len(x)
      /\ \A j \in 1..Len(b) : (b \o x)[j] = b[j]
  BY HeadContinued
<1>2. i \in Nat /\ 1 <= i
  BY <1>1, HeaderType
<1>3. i \in 1..Len(b) /\ i + 1 \in 1..Len(b) /\ i \in 1..Len(b) - 1
  BY <1>2
<1>4. (b \o x)[i] = Magic[1] /\ (b \o x)[i + 1] = Magic[2]
  BY DEF Headers, Magics
<1> QED
  BY <1>1, <1>3, <1>4 DEF Magics

\* Dropping the bytes in front of the first header changes nothing, however the
\* stream goes on.
LEMMA DropReads ==
  ASSUME NEW b \in Seq(Nat), NEW x \in Seq(Nat), NEW k \in 1..Len(b) + 1,
         \A i \in Headers(b \o x) : k <= i
  PROVE  Read[From(b, k) \o x] = Read[b \o x]
<1>1. b \o x \in Seq(Nat) /\ Len(b \o x) = Len(b) + Len(x)
  BY HeadContinued
<1>2. k \in 1..Len(b \o x) + 1
  BY <1>1
<1>3. Read[From(b \o x, k)] = Read[b \o x]
  BY <1>1, <1>2, ReadRest
<1> QED
  BY <1>3, FromContinued

\* `del self._buffer[:start]'
LEMMA AlignReads ==
  ASSUME NEW b \in Seq(Nat), Magics(b) # {}, NEW x \in Seq(Nat)
  PROVE  /\ Headed(From(b, Min(Magics(b))))
         /\ Read[From(b, Min(Magics(b))) \o x] = Read[b \o x]
<1> DEFINE m == Min(Magics(b))
<1>1. m \in 1..Len(b) - 1
  BY FirstMagic
<1>2. m \in Magics(b) /\ \A i \in Magics(b) : m <= i
  <2>1. Magics(b) \in SUBSET Nat
    BY DEF Magics
  <2> QED
    BY <2>1, LeastNumber
<1> HIDE DEF m
<1>3. Headed(From(b, m))
  <2>1. m \in 1..Len(b) + 1 /\ 1 \in 1..Len(b) + 1 - m /\ 2 \in 1..Len(b) + 1 - m
    BY <1>1
  <2>2. Len(From(b, m)) = Len(b) + 1 - m
    BY <2>1, FromType
  <2>3. From(b, m)[1] = b[1 + m - 1] /\ From(b, m)[2] = b[2 + m - 1]
    BY <2>1, FromAt
  <2>4. 1 + m - 1 = m /\ 2 + m - 1 = m + 1
    BY <1>1
  <2>5. b[m] = Magic[1] /\ b[m + 1] = Magic[2]
    BY <1>2 DEF Magics
  <2> QED
    BY <1>1, <2>2, <2>3, <2>4, <2>5 DEF Headed
<1>4. ASSUME NEW i \in Headers(b \o x)
      PROVE  m <= i
  <2>1. i \in Nat
    BY HeadContinued, HeaderType
  <2>2. CASE i < Len(b)
    BY <1>2, <2>2, HeaderWithin
  <2>3. CASE ~(i < Len(b))
    BY <1>1, <2>1, <2>3
  <2> QED
    BY <2>2, <2>3
<1>5. m \in 1..Len(b) + 1
  BY <1>1
<1>6. Read[From(b, m) \o x] = Read[b \o x]
  BY <1>4, <1>5, DropReads
<1> QED
  BY <1>3, <1>6 DEF m

\* Bytes without a magic are worth nothing, but the last may be half of one.
LEMMA NoMagicReads ==
  ASSUME NEW b \in Seq(Nat), Magics(b) = {}, NEW x \in Seq(Nat)
  PROVE  Read[(IF b # <<>> /\ b[Len(b)] = Magic[1] THEN <<Magic[1]>> ELSE <<>>) \o x] = Read[b \o x]
<1>1. ASSUME NEW i \in Headers(b \o x)
      PROVE  Len(b) <= i /\ i \in Nat
  <2>1. i \in Nat
    BY HeadContinued, HeaderType
  <2>2. ~(i < Len(b))
    BY HeaderWithin
  <2> QED
    BY <2>1, <2>2
<1>2. CASE b # <<>> /\ b[Len(b)] = Magic[1]
  <2>1. Len(b) \in 1..Len(b) + 1 /\ 1 \in 1..Len(b) + 1 - Len(b)
    BY <1>2
  <2>2. From(b, Len(b)) = <<Magic[1]>>
    <3>1. From(b, Len(b)) \in Seq(Nat) /\ Len(From(b, Len(b))) = 1
      <4>1. From(b, Len(b)) \in Seq(Nat) /\ Len(From(b, Len(b))) = Len(b) + 1 - Len(b)
        BY <2>1, FromType, Zenon
      <4> QED
        BY <4>1
    <3>2. From(b, Len(b))[1] = b[1 + Len(b) - 1] /\ 1 + Len(b) - 1 = Len(b)
      BY <2>1, FromAt
    <3>3. <<Magic[1]>> \in Seq(Nat) /\ Len(<<Magic[1]>>) = 1 /\ <<Magic[1]>>[1] = Magic[1]
      BY MagicType
    <3> QED
      BY <1>2, <3>1, <3>2, <3>3, SeqEqual
  <2>3. Read[From(b, Len(b)) \o x] = Read[b \o x]
    BY <1>1, <2>1, DropReads
  <2> QED
    BY <1>2, <2>2, <2>3
<1>3. CASE ~(b # <<>> /\ b[Len(b)] = Magic[1])
  <2>1. ASSUME NEW i \in Headers(b \o x)
        PROVE  Len(b) + 1 <= i
    <3>1. i # Len(b)
      <4> SUFFICES ASSUME i = Len(b)
                   PROVE  FALSE
        OBVIOUS
      <4>1. 1 <= i
        BY HeadContinued, HeaderType
      <4>2. (b \o x)[i] = Magic[1]
        BY DEF Headers, Magics
      <4>3. i \in 1..Len(b)
        BY <4>1
      <4>4. b[Len(b)] = Magic[1]
        BY <4>2, <4>3, HeadContinued
      <4>5. b # <<>>
        BY <4>1
      <4> QED
        BY <1>3, <4>4, <4>5
    <3> QED
      BY <1>1, <3>1
  <2>2. Len(b) + 1 \in 1..Len(b) + 1
    OBVIOUS
  <2>3. Read[From(b, Len(b) + 1) \o x] = Read[b \o x]
    BY <2>1, <2>2, DropReads
  <2> QED
    BY <1>3, <2>3, FromEnds
<1> QED
  BY <1>2, <1>3

\* A false header is worth nothing either, but its second half may be the first
\* of another.
LEMMA SkipReads ==
  ASSUME NEW b \in Seq(Nat), Headed(b), 4 <= Len(b), ~Plausible(Declared(b, 1)),
         NEW x \in Seq(Nat)
  PROVE  Read[From(b, 3) \o x] = Read[b \o x]
<1>1. ASSUME NEW i \in Headers(b \o x)
      PROVE  3 <= i
  <2>1. i \in Nat /\ 1 <= i
    BY HeadContinued, HeaderType
  <2>2. i # 1
    BY HeadContinued DEF Headers
  <2>3. i # 2
    <3>1. (b \o x)[2] = Magic[2]
      BY HeadContinued DEF Headed
    <3>2. i = 2 => (b \o x)[2] = Magic[1]
      BY DEF Headers, Magics
    <3> QED
      BY <3>1, <3>2, ReassemblerAssumption
  <2> QED
    BY <2>1, <2>2, <2>3
<1>2. 3 \in 1..Len(b) + 1
  OBVIOUS
<1> QED
  BY <1>1, <1>2, DropReads

\* A complete frame at the head is read, whatever follows.
LEMMA TakeReads ==
  ASSUME NEW b \in Seq(Nat), Headed(b), 4 <= Len(b), Plausible(Declared(b, 1)),
         Declared(b, 1) <= Len(b), NEW x \in Seq(Nat)
  PROVE  Read[b \o x] = <<SubSeq(b, 1, Declared(b, 1))>> \o Read[From(b, Declared(b, 1) + 1) \o x]
<1> DEFINE d == Declared(b, 1)
<1>1. b \o x \in Seq(Nat) /\ Len(b \o x) = Len(b) + Len(x) /\ Declared(b \o x, 1) = d
  BY HeadContinued
<1>2. 1 \in Headers(b \o x)
  <2>1. 1 \in Magics(b \o x) /\ 1 + 3 <= Len(b \o x)
    BY <1>1, HeadContinued
  <2> QED
    BY <1>1, <2>1 DEF Headers
<1>3. d \in Nat /\ 1 <= d
  <2>1. Declared(b \o x, 1) \in Nat /\ 4 <= Declared(b \o x, 1)
    BY <1>1, <1>2, HeaderType, Zenon
  <2> QED
    BY <1>1, <2>1
<1> HIDE DEF d
<1>4. ~(d > Len(b \o x))
  BY <1>1, <1>3 DEF d
<1>5. Read[b \o x] = <<SubSeq(b \o x, 1, d)>> \o Read[From(b \o x, d + 1)]
  BY <1>1, <1>2, <1>4, ReadFirst
<1>6. SubSeq(b \o x, 1, d) = SubSeq(b, 1, d)
  <2>1. 1 \in 1..Len(b) /\ d \in 1..Len(b)
    BY <1>3 DEF d
  <2> QED
    BY <2>1, SubSeqOfConcat1
<1>7. From(b \o x, d + 1) = From(b, d + 1) \o x
  <2>1. d + 1 \in 1..Len(b) + 1
    BY <1>3 DEF d
  <2> QED
    BY <2>1, FromContinued
<1> QED
  BY <1>5, <1>6, <1>7 DEF d

\* Of what `feed' leaves nothing can be read yet.
LEMMA SettledUnread ==
  ASSUME NEW b \in Seq(Nat), Settled(b)
  PROVE  Read[b] = <<>>
<1>1. CASE Len(b) < 4
  <2>1. \A i \in Headers(b) : FALSE
    BY <1>1, HeaderType
  <2> QED
    BY <2>1, ReadNothing
<1>2. CASE 4 <= Len(b)
  <2>1. Headed(b) /\ Plausible(Declared(b, 1)) /\ Len(b) < Declared(b, 1)
    <3>1. b # <<>> /\ b # <<Magic[1]>>
      BY <1>2
    <3> QED
      BY <1>2, <3>1, Zenon DEF Settled
  <2>2. 1 \in Headers(b)
    BY <1>2, <2>1 DEF Headers, Magics, Headed
  <2>3. Declared(b, 1) > Len(b)
    BY <2>1, <2>2, HeaderType
  <2> QED
    BY <2>2, <2>3, ReadFirst
<1> QED
  BY <1>1, <1>2

----------------------------------------------------------------------------
(* What the reassembler has returned is what Read returns. *)

\* However the stream goes on: the frames of all its bytes are those returned so
\* far and those of the bytes that are kept.
ReadSoFar == \A x \in Seq(Nat) : Read[stream \o x] = frames \o Read[buffer \o x]

ReadInv == ReadSoFar /\ (~feeding => Settled(buffer))

\* A turn that returns nothing and drops what does not count.
LEMMA ReadKept ==
  ASSUME ReadSoFar, UNCHANGED <<stream, frames>>,
         \A x \in Seq(Nat) : Read[buffer' \o x] = Read[buffer \o x]
  PROVE  ReadSoFar'
BY Zenon DEF ReadSoFar

LEMMA ReadInvStep == TypeOK /\ ReadInv /\ [Next]_vars => ReadInv'
<1> SUFFICES ASSUME TypeOK, ReadInv, [Next]_vars
             PROVE  ReadInv'
  OBVIOUS
<1>0. /\ buffer \in Seq(Nat) /\ stream \in Seq(Nat) /\ air \in Seq(Nat)
      /\ frames \in Seq(Seq(Nat)) /\ feeding \in BOOLEAN /\ ReadSoFar
  BY Zenon DEF TypeOK, ReadInv
<1>1. ASSUME Notify
      PROVE  ReadInv'
  <2>1. PICK n \in 1..Len(air) :
          /\ buffer' = buffer \o SubSeq(air, 1, n)
          /\ stream' = stream \o SubSeq(air, 1, n)
    BY <1>1, Zenon DEF Notify
  <2> DEFINE y == SubSeq(air, 1, n)
  <2>2. y \in Seq(Nat)
    BY <1>0
  <2> HIDE DEF y
  <2>3. ASSUME NEW x \in Seq(Nat)
        PROVE  Read[stream' \o x] = frames' \o Read[buffer' \o x]
    <3>1. y \o x \in Seq(Nat)
      BY <2>2
    <3>2. stream' \o x = stream \o (y \o x) /\ buffer' \o x = buffer \o (y \o x)
      <4>1. stream' = stream \o y /\ buffer' = buffer \o y
        BY <2>1, Zenon DEF y
      <4>2. (stream \o y) \o x = stream \o (y \o x)
        BY <1>0, <2>2, BytesAssociative, ZenonT(30)
      <4>3. (buffer \o y) \o x = buffer \o (y \o x)
        BY <1>0, <2>2, BytesAssociative, ZenonT(30)
      <4> QED
        BY <4>1, <4>2, <4>3, Zenon
    <3>3. frames' = frames
      BY <1>1, Zenon DEF Notify
    <3> QED
      BY <1>0, <3>1, <3>2, <3>3, Zenon DEF ReadSoFar
  <2>4. feeding'
    BY <1>1, Zenon DEF Notify
  <2> QED
    BY <2>3, <2>4, Zenon DEF ReadInv, ReadSoFar
<1>2. ASSUME NoMagic
      PROVE  ReadInv'
  <2>1. \A x \in Seq(Nat) : Read[buffer' \o x] = Read[buffer \o x]
    <3>1. /\ Magics(buffer) = {}
          /\ buffer' = IF buffer # <<>> /\ buffer[Len(buffer)] = Magic[1] THEN <<Magic[1]>> ELSE <<>>
      BY <1>2, Zenon DEF NoMagic
    <3> QED
      BY <1>0, <3>1, NoMagicReads, Zenon
  <2>2. UNCHANGED <<stream, frames>> /\ (buffer' = <<>> \/ buffer' = <<Magic[1]>>)
    BY <1>2, Zenon DEF NoMagic
  <2>3. ReadSoFar'
    BY <1>0, <2>1, <2>2, ReadKept
  <2> QED
    BY <2>2, <2>3, Zenon DEF ReadInv, Settled
<1>3. ASSUME AtMagic
      PROVE  /\ Aligned \in Seq(Nat) /\ 2 <= Len(Aligned) /\ Headed(Aligned)
             /\ \A x \in Seq(Nat) : Read[Aligned \o x] = Read[buffer \o x]
  <2>1. Magics(buffer) # {}
    BY <1>3, Zenon DEF AtMagic
  <2>2. Aligned \in Seq(Nat) /\ Len(Aligned) >= 2
    BY <1>0, <2>1, AlignedType
  <2>3. Headed(Aligned) /\ \A x \in Seq(Nat) : Read[Aligned \o x] = Read[buffer \o x]
    BY <1>0, <2>1, AlignReads, Zenon DEF Aligned
  <2> QED
    BY <2>2, <2>3
<1>4. ASSUME AwaitHeader
      PROVE  ReadInv'
  <2>1. UNCHANGED <<stream, frames>> /\ buffer' = Aligned /\ AtMagic /\ Len(Aligned) < 4
    BY <1>4, Zenon DEF AwaitHeader
  <2>2. ReadSoFar'
    BY <1>0, <1>3, <2>1, ReadKept, Zenon
  <2>3. Settled(Aligned)
    BY <1>3, <2>1 DEF Settled
  <2> QED
    BY <2>1, <2>2, <2>3, Zenon DEF ReadInv
<1>5. ASSUME AwaitFrame
      PROVE  ReadInv'
  <2>1. /\ UNCHANGED <<stream, frames>> /\ buffer' = Aligned /\ AtMagic
        /\ Plausible(Declared(Aligned, 1)) /\ Len(Aligned) < Declared(Aligned, 1)
    BY <1>5, Zenon DEF AwaitFrame, AtHeader
  <2>2. ReadSoFar'
    BY <1>0, <1>3, <2>1, ReadKept, Zenon
  <2>3. Settled(Aligned)
    BY <1>3, <2>1, Zenon DEF Settled
  <2> QED
    BY <2>1, <2>2, <2>3, Zenon DEF ReadInv
<1>6. ASSUME SkipMagic
      PROVE  ReadInv'
  <2>1. /\ UNCHANGED <<feeding, stream, frames>> /\ buffer' = From(Aligned, 3)
        /\ AtMagic /\ 4 <= Len(Aligned) /\ ~Plausible(Declared(Aligned, 1))
    BY <1>6 DEF SkipMagic, AtHeader
  <2>2. \A x \in Seq(Nat) : Read[buffer' \o x] = Read[buffer \o x]
    BY <1>3, <2>1, SkipReads, Zenon
  <2>3. ReadSoFar'
    BY <1>0, <2>1, <2>2, ReadKept
  <2>4. feeding'
    BY <2>1, Zenon DEF AtMagic
  <2> QED
    BY <2>3, <2>4, Zenon DEF ReadInv
<1>7. ASSUME TakeFrame
      PROVE  ReadInv'
  <2> DEFINE d == Declared(Aligned, 1)
             frame == SubSeq(Aligned, 1, d)
  <2>1. /\ UNCHANGED <<feeding, stream>> /\ buffer' = From(Aligned, d + 1)
        /\ frames' = Append(frames, frame)
        /\ AtMagic /\ 4 <= Len(Aligned) /\ Plausible(d) /\ d <= Len(Aligned)
    <3>1. /\ AtMagic /\ Len(Aligned) >= 4 /\ Plausible(d) /\ Len(Aligned) >= d
          /\ UNCHANGED <<feeding, stream>> /\ buffer' = From(Aligned, d + 1)
          /\ frames' = Append(frames, frame)
      BY <1>7, Zenon DEF TakeFrame, AtHeader
    <3>2. d \in Nat /\ Len(Aligned) \in Nat
      BY <1>3, <3>1, DeclaredType
    <3> QED
      BY <3>1, <3>2
  <2>2. d \in Nat /\ frame \in Seq(Nat)
    <3>1. d \in Nat
      BY <1>3, <2>1, DeclaredType
    <3> QED
      BY <1>3, <2>1, <3>1
  <2>3. ASSUME NEW x \in Seq(Nat)
        PROVE  Read[stream' \o x] = frames' \o Read[buffer' \o x]
    <3>1. Read[Aligned \o x] = <<frame>> \o Read[buffer' \o x]
      BY <1>3, <2>1, TakeReads
    <3>2. Read[stream \o x] = frames \o (<<frame>> \o Read[buffer' \o x])
      BY <1>0, <1>3, <2>1, <3>1, Zenon DEF ReadSoFar
    <3>3. buffer' \o x \in Seq(Nat)
      <4>1. d + 1 \in 1..Len(Aligned) + 1
        BY <2>1, <2>2
      <4>2. buffer' \in Seq(Nat)
        BY <1>3, <2>1, <4>1, FromType
      <4> QED
        BY <4>2
    <3>4. Read[buffer' \o x] \in Seq(Seq(Nat))
      BY <3>3, ReadType
    <3> HIDE DEF frame
    <3>5. <<frame>> \in Seq(Seq(Nat)) /\ frames' = frames \o <<frame>>
      BY <1>0, <2>1, <2>2, AppendIsConcat
    <3>6. frames \o (<<frame>> \o Read[buffer' \o x]) = frames' \o Read[buffer' \o x]
      <4>1. (frames \o <<frame>>) \o Read[buffer' \o x] = frames \o (<<frame>> \o Read[buffer' \o x])
        BY <1>0, <3>4, <3>5, FramesAssociative, Zenon
      <4> QED
        BY <3>5, <4>1, Zenon
    <3> QED
      BY <2>1, <3>2, <3>6
  <2>4. feeding'
    BY <2>1, Zenon DEF AtMagic
  <2> QED
    BY <2>3, <2>4, Zenon DEF ReadInv, ReadSoFar
<1>8. ASSUME Reset
      PROVE  ReadInv'
  <2>1. buffer' = <<>> /\ frames' = <<>> /\ stream' = <<>>
    BY <1>8, Zenon DEF Reset
  <2>2. ASSUME NEW x \in Seq(Nat)
        PROVE  Read[<<>> \o x] = <<>> \o Read[<<>> \o x]
    <3>1. <<>> \o x = x
      OBVIOUS
    <3>2. Read[x] \in Seq(Seq(Nat))
      BY ReadType
    <3> QED
      BY <3>1, <3>2, ConcatEmptySeq
  <2> QED
    BY <2>1, <2>2, Zenon DEF ReadInv, ReadSoFar, Settled
<1>9. ASSUME Say \/ UNCHANGED vars
      PROVE  ReadInv'
  <2>1. UNCHANGED <<buffer, feeding, frames, stream>>
    BY <1>9, Zenon DEF Say, vars
  <2> QED
    BY <2>1, Zenon DEF ReadInv, ReadSoFar
<1> QED
  BY <1>1, <1>2, <1>4, <1>5, <1>6, <1>7, <1>8, <1>9 DEF Next, Turn

LEMMA ReadInvInit == Init => ReadInv
<1> SUFFICES ASSUME Init
             PROVE  ReadInv
  OBVIOUS
<1>1. buffer = <<>> /\ frames = <<>> /\ stream = <<>>
  BY Zenon DEF Init
<1>2. ASSUME NEW x \in Seq(Nat)
      PROVE  Read[<<>> \o x] = <<>> \o Read[<<>> \o x]
  <2>1. <<>> \o x = x
    OBVIOUS
  <2>2. Read[x] \in Seq(Seq(Nat))
    BY ReadType
  <2> QED
    BY <2>1, <2>2, ConcatEmptySeq
<1> QED
  BY <1>1, <1>2, Zenon DEF ReadInv, ReadSoFar, Settled

\* What `feed' returns over all its calls on a connection depends on the bytes of
\* the notifications, never on where the link cut them.
THEOREM ChunkingCorrect == Spec => []ChunkingIrrelevant
<1>1. TypeOK /\ ReadInv => ChunkingIrrelevant
  <2> SUFFICES ASSUME TypeOK, ReadInv, ~feeding
               PROVE  frames = Read[stream]
    BY DEF ChunkingIrrelevant
  <2>1. buffer \in Seq(Nat) /\ stream \in Seq(Nat) /\ frames \in Seq(Seq(Nat))
    BY Zenon DEF TypeOK
  <2>2. Read[buffer] = <<>>
    BY <2>1, SettledUnread DEF ReadInv
  <2>3. <<>> \in Seq(Nat) /\ stream \o <<>> = stream /\ buffer \o <<>> = buffer
    BY <2>1
  <2>4. Read[stream] = frames \o <<>>
    BY <2>2, <2>3, Zenon DEF ReadInv, ReadSoFar
  <2> QED
    BY <2>1, <2>4
<1>2. Spec => []ReadInv
  BY ReadInvInit, ReadInvStep, TypeCorrect, PTL DEF Spec
<1> QED
  BY <1>1, <1>2, TypeCorrect, PTL

----------------------------------------------------------------------------
(* What is read of the frames that the charger sends. *)

\* A whole piece has a header, and is as long as that says.
LEMMA WholeHeader ==
  ASSUME NEW f \in Seq(Nat), Whole(f)
  PROVE  /\ 4 <= Len(f) /\ f[1] = Magic[1] /\ Headed(f)
         /\ Declared(f, 1) = Len(f) /\ Plausible(Declared(f, 1))
<1>1. f \in Seq(Nat)
  OBVIOUS
<1>2. 4 <= Len(f) /\ MinLen <= Len(f) /\ Len(f) <= MaxLen
  BY <1>1, ReassemblerAssumption DEF Whole
<1>3. SubSeq(f, 1, 2)[1] = f[1] /\ SubSeq(f, 1, 2)[2] = f[2]
  BY <1>1, <1>2
<1>4. f[1] = Magic[1] /\ f[2] = Magic[2]
  BY <1>3, Zenon DEF Whole
<1>5. Headed(f)
  BY <1>1, <1>2, <1>4 DEF Headed
<1>6. Declared(f, 1) = Len(f)
  <2>1. 1 + 2 = 3 /\ 1 + 3 = 4
    OBVIOUS
  <2> QED
    BY <2>1, Zenon DEF Declared, Whole
<1> QED
  BY <1>1, <1>2, <1>4, <1>5, <1>6, Zenon DEF Plausible

\* So do the frames of the charger.
LEMMA FrameHeader ==
  ASSUME NEW f \in Frames
  PROVE  /\ f \in Seq(Nat) /\ 4 <= Len(f) /\ f[1] = Magic[1] /\ Headed(f)
         /\ Declared(f, 1) = Len(f) /\ Plausible(Declared(f, 1))
<1>1. f \in Seq(Nat) /\ Whole(f)
  BY FramesAssumption, ReassemblerAssumption
<1> QED
  BY <1>1, WholeHeader

\* It is read as one, whatever is in it and whatever follows.
LEMMA FrameReads ==
  ASSUME NEW f \in Seq(Nat), Whole(f), NEW x \in Seq(Nat)
  PROVE  Read[f \o x] = <<f>> \o Read[x]
<1>1. /\ f \in Seq(Nat) /\ 4 <= Len(f) /\ Headed(f)
      /\ Declared(f, 1) = Len(f) /\ Plausible(Declared(f, 1))
  BY WholeHeader
<1>2. Declared(f, 1) <= Len(f)
  BY <1>1
<1>3. Read[f \o x] = <<SubSeq(f, 1, Declared(f, 1))>> \o Read[From(f, Declared(f, 1) + 1) \o x]
  BY <1>1, <1>2, TakeReads
<1>4. SubSeq(f, 1, Len(f)) = f
  BY <1>1, SubSeqFull
<1>5. From(f, Len(f) + 1) = <<>>
  BY <1>1, FromEnds
<1>6. <<>> \o x = x
  OBVIOUS
<1> QED
  BY <1>1, <1>3, <1>4, <1>5, <1>6, Zenon

\* All bytes sent, whether notified or under way.
Spoken == stream \o air

\* Notifications move bytes from the air to the stream, and no turn of the loop does.
LEMMA SpokenKept ==
  ASSUME TypeOK, Notify \/ Turn
  PROVE  Spoken' = Spoken /\ UNCHANGED charger
<1>1. CASE Turn
  BY <1>1, Zenon DEF Turn, NoMagic, AwaitHeader, SkipMagic, AwaitFrame, TakeFrame, Spoken
<1>2. CASE Notify
  <2>0. stream \in Seq(Nat) /\ air \in Seq(Nat)
    BY Zenon DEF TypeOK
  <2>1. PICK n \in 1..Len(air) :
          stream' = stream \o SubSeq(air, 1, n) /\ air' = From(air, n + 1)
    BY <1>2, Zenon DEF Notify
  <2>2. n \in 1 - 1..Len(air) /\ Len(air) \in n..Len(air) /\ 1 \in 1..Len(air) + 1
    BY <2>0
  <2>3. SubSeq(air, 1, n) \o SubSeq(air, n + 1, Len(air)) = SubSeq(air, 1, Len(air))
    BY <2>0, <2>2, ConcatAdjacentSubSeq
  <2>4. SubSeq(air, 1, Len(air)) = air
    BY <2>0, SubSeqFull
  <2>5. SubSeq(air, 1, n) \in Seq(Nat) /\ SubSeq(air, n + 1, Len(air)) \in Seq(Nat)
    BY <2>0, <2>2
  <2>6. (stream \o SubSeq(air, 1, n)) \o SubSeq(air, n + 1, Len(air)) = stream \o air
    <3> DEFINE head == SubSeq(air, 1, n)
               rest == SubSeq(air, n + 1, Len(air))
    <3>1. head \in Seq(Nat) /\ rest \in Seq(Nat) /\ head \o rest = air
      BY <2>3, <2>4, <2>5, Zenon
    <3> HIDE DEF head, rest
    <3>2. (stream \o head) \o rest = stream \o (head \o rest)
      BY <2>0, <3>1, BytesAssociative, ZenonT(30)
    <3> QED
      BY <3>1, <3>2, Zenon DEF head, rest
  <2> QED
    BY <1>2, <2>1, <2>6, Zenon DEF Spoken, Notify, From
<1> QED
  BY <1>1, <1>2

\* As long as only whole pieces came they are what is read of the bytes sent, and
\* reading goes on behind them.
IntactInv == Intact => \A x \in Seq(Nat) : Read[Spoken \o x] = sent \o Read[x]

\* With no bytes sent yet.
LEMMA ReadFromStart ==
  ASSUME NEW x \in Seq(Nat)
  PROVE  Read[(<<>> \o <<>>) \o x] = <<>> \o Read[x] /\ <<>> \o x = x
<1>1. <<>> \o <<>> = <<>> /\ <<>> \o x = x
  OBVIOUS
<1>2. Read[x] \in Seq(Seq(Nat))
  BY ReadType
<1> QED
  BY <1>1, <1>2, ConcatEmptySeq

LEMMA IntactInvStep == TypeOK /\ IntactInv /\ [Next]_vars => IntactInv'
<1> SUFFICES ASSUME TypeOK, IntactInv, [Next]_vars
             PROVE  IntactInv'
  OBVIOUS
<1>1. CASE Notify \/ Turn
  BY <1>1, SpokenKept, Zenon DEF IntactInv, Intact, charger
<1>2. CASE Reset
  BY <1>2, ReadFromStart, Zenon DEF IntactInv, Reset, Spoken
<1>3. CASE Say
  <2>1. PICK piece \in Frames \cup Rubbish :
          /\ air' = piece
          /\ sent' = Append(sent, piece)
    BY <1>3, Zenon DEF Say
  <2>a. sent \in Seq(Frames \cup Rubbish)
    BY Zenon DEF TypeOK
  <2>b. Intact' => Intact /\ Whole(piece)
    <3>1. /\ DOMAIN sent \subseteq DOMAIN sent' /\ \A i \in DOMAIN sent : sent'[i] = sent[i]
          /\ Len(sent) + 1 \in DOMAIN sent' /\ sent'[Len(sent) + 1] = piece
      BY <2>1, <2>a
    <3> QED
      BY <3>1, Zenon DEF Intact
  <2> SUFFICES ASSUME Intact, Whole(piece), NEW x \in Seq(Nat)
               PROVE  Read[Spoken' \o x] = sent' \o Read[x]
    BY <2>b, Zenon DEF IntactInv
  <2>2. stream' = stream /\ air = <<>> /\ stream \in Seq(Nat) /\ piece \in Seq(Nat)
    BY <1>3, ReassemblerAssumption, Zenon DEF Say, TypeOK
  <2>3. Spoken = stream /\ Spoken' = stream \o piece
    BY <2>1, <2>2 DEF Spoken
  <2>4. piece \o x \in Seq(Nat) /\ (stream \o piece) \o x = stream \o (piece \o x)
    BY <2>2, SMTT(30)
  <2>5. Read[Spoken' \o x] = sent \o Read[piece \o x]
    BY <2>3, <2>4, Zenon DEF IntactInv
  <2>6. Read[piece \o x] = <<piece>> \o Read[x]
    BY <2>2, FrameReads
  <2>7. sent \in Seq(Seq(Nat)) /\ <<piece>> \in Seq(Seq(Nat)) /\ Read[x] \in Seq(Seq(Nat))
    BY <2>2, ReadType, ReassemblerAssumption DEF TypeOK
  <2>8. sent' = sent \o <<piece>>
    BY <2>1, <2>2, <2>7, AppendIsConcat
  <2>9. (sent \o <<piece>>) \o Read[x] = sent \o (<<piece>> \o Read[x])
    <3> DEFINE one == <<piece>>
               rest == Read[x]
    <3>1. one \in Seq(Seq(Nat)) /\ rest \in Seq(Seq(Nat))
      BY <2>7, Zenon
    <3> HIDE DEF one, rest
    <3>2. (sent \o one) \o rest = sent \o (one \o rest)
      BY <2>7, <3>1, FramesAssociative, SMTT(30)
    <3> QED
      BY <3>2, Zenon DEF one, rest
  <2> QED
    BY <2>5, <2>6, <2>8, <2>9, Zenon
<1>4. CASE UNCHANGED vars
  BY <1>4, Zenon DEF vars, charger, IntactInv, Intact, Spoken
<1> QED
  BY <1>1, <1>2, <1>3, <1>4 DEF Next

\* While every piece is whole, each is returned as soon as its last byte is in,
\* whatever it contains or is damaged in behind its length, and nothing else is.
THEOREM IntactCorrect == Spec => []IntactDelivered
<1>1. Init => IntactInv
  BY ReadFromStart, Zenon DEF Init, IntactInv, Spoken
<1>2. TypeOK /\ IntactInv /\ ChunkingIrrelevant => IntactDelivered
  <2> SUFFICES ASSUME TypeOK, IntactInv, ChunkingIrrelevant, Intact, air = <<>>, ~feeding
               PROVE  frames = sent
    BY DEF IntactDelivered
  <2>1. stream \in Seq(Nat) /\ sent \in Seq(Seq(Nat))
    BY ReassemblerAssumption DEF TypeOK
  <2>2. <<>> \in Seq(Nat) /\ Spoken \o <<>> = stream
    BY <2>1 DEF Spoken
  <2>3. Read[stream] = sent \o Read[<<>>]
    BY <2>2, Zenon DEF IntactInv
  <2>4. Read[<<>>] = <<>>
    BY SettledUnread, <2>2 DEF Settled
  <2>5. sent \o <<>> = sent
    BY <2>1
  <2> QED
    BY <2>3, <2>4, <2>5, Zenon DEF ChunkingIrrelevant
<1> QED
  BY <1>1, <1>2, IntactInvStep, ChunkingCorrect, TypeCorrect, PTL DEF Spec

----------------------------------------------------------------------------
(* How the stream is found again. *)

\* The head of a frame that is still awaited, of which the header is there.
Held(t) == Headed(t) /\ 4 <= Len(t) /\ Plausible(Declared(t, 1)) /\ Len(t) < Declared(t, 1)

\* What may follow without completing a magic.
Starts == {x \in Seq(Nat) : x = <<>> \/ x[1] # Magic[2]}

LEMMA HeldSettled == ASSUME NEW t, Held(t) PROVE Settled(t)
BY Zenon DEF Held, Settled

\* Less than MAX_FRAME_LEN bytes are ever held.
LEMMA SettledShort ==
  ASSUME NEW t \in Seq(Nat), Settled(t)
  PROVE  Len(t) < MaxLen
<1>1. CASE Len(t) < 4
  BY <1>1, ReassemblerAssumption
<1>2. CASE 4 <= Len(t)
  <2>1. t # <<>> /\ t # <<Magic[1]>>
    BY <1>2
  <2>2. Plausible(Declared(t, 1)) /\ Len(t) < Declared(t, 1)
    BY <1>2, <2>1, Zenon DEF Settled
  <2>3. Declared(t, 1) \in Nat
    BY <1>2, DeclaredType
  <2> QED
    BY <2>2, <2>3, ReassemblerAssumption DEF Plausible
<1> QED
  BY <1>1, <1>2

\* The part of a continued sequence behind what it continues.
LEMMA FromBehind ==
  ASSUME NEW t \in Seq(Nat), NEW f \in Seq(Nat), NEW j \in 1..Len(f) + 1
  PROVE  From(t \o f, Len(t) + j) = From(f, j)
<1>1. t \o f \in Seq(Nat) /\ Len(t \o f) = Len(t) + Len(f)
  BY HeadContinued
<1>2. Len(t) + 1 \in 1..Len(t) + 1 /\ Len(t) + 1 \in 1..Len(t \o f) + 1
  BY <1>1
<1>3. From(t \o f, Len(t) + 1) = f
  <2>1. From(t \o f, Len(t) + 1) = From(t, Len(t) + 1) \o f
    BY <1>2, FromContinued
  <2>2. From(t, Len(t) + 1) = <<>> /\ <<>> \o f = f
    BY FromEnds
  <2> QED
    BY <2>1, <2>2, Zenon
<1>4. j \in 1..Len(t \o f) + 2 - (Len(t) + 1) /\ j + (Len(t) + 1) - 1 = Len(t) + j
  BY <1>1
<1>5. From(From(t \o f, Len(t) + 1), j) = From(t \o f, j + (Len(t) + 1) - 1)
  BY <1>1, <1>2, <1>4, FromFrom
<1> QED
  BY <1>3, <1>4, <1>5, Zenon

LEMMA BehindAt ==
  ASSUME NEW t \in Seq(Nat), NEW f \in Seq(Nat), 1 <= Len(f)
  PROVE  (t \o f)[Len(t) + 1] = f[1]
OBVIOUS

\* What is left of a frame without its head is worth nothing, if it contained but
\* one magic.
LEMMA RestOfFrameReads ==
  ASSUME NEW f \in Frames, Magics(f) = {1}, NEW k \in 2..Len(f) + 1, NEW x \in Starts
  PROVE  Read[From(f, k) \o x] = Read[x]
<1> DEFINE r == From(f, k)
<1>1. f \in Seq(Nat) /\ x \in Seq(Nat)
  BY FrameHeader DEF Starts
<1>2. k \in 1..Len(f) + 1
  BY <1>1
<1>3. r \in Seq(Nat) /\ Len(r) = Len(f) + 1 - k
  BY <1>1, <1>2, FromType
<1>4. ASSUME NEW i \in Headers(r \o x)
      PROVE  Len(r) + 1 <= i
  <2> HIDE DEF r
  <2>1. i \in Nat /\ 1 <= i /\ r \o x \in Seq(Nat) /\ Len(r \o x) = Len(r) + Len(x)
        /\ i + 3 <= Len(r \o x)
    BY <1>1, <1>3, HeadContinued, HeaderType
  <2>2. ~(i < Len(r))
    <3> SUFFICES ASSUME i < Len(r)
                 PROVE  FALSE
      OBVIOUS
    <3>1. i \in Magics(r)
      BY <1>1, <1>3, HeaderWithin
    <3>2. r[i] = Magic[1] /\ r[i + 1] = Magic[2]
      BY <3>1 DEF Magics
    <3>3. i \in 1..Len(f) + 1 - k /\ i + 1 \in 1..Len(f) + 1 - k
      BY <1>1, <1>3, <2>1, SMTT(30)
    <3>4. r[i] = f[i + k - 1] /\ r[i + 1] = f[i + 1 + k - 1] /\ i + 1 + k - 1 = (i + k - 1) + 1
      BY <1>1, <1>2, <2>1, <3>3, FromAt DEF r
    <3>5. i + k - 1 \in 1..Len(f) - 1
      BY <1>1, <3>3
    <3>6. i + k - 1 \in Magics(f)
      BY <3>2, <3>4, <3>5 DEF Magics
    <3>7. i + k - 1 # 1
      BY <2>1
    <3> QED
      BY <3>6, <3>7
  <2>3. i # Len(r)
    <3> SUFFICES ASSUME i = Len(r)
                 PROVE  FALSE
      OBVIOUS
    <3>1. x # <<>> /\ Len(x) >= 1
      BY <1>1, <2>1
    <3>2. (r \o x)[i + 1] = x[1]
      BY <1>1, <1>3, <3>1, SMTT(30)
    <3>3. (r \o x)[i + 1] = Magic[2]
      BY DEF Headers, Magics
    <3> QED
      BY <3>1, <3>2, <3>3 DEF Starts
  <2>4. Len(r) \in Nat
    BY <1>3
  <2> QED
    BY <2>1, <2>2, <2>3, <2>4
<1> HIDE DEF r
<1>5. Len(r) + 1 \in 1..Len(r) + 1
  BY <1>3
<1>6. Read[From(r, Len(r) + 1) \o x] = Read[r \o x]
  BY <1>1, <1>3, <1>4, <1>5, DropReads
<1>7. From(r, Len(r) + 1) = <<>> /\ <<>> \o x = x
  BY <1>1, <1>3, FromEnds
<1> QED
  BY <1>6, <1>7, Zenon DEF r

\* A frame that follows what is held is read itself, or falls to what is held: then
\* it is held with it, or the last frame that is not one ends in it.
LEMMA Absorbed ==
  ASSUME NEW t \in Seq(Nat), Settled(t), NEW f \in Frames, t = <<>> \/ Magics(f) = {1}
  PROVE  \E more \in Seq(Seq(Nat)), u \in Seq(Nat) :
           /\ \A x \in Starts : Read[t \o (f \o x)] = more \o Read[u \o x]
           /\ u = <<>> \/ (Held(u) /\ Len(u) = Len(t) + Len(f))
           /\ t = <<>> => more = <<f>> /\ u = <<>>
<1>1. f \in Seq(Nat) /\ 4 <= Len(f) /\ f[1] = Magic[1] /\ <<f>> \in Seq(Seq(Nat))
  BY FrameHeader
<1>2. Magic[1] # Magic[2]
  BY ReassemblerAssumption
<1>3. \A x \in Starts : x \in Seq(Nat) /\ f \o x \in Seq(Nat) /\ <<>> \o x = x
                        /\ Read[f \o x] = <<f>> \o Read[<<>> \o x]
  <2> SUFFICES ASSUME NEW x \in Starts
               PROVE  x \in Seq(Nat) /\ f \o x \in Seq(Nat) /\ <<>> \o x = x
                      /\ Read[f \o x] = <<f>> \o Read[<<>> \o x]
    OBVIOUS
  <2>1. x \in Seq(Nat)
    BY DEF Starts
  <2>2. <<>> \o x = x /\ f \o x \in Seq(Nat)
    BY <1>1, <2>1
  <2>3. Read[f \o x] = <<f>> \o Read[x]
    BY <1>1, <2>1, FramesAssumption, FrameReads
  <2> QED
    BY <2>1, <2>2, <2>3
<1>4. ASSUME \A x \in Starts : Read[t \o (f \o x)] = Read[f \o x]
      PROVE  \E more \in Seq(Seq(Nat)), u \in Seq(Nat) :
               /\ \A x \in Starts : Read[t \o (f \o x)] = more \o Read[u \o x]
               /\ u = <<>> \/ (Held(u) /\ Len(u) = Len(t) + Len(f))
               /\ t = <<>> => more = <<f>> /\ u = <<>>
  <2>1. <<>> \in Seq(Nat)
    OBVIOUS
  <2> QED
    BY <1>1, <1>3, <1>4, <2>1, Zenon
<1>5. CASE t = <<>>
  <2>1. \A x \in Starts : <<>> \o (f \o x) = f \o x
    BY <1>3
  <2> QED
    BY <1>4, <1>5, <2>1, Zenon
<1>6. CASE t = <<Magic[1]>>
  <2>1. ASSUME NEW x \in Starts
        PROVE  Read[t \o (f \o x)] = Read[f \o x]
    <3> DEFINE y == f \o x
    <3>1. y \in Seq(Nat) /\ x \in Seq(Nat)
      BY <1>3
    <3>2. y[1] = Magic[1]
      BY <1>1, <3>1, HeadContinued
    <3> HIDE DEF y
    <3>3. Len(t) = 1
      BY <1>6
    <3>4. ASSUME NEW i \in Headers(t \o y)
          PROVE  2 <= i
      <4>1. i \in Nat /\ 1 <= i
        BY <3>1, HeadContinued, HeaderType
      <4>2. (t \o y)[i + 1] = Magic[2]
        BY DEF Headers, Magics
      <4>3. y # <<>> /\ Len(y) >= 1
        <5>1. Len(y) = Len(f) + Len(x)
          BY <1>1, <3>1, HeadContinued DEF y
        <5> QED
          BY <1>1, <3>1, <5>1
      <4>4. (t \o y)[1 + 1] = y[1]
        BY <3>1, <3>3, <4>3, BehindAt
      <4>5. i # 1
        BY <1>2, <3>2, <4>2, <4>4
      <4> QED
        BY <4>1, <4>5
    <3>5. 2 \in 1..Len(t) + 1 /\ Len(t) + 1 = 2
      BY <3>3
    <3>6. Read[From(t, 2) \o y] = Read[t \o y]
      BY <3>1, <3>4, <3>5, DropReads
    <3>7. From(t, 2) = <<>> /\ <<>> \o y = y
      BY <3>1, <3>5, FromEnds
    <3> QED
      BY <3>6, <3>7, Zenon DEF y
  <2> QED
    BY <1>4, <2>1, Zenon
<1>7. CASE Headed(t) /\ t # <<>> /\ (4 <= Len(t) => Plausible(Declared(t, 1)) /\ Len(t) < Declared(t, 1))
  <2> DEFINE b == t \o f
             d == Declared(b, 1)
  <2>1. /\ b \in Seq(Nat) /\ Len(b) = Len(t) + Len(f) /\ 4 <= Len(b) /\ 2 <= Len(t)
        /\ \A i \in 1..Len(t) : b[i] = t[i]
        /\ 4 <= Len(t) => d = Declared(t, 1)
    BY <1>1, <1>7, HeadContinued DEF Headed
  <2>2. Headed(b)
    <3>1. 1 \in 1..Len(t) /\ 2 \in 1..Len(t) /\ 2 <= Len(b)
      BY <2>1
    <3>2. b[1] = t[1] /\ b[2] = t[2]
      BY <2>1, <3>1
    <3> QED
      BY <1>7, <3>1, <3>2, Zenon DEF Headed
  <2>3. d \in Nat
    BY <2>1, DeclaredType
  <2>0. Len(b) = Len(t) + Len(f) /\ Len(t) \in Nat /\ Len(f) \in Nat /\ 4 <= Len(f)
    BY <1>1, <2>1
  <2>4. ASSUME NEW x \in Starts
        PROVE  t \o (f \o x) = b \o x
    <3>1. x \in Seq(Nat)
      BY <1>3
    <3>2. (t \o f) \o x = t \o (f \o x)
      BY <1>1, <3>1, BytesAssociative
    <3> QED
      BY <3>2
  <2> HIDE DEF b, d
  <2>5. CASE ~Plausible(d)
    <3>1. Len(t) < 4
      BY <1>7, <2>1, <2>5
    <3>2. ASSUME NEW x \in Starts
          PROVE  Read[t \o (f \o x)] = Read[f \o x]
      <4>1. x \in Seq(Nat) /\ b \o x \in Seq(Nat) /\ Declared(b \o x, 1) = d
            /\ \A i \in 1..Len(b) : (b \o x)[i] = b[i]
        BY <1>3, <2>1, HeadContinued DEF d
      <4>2. ASSUME NEW i \in Headers(b \o x)
            PROVE  Len(t) + 1 <= i
        <5>1. i \in Nat /\ 1 <= i
          BY <4>1, HeaderType
        <5>2. Plausible(Declared(b \o x, i)) /\ (b \o x)[i] = Magic[1] /\ (b \o x)[i + 1] = Magic[2]
          BY DEF Headers, Magics
        <5>3. i # 1
          BY <2>5, <4>1, <5>2
        <5>4. i # 2
          <6>1. (b \o x)[2] = Magic[2]
            BY <2>1, <2>2, <4>1 DEF Headed
          <6> QED
            BY <1>2, <5>2, <6>1
        <5>5. i # Len(t)
          <6>1. b[Len(t) + 1] = f[1]
            <7>1. (t \o f)[Len(t) + 1] = f[1]
              BY <1>1, BehindAt
            <7> QED
              BY <7>1 DEF b
          <6>2. Len(t) + 1 \in 1..Len(b)
            BY <2>0
          <6>3. (b \o x)[Len(t) + 1] = Magic[1]
            BY <1>1, <4>1, <6>1, <6>2
          <6> QED
            BY <1>2, <5>2, <6>3
        <5> QED
          BY <2>1, <3>1, <5>1, <5>3, <5>4, <5>5
      <4>3. Len(t) + 1 \in 1..Len(b) + 1
        BY <2>1
      <4>4. Read[From(b, Len(t) + 1) \o x] = Read[b \o x]
        BY <2>1, <4>1, <4>2, <4>3, DropReads
      <4>5. From(b, Len(t) + 1) = f
        <5>1. 1 \in 1..Len(f) + 1
          BY <1>1
        <5>2. From(b, Len(t) + 1) = From(f, 1)
          BY <1>1, <5>1, FromBehind DEF b
        <5> QED
          BY <1>1, <5>2, FromEnds
      <4> QED
        BY <2>4, <4>4, <4>5, Zenon
    <3> QED
      BY <1>4, <3>2, Zenon
  <2>6. CASE Plausible(d) /\ Len(b) < d
    <3>1. Held(b)
      BY <2>1, <2>2, <2>6, Zenon DEF Held, d
    <3>2. \A x \in Starts : Read[t \o (f \o x)] = <<>> \o Read[b \o x]
      <4> SUFFICES ASSUME NEW x \in Starts
                   PROVE  Read[b \o x] = <<>> \o Read[b \o x]
        BY <2>4, Zenon
      <4>1. b \o x \in Seq(Nat)
        BY <1>3, <2>1, HeadContinued
      <4>2. Read[b \o x] \in Seq(Seq(Nat))
        BY <4>1, ReadType
      <4> QED
        BY <4>2, ConcatEmptySeq
    <3>3. <<>> \in Seq(Seq(Nat)) /\ t # <<>>
      BY <1>7
    <3> QED
      BY <2>1, <3>1, <3>2, <3>3, Zenon
  <2>7. CASE Plausible(d) /\ d <= Len(b)
    <3>1. Len(t) < d
      <4>1. CASE 4 <= Len(t)
        BY <1>7, <2>1, <4>1
      <4>2. CASE Len(t) < 4
        BY <2>1, <2>3, <2>7, <4>2, ReassemblerAssumption DEF Plausible
      <4> QED
        BY <2>1, <4>1, <4>2
    <3> DEFINE k == d + 1 - Len(t)
               first == SubSeq(b, 1, d)
    <3>2. k \in 2..Len(f) + 1 /\ k \in 1..Len(f) + 1 /\ Len(t) + k = d + 1
      <4>1. d <= Len(t) + Len(f)
        BY <2>0, <2>7, Zenon
      <4> QED
        BY <2>0, <2>3, <3>1, <4>1
    <3> HIDE DEF k, first
    <3>3. From(b, d + 1) = From(f, k)
      <4>1. From(t \o f, Len(t) + k) = From(f, k)
        BY <1>1, <3>2, FromBehind
      <4> QED
        BY <3>2, <4>1, Zenon DEF b
    <3>4. first \in Seq(Nat) /\ <<first>> \in Seq(Seq(Nat))
      <4>1. SubSeq(b, 1, d) \in Seq(Nat)
        <5>1. \A i \in 1..d : b[i] \in Nat
          BY <2>1, <2>3, <2>7, SMTT(30)
        <5> QED
          BY <2>3, <5>1, SubSeqProperties
      <4>2. first \in Seq(Nat)
        BY <4>1 DEF first
      <4> QED
        BY <4>2
    <3>5. ASSUME NEW x \in Starts
          PROVE  Read[t \o (f \o x)] = <<first>> \o Read[<<>> \o x]
      <4>1. x \in Seq(Nat) /\ <<>> \o x = x
        BY <1>3
      <4>2. Read[b \o x] = <<SubSeq(b, 1, d)>> \o Read[From(b, d + 1) \o x]
        BY <2>1, <2>2, <2>7, <4>1, TakeReads DEF d
      <4>3. Read[From(f, k) \o x] = Read[x]
        BY <1>7, <3>2, RestOfFrameReads
      <4> QED
        BY <2>4, <3>3, <4>1, <4>2, <4>3, Zenon DEF first
    <3>6. <<>> \in Seq(Nat) /\ t # <<>>
      BY <1>7
    <3> QED
      BY <3>4, <3>5, <3>6, Zenon
  <2>8. Len(b) < d \/ d <= Len(b)
    BY <2>1, <2>3
  <2> QED
    BY <2>5, <2>6, <2>7, <2>8, Zenon
<1> QED
  BY <1>5, <1>6, <1>7, Zenon DEF Settled

\* Once something was sent since the last disturbance: behind what is lost, what is
\* said was read, and reading goes on behind the bytes sent; or behind the head of
\* something that is no frame, which then has all of those bytes in it.
FoundInv ==
  /\ 0 < since =>
       \E lost \in Seq(Seq(Nat)), t \in Seq(Nat) :
         /\ \A x \in Starts : Read[Spoken \o x] = (lost \o said) \o Read[t \o x]
         /\ t = <<>> \/ (Held(t) /\ since <= Len(t))
  /\ since < MaxLen => said = <<>>

\* The same, before a frame is sent, of what the reassembler keeps if need be.
LEMMA FoundBefore ==
  ASSUME TypeOK, ReadInv, FoundInv, ~feeding, air = <<>>
  PROVE  \E lost \in Seq(Seq(Nat)), t \in Seq(Nat) :
           /\ \A x \in Starts : Read[stream \o x] = (lost \o said) \o Read[t \o x]
           /\ Settled(t)
           /\ t = <<>> \/ since <= Len(t)
<1>1. /\ stream \in Seq(Nat) /\ buffer \in Seq(Nat) /\ frames \in Seq(Seq(Nat)) /\ since \in Nat
      /\ said \in Seq(Frames)
  BY Zenon DEF TypeOK
<1>2. Spoken = stream
  BY <1>1 DEF Spoken
<1>3. CASE 0 < since
  <2>1. PICK lost \in Seq(Seq(Nat)), t \in Seq(Nat) :
          /\ \A x \in Starts : Read[stream \o x] = (lost \o said) \o Read[t \o x]
          /\ t = <<>> \/ (Held(t) /\ since <= Len(t))
    BY <1>2, <1>3, Zenon DEF FoundInv
  <2>2. Settled(t)
    BY <2>1, HeldSettled, Zenon DEF Settled
  <2>3. t = <<>> \/ since <= Len(t)
    BY <2>1, Zenon
  <2> QED
    BY <2>1, <2>2, <2>3, Zenon
<1>4. CASE since = 0
  <2>1. said = <<>>
    <3>1. since < MaxLen
      <4>1. MaxLen \in Nat /\ MinLen \in Nat /\ 4 <= MinLen /\ MinLen <= MaxLen
        BY ReassemblerAssumption, Zenon
      <4> QED
        BY <1>4, <4>1
    <3> QED
      BY <3>1, Zenon DEF FoundInv
  <2>2. frames \o <<>> = frames
    BY <1>1
  <2>3. \A x \in Starts : Read[stream \o x] = frames \o Read[buffer \o x]
    BY Zenon DEF Starts, ReadInv, ReadSoFar
  <2>4. Settled(buffer)
    BY Zenon DEF ReadInv
  <2>5. since <= Len(buffer)
    BY <1>1, <1>4
  <2>6. \A x \in Starts : Read[stream \o x] = (frames \o said) \o Read[buffer \o x]
    BY <2>1, <2>2, <2>3, Zenon
  <2> QED
    BY <1>1, <2>4, <2>5, <2>6, Zenon
<1>5. 0 < since \/ since = 0
  BY <1>1
<1> QED
  BY <1>3, <1>4, <1>5, Zenon

LEMMA FoundInvStep == TypeOK /\ ReadInv /\ FoundInv /\ [Next]_vars => FoundInv'
<1> SUFFICES ASSUME TypeOK, ReadInv, FoundInv, [Next]_vars
             PROVE  FoundInv'
  OBVIOUS
<1>1. CASE Notify \/ Turn
  <2>1. Spoken' = Spoken /\ since' = since /\ said' = said
    BY <1>1, SpokenKept, Zenon DEF charger
  <2> QED
    BY <2>1, Zenon DEF FoundInv
<1>2. CASE Reset
  <2>1. Spoken' = <<>> \o <<>> /\ since' = MaxLen /\ said' = <<>>
    BY <1>2, Zenon DEF Reset, Spoken
  <2>2. \A x \in Starts : Read[(<<>> \o <<>>) \o x] = (<<>> \o <<>>) \o Read[<<>> \o x]
    BY ReadFromStart DEF Starts
  <2>3. <<>> \in Seq(Seq(Nat)) /\ <<>> \in Seq(Nat)
    OBVIOUS
  <2> QED
    BY <2>1, <2>2, <2>3, Zenon DEF FoundInv
<1>3. CASE Say
  <2>0. /\ stream \in Seq(Nat) /\ since \in Nat /\ said \in Seq(Seq(Nat))
        /\ ~feeding /\ air = <<>> /\ stream' = stream
    BY <1>3, ReassemblerAssumption DEF TypeOK, Say
  <2>1. PICK f \in Frames \cup Rubbish :
          /\ air' = f
          /\ since' = IF Disturbs(f) THEN 0 ELSE since + Len(f)
          /\ said' = IF Disturbs(f) THEN <<>>
                     ELSE IF since < MaxLen THEN said ELSE Append(said, f)
    BY <1>3, Zenon DEF Say
  <2>2. CASE Disturbs(f)
    <3>1. since' = 0 /\ said' = <<>>
      BY <2>1, <2>2, Zenon
    <3> QED
      BY <3>1 DEF FoundInv
  <2>3. CASE ~Disturbs(f)
    <3>1. f \in Frames /\ (since < MaxLen => Magics(f) = {1})
      BY <2>3, Zenon DEF Disturbs
    <3>2. f \in Seq(Nat) /\ 4 <= Len(f) /\ f[1] = Magic[1]
      BY <3>1, FrameHeader
    <3>3. PICK lost \in Seq(Seq(Nat)), t \in Seq(Nat) :
            /\ \A x \in Starts : Read[stream \o x] = (lost \o said) \o Read[t \o x]
            /\ Settled(t)
            /\ t = <<>> \/ since <= Len(t)
      BY <2>0, FoundBefore
    <3>4. t = <<>> \/ since < MaxLen
      <4>1. Len(t) \in Nat /\ Len(t) < MaxLen
        BY <3>3, SettledShort
      <4> QED
        BY <2>0, <3>3, <4>1, ReassemblerAssumption
    <3>5. PICK more \in Seq(Seq(Nat)), u \in Seq(Nat) :
            /\ \A x \in Starts : Read[t \o (f \o x)] = more \o Read[u \o x]
            /\ u = <<>> \/ (Held(u) /\ Len(u) = Len(t) + Len(f))
            /\ t = <<>> => more = <<f>> /\ u = <<>>
      BY <3>1, <3>3, <3>4, Absorbed
    <3>6. Spoken' = stream \o f
      BY <2>0, <2>1, Zenon DEF Spoken
    <3>7. ASSUME NEW x \in Starts
          PROVE  Read[Spoken' \o x] = ((lost \o said) \o more) \o Read[u \o x]
      <4>1. x \in Seq(Nat) /\ f \o x \in Seq(Nat)
        BY <3>2 DEF Starts
      <4>2. f \o x \in Starts
        <5>1. (f \o x)[1] = f[1]
          BY <3>2, <4>1, HeadContinued
        <5> QED
          BY <3>2, <4>1, <5>1, ReassemblerAssumption DEF Starts
      <4>3. (stream \o f) \o x = stream \o (f \o x)
        BY <2>0, <3>2, <4>1, BytesAssociative, ZenonT(30)
      <4>4. Read[Spoken' \o x] = (lost \o said) \o (more \o Read[u \o x])
        BY <3>3, <3>5, <3>6, <4>2, <4>3, Zenon
      <4> DEFINE front == lost \o said
                 rest == Read[u \o x]
      <4>5. front \in Seq(Seq(Nat))
        BY <2>0
      <4>6. rest \in Seq(Seq(Nat))
        <5>1. u \o x \in Seq(Nat)
          BY <4>1
        <5> QED
          BY <5>1, ReadType
      <4> HIDE DEF front, rest
      <4>7. (front \o more) \o rest = front \o (more \o rest)
        BY <4>5, <4>6, FramesAssociative
      <4> QED
        BY <4>4, <4>7, Zenon DEF front, rest
    <3>8. u = <<>> \/ (Held(u) /\ since' <= Len(u))
      <4>1. ASSUME t # <<>>, u # <<>>
            PROVE  since' <= Len(u)
        <5>1. since <= Len(t) /\ Len(u) = Len(t) + Len(f) /\ since' = since + Len(f)
          BY <2>1, <2>3, <3>3, <3>5, <4>1, Zenon
        <5> QED
          BY <2>0, <3>2, <5>1
      <4> QED
        BY <3>5, <4>1, Zenon
    <3>9. CASE since < MaxLen
      <4>1. said = <<>> /\ said' = <<>>
        BY <2>1, <2>3, <3>9, Zenon DEF FoundInv
      <4> DEFINE new == (lost \o said) \o more
      <4>2. new \in Seq(Seq(Nat)) /\ new \o said' = new
        BY <2>0, <4>1
      <4> HIDE DEF new
      <4>3. \A x \in Starts : Read[Spoken' \o x] = (new \o said') \o Read[u \o x]
        BY <3>7, <4>2, Zenon DEF new
      <4> QED
        BY <3>8, <4>1, <4>2, <4>3, Zenon DEF FoundInv
    <3>10. CASE ~(since < MaxLen)
      <4>1. t = <<>> /\ more = <<f>> /\ said' = Append(said, f)
        BY <2>1, <2>3, <3>4, <3>5, <3>10, Zenon
      <4>2. (lost \o said) \o more = lost \o said'
        <5>1. <<f>> \in Seq(Seq(Nat)) /\ said' = said \o <<f>>
          BY <2>0, <3>2, <4>1, AppendIsConcat
        <5> DEFINE one == <<f>>
        <5> HIDE DEF one
        <5>2. (lost \o said) \o one = lost \o (said \o one)
          BY <2>0, <5>1, FramesAssociative DEF one
        <5> QED
          BY <4>1, <5>1, <5>2, Zenon DEF one
      <4>3. \A x \in Starts : Read[Spoken' \o x] = (lost \o said') \o Read[u \o x]
        BY <3>7, <4>2, Zenon
      <4>4. ~(since' < MaxLen)
        <5>1. since' = since + Len(f)
          BY <2>1, <2>3, Zenon
        <5> QED
          BY <2>0, <3>2, <3>10, <5>1, ReassemblerAssumption
      <4> QED
        BY <3>8, <4>3, <4>4, Zenon DEF FoundInv
    <3> QED
      BY <3>9, <3>10
  <2> QED
    BY <2>2, <2>3
<1>4. CASE UNCHANGED vars
  BY <1>4, Zenon DEF vars, charger, FoundInv, Spoken
<1> QED
  BY <1>1, <1>2, <1>3, <1>4 DEF Next

\* What is left of a concatenation behind its first part.
LEMMA FramesBehind ==
  ASSUME NEW S, NEW lost \in Seq(S), NEW got \in Seq(S)
  PROVE  /\ Len(lost) \in 0..Len(lost \o got)
         /\ From(lost \o got, Len(lost) + 1) = got
<1>1. lost \o got \in Seq(S) /\ Len(lost \o got) = Len(lost) + Len(got)
  OBVIOUS
<1> DEFINE m == Len(lost) + 1
           n == Len(lost) + Len(got)
           rest == SubSeq(lost \o got, m, n)
<1>2. m \in Int /\ n \in Int /\ \A i \in m..n : (lost \o got)[i] \in S
  OBVIOUS
<1>3. /\ rest \in Seq(S) /\ Len(rest) = (IF m <= n THEN n - m + 1 ELSE 0)
      /\ \A i \in 1..n - m + 1 : rest[i] = (lost \o got)[m + i - 1]
  BY <1>2, SubSeqProperties
<1>4. Len(rest) = Len(got) /\ \A i \in 1..Len(got) : rest[i] = got[i]
  <2>1. \A i \in 1..Len(got) : (lost \o got)[m + i - 1] = got[i]
    OBVIOUS
  <2> QED
    BY <1>3, <2>1
<1>5. rest = got
  BY <1>3, <1>4, SeqEqual
<1> QED
  BY <1>1, <1>5 DEF From

\* Whatever was damaged or lost: once MAX_FRAME_LEN bytes of frames with one magic each
\* have followed, all further frames are returned, whatever is in them, in order, and
\* nothing else comes in between or after.  A frame with an inner magic that comes
\* before begins the count again (Disturbs): while no more than such frames come,
\* this says nothing of them, and they may be lost without end.
THEOREM ResyncCorrect == Spec => []Resynchronises
<1>1. Init => FoundInv
  <2> SUFFICES ASSUME Init
               PROVE  FoundInv
    OBVIOUS
  <2>1. Spoken = <<>> \o <<>> /\ since = MaxLen /\ said = <<>>
    BY Zenon DEF Init, Spoken
  <2>2. \A x \in Starts : Read[(<<>> \o <<>>) \o x] = (<<>> \o <<>>) \o Read[<<>> \o x]
    BY ReadFromStart DEF Starts
  <2>3. <<>> \in Seq(Seq(Nat)) /\ <<>> \in Seq(Nat)
    OBVIOUS
  <2> QED
    BY <2>1, <2>2, <2>3, Zenon DEF FoundInv
<1>2. TypeOK /\ ReadInv /\ FoundInv /\ ChunkingIrrelevant => Resynchronises
  <2> SUFFICES ASSUME TypeOK, ReadInv, FoundInv, ChunkingIrrelevant, ~feeding, air = <<>>
               PROVE  \E lost \in 0..Len(frames) : From(frames, lost + 1) = said
    BY DEF Resynchronises
  <2>1. stream \in Seq(Nat) /\ said \in Seq(Seq(Nat))
    BY ReassemblerAssumption DEF TypeOK
  <2>2. PICK lost \in Seq(Seq(Nat)), t \in Seq(Nat) :
          /\ \A x \in Starts : Read[stream \o x] = (lost \o said) \o Read[t \o x]
          /\ Settled(t)
    BY FoundBefore
  <2>3. <<>> \in Starts /\ stream \o <<>> = stream /\ t \o <<>> = t
    BY <2>1 DEF Starts
  <2>4. Read[t] = <<>>
    BY <2>2, SettledUnread
  <2>5. frames = (lost \o said) \o <<>>
    BY <2>2, <2>3, <2>4, Zenon DEF ChunkingIrrelevant
  <2>6. frames = lost \o said
    BY <2>1, <2>5
  <2> QED
    BY <2>1, <2>6, FramesBehind
<1>3. Spec => []ReadInv
  BY ReadInvInit, ReadInvStep, TypeCorrect, PTL DEF Spec
<1> QED
  BY <1>1, <1>2, <1>3, FoundInvStep, ChunkingCorrect, TypeCorrect, PTL DEF Spec

----------------------------------------------------------------------------
(* Where in the stream what is kept and returned comes from *)

Ends(s, t) == \E p \in Seq(Nat) : s = p \o t

HasSlice(s, t) == \E p, q \in Seq(Nat) : s = (p \o t) \o q

\* A sequence is what comes before one of its places, and the rest.
LEMMA Splits ==
  ASSUME NEW s \in Seq(Nat), NEW k \in 1..Len(s) + 1
  PROVE  SubSeq(s, 1, k - 1) \in Seq(Nat) /\ s = SubSeq(s, 1, k - 1) \o From(s, k)
<1> DEFINE head == SubSeq(s, 1, k - 1)
           rest == From(s, k)
<1>1. \A i \in 1..k - 1 : s[i] \in Nat
  OBVIOUS
<1>2. head \in Seq(Nat) /\ Len(head) = k - 1 /\ \A i \in 1..k - 1 : head[i] = s[i]
  <2>1. /\ head \in Seq(Nat) /\ Len(head) = (IF 1 <= k - 1 THEN (k - 1) - 1 + 1 ELSE 0)
        /\ \A i \in 1..(k - 1) - 1 + 1 : head[i] = s[1 + i - 1]
    BY <1>1, SubSeqProperties
  <2> HIDE DEF head
  <2> QED
    BY <2>1
<1>3. rest \in Seq(Nat) /\ Len(rest) = Len(s) + 1 - k
  BY FromType
<1>4. \A i \in 1..Len(s) + 1 - k : rest[i] = s[i + k - 1]
  BY FromAt
<1> HIDE DEF head, rest
<1>5. head \o rest \in Seq(Nat) /\ Len(head \o rest) = Len(s)
  BY <1>2, <1>3, SMTT(30)
<1>6. \A i \in 1..Len(s) : (head \o rest)[i] = s[i]
  <2> SUFFICES ASSUME NEW i \in 1..Len(s)
               PROVE  (head \o rest)[i] = s[i]
    OBVIOUS
  <2>1. CASE i <= k - 1
    BY <1>2, <1>3, <2>1
  <2>2. CASE k <= i
    <3>1. (head \o rest)[i] = rest[i - Len(head)]
      BY <1>2, <1>3, <2>2, SMTT(30)
    <3>2. i - (k - 1) \in 1..Len(s) + 1 - k /\ (i - (k - 1)) + k - 1 = i
      BY <2>2
    <3> QED
      BY <1>2, <1>4, <3>1, <3>2
  <2>3. i <= k - 1 \/ k <= i
    OBVIOUS
  <2> QED
    BY <2>1, <2>2, <2>3, Zenon
<1>7. s = head \o rest
  BY <1>5, <1>6, SeqEqual
<1> QED
  BY <1>2, <1>7 DEF head, rest

\* The end of an end.
LEMMA EndsFrom ==
  ASSUME NEW s \in Seq(Nat), NEW b \in Seq(Nat), Ends(s, b), NEW k \in 1..Len(b) + 1
  PROVE  Ends(s, From(b, k))
<1>1. PICK p \in Seq(Nat) : s = p \o b
  BY DEF Ends
<1> DEFINE head == SubSeq(b, 1, k - 1)
           rest == From(b, k)
<1>2. head \in Seq(Nat) /\ rest \in Seq(Nat) /\ b = head \o rest
  BY Splits, FromType
<1> HIDE DEF head, rest
<1>3. s = (p \o head) \o rest /\ p \o head \in Seq(Nat)
  <2>1. (p \o head) \o rest = p \o (head \o rest)
    BY <1>2, BytesAssociative
  <2>2. p \o head \in Seq(Nat)
    BY <1>2
  <2> QED
    BY <1>1, <1>2, <2>1, <2>2, Zenon
<1> QED
  BY <1>3, Zenon DEF Ends, rest

\* What begins an end is a slice.
LEMMA HasSliceHead ==
  ASSUME NEW s \in Seq(Nat), NEW b \in Seq(Nat), Ends(s, b), NEW k \in 1..Len(b) + 1
  PROVE  HasSlice(s, SubSeq(b, 1, k - 1))
<1>1. PICK p \in Seq(Nat) : s = p \o b
  BY DEF Ends
<1> DEFINE head == SubSeq(b, 1, k - 1)
           rest == From(b, k)
<1>2. head \in Seq(Nat) /\ rest \in Seq(Nat) /\ b = head \o rest
  BY Splits, FromType
<1> HIDE DEF head, rest
<1>3. (p \o head) \o rest = p \o (head \o rest)
  BY <1>2, BytesAssociative
<1> QED
  BY <1>1, <1>2, <1>3, Zenon DEF HasSlice, head

\* Slices and ends of a stream that goes on.
LEMMA StreamGoesOn ==
  ASSUME NEW s \in Seq(Nat), NEW b \in Seq(Nat), NEW x \in Seq(Nat)
  PROVE  /\ Ends(s, b) => Ends(s \o x, b \o x)
         /\ HasSlice(s, b) => HasSlice(s \o x, b)
<1>1. ASSUME Ends(s, b)
      PROVE  Ends(s \o x, b \o x)
  <2>1. PICK p \in Seq(Nat) : s = p \o b
    BY <1>1 DEF Ends
  <2>2. (p \o b) \o x = p \o (b \o x)
    BY BytesAssociative
  <2> QED
    BY <2>1, <2>2, Zenon DEF Ends
<1>2. ASSUME HasSlice(s, b)
      PROVE  HasSlice(s \o x, b)
  <2>1. PICK p \in Seq(Nat), q \in Seq(Nat) : s = (p \o b) \o q
    BY <1>2 DEF HasSlice
  <2>2. p \o b \in Seq(Nat) /\ q \o x \in Seq(Nat)
    OBVIOUS
  <2> DEFINE front == p \o b
  <2>3. front \in Seq(Nat)
    BY <2>2
  <2> HIDE DEF front
  <2>4. (front \o q) \o x = front \o (q \o x)
    BY <2>3, BytesAssociative
  <2> QED
    BY <2>1, <2>2, <2>4, Zenon DEF HasSlice, front
<1> QED
  BY <1>1, <1>2

\* What is kept is the end of the stream, and what was returned are slices of it that
\* begin with the magic and have the length they declare, which is a plausible one.
Returned(s, frame) ==
  /\ HasSlice(s, frame)
  /\ Headed(frame) /\ 4 <= Len(frame) /\ Declared(frame, 1) = Len(frame)
  /\ Plausible(Len(frame))

FramesAreSlices == \A i \in DOMAIN frames : Returned(stream, frames[i])

SlicesInv == Ends(stream, buffer) /\ FramesAreSlices

\* The buffer from its first magic on is an end of the stream, too.
LEMMA AlignedEnds ==
  ASSUME buffer \in Seq(Nat), stream \in Seq(Nat), Ends(stream, buffer), Magics(buffer) # {}
  PROVE  Aligned \in Seq(Nat) /\ Headed(Aligned) /\ Ends(stream, Aligned)
<1>1. Min(Magics(buffer)) \in 1..Len(buffer) - 1
  BY FirstMagic
<1>2. Min(Magics(buffer)) \in 1..Len(buffer) + 1
  BY <1>1
<1>3. Headed(From(buffer, Min(Magics(buffer))))
  <2>1. <<>> \in Seq(Nat)
    OBVIOUS
  <2> QED
    BY <2>1, AlignReads
<1> QED
  BY <1>2, <1>3, AlignedType, EndsFrom DEF Aligned

LEMMA SlicesStep == TypeOK /\ SlicesInv /\ [Next]_vars => SlicesInv'
<1> SUFFICES ASSUME TypeOK, SlicesInv, [Next]_vars
             PROVE  SlicesInv'
  OBVIOUS
<1>0. /\ buffer \in Seq(Nat) /\ stream \in Seq(Nat) /\ air \in Seq(Nat)
      /\ frames \in Seq(Seq(Nat)) /\ Ends(stream, buffer) /\ FramesAreSlices
  BY Zenon DEF TypeOK, SlicesInv
<1>1. ASSUME UNCHANGED <<stream, frames>>, NEW k \in 1..Len(buffer) + 1,
             buffer' = From(buffer, k)
      PROVE  SlicesInv'
  <2>1. Ends(stream, buffer')
    BY <1>0, <1>1, EndsFrom
  <2> QED
    BY <1>0, <1>1, <2>1, Zenon DEF SlicesInv, FramesAreSlices, Returned
<1>2. CASE Notify
  <2>1. PICK n \in 1..Len(air) :
          buffer' = buffer \o SubSeq(air, 1, n) /\ stream' = stream \o SubSeq(air, 1, n)
    BY <1>2, Zenon DEF Notify
  <2>2. SubSeq(air, 1, n) \in Seq(Nat)
    BY <1>0
  <2>3. Ends(stream', buffer')
    BY <1>0, <2>1, <2>2, StreamGoesOn
  <2>4. frames' = frames
    BY <1>2, Zenon DEF Notify
  <2>5. ASSUME NEW i \in DOMAIN frames
        PROVE  Returned(stream', frames[i])
    <3>1. frames[i] \in Seq(Nat) /\ Returned(stream, frames[i])
      BY <1>0 DEF FramesAreSlices
    <3>2. HasSlice(stream', frames[i])
      BY <1>0, <2>1, <2>2, <3>1, StreamGoesOn DEF Returned
    <3> QED
      BY <2>4, <3>1, <3>2, Zenon DEF Returned
  <2> QED
    BY <2>3, <2>4, <2>5, Zenon DEF SlicesInv, FramesAreSlices
<1>3. CASE NoMagic
  <2>1. UNCHANGED <<stream, frames>>
    BY <1>3, Zenon DEF NoMagic
  <2>2. CASE buffer # <<>> /\ buffer[Len(buffer)] = Magic[1]
    <3>1. buffer' = <<Magic[1]>> /\ Len(buffer) \in 1..Len(buffer) + 1
      BY <1>0, <1>3, <2>2 DEF NoMagic
    <3>2. From(buffer, Len(buffer)) = <<Magic[1]>>
      <4>1. /\ From(buffer, Len(buffer)) \in Seq(Nat)
            /\ Len(From(buffer, Len(buffer))) = Len(buffer) + 1 - Len(buffer)
        BY <1>0, <3>1, FromType
      <4>2. From(buffer, Len(buffer))[1] = Magic[1]
        <5>1. 1 \in 1..Len(buffer) + 1 - Len(buffer) /\ 1 + Len(buffer) - 1 = Len(buffer)
          BY <1>0
        <5>2. From(buffer, Len(buffer))[1] = buffer[1 + Len(buffer) - 1]
          BY <1>0, <3>1, <5>1, FromAt
        <5> QED
          BY <2>2, <5>1, <5>2
      <4>3. Len(From(buffer, Len(buffer))) = 1
        BY <1>0, <4>1
      <4> QED
        BY <4>1, <4>2, <4>3, MagicType
    <3> QED
      BY <1>1, <2>1, <3>1, <3>2
  <2>3. CASE ~(buffer # <<>> /\ buffer[Len(buffer)] = Magic[1])
    <3>1. buffer' = <<>> /\ Len(buffer) + 1 \in 1..Len(buffer) + 1
      BY <1>0, <1>3, <2>3 DEF NoMagic
    <3>2. From(buffer, Len(buffer) + 1) = <<>>
      BY <1>0, FromEnds
    <3> QED
      BY <1>1, <2>1, <3>1, <3>2
  <2> QED
    BY <2>2, <2>3, Zenon
<1>4. ASSUME Magics(buffer) # {}, UNCHANGED <<stream, frames>>,
             NEW k \in 1..Len(Aligned) + 1, buffer' = From(Aligned, k)
      PROVE  SlicesInv'
  <2>1. Aligned \in Seq(Nat) /\ Ends(stream, Aligned)
    BY <1>0, <1>4, AlignedEnds
  <2>2. Ends(stream, buffer')
    BY <1>0, <1>4, <2>1, EndsFrom
  <2> QED
    BY <1>0, <1>4, <2>2, Zenon DEF SlicesInv, FramesAreSlices, Returned
<1>5. CASE AwaitHeader \/ AwaitFrame
  <2>1. Magics(buffer) # {} /\ UNCHANGED <<stream, frames>> /\ buffer' = Aligned
    BY <1>5, Zenon DEF AwaitHeader, AwaitFrame, AtHeader, AtMagic
  <2>2. Aligned \in Seq(Nat) /\ From(Aligned, 1) = Aligned /\ 1 \in 1..Len(Aligned) + 1
    BY <1>0, <2>1, AlignedType, FromEnds
  <2> QED
    BY <1>4, <2>1, <2>2
<1>6. CASE SkipMagic
  <2>1. /\ Magics(buffer) # {} /\ UNCHANGED <<stream, frames>> /\ buffer' = From(Aligned, 3)
        /\ Len(Aligned) >= 4
    BY <1>6, Zenon DEF SkipMagic, AtHeader, AtMagic
  <2>2. 3 \in 1..Len(Aligned) + 1
    BY <1>0, <2>1, AlignedType
  <2> QED
    BY <1>4, <2>1, <2>2
<1>7. CASE TakeFrame
  <2> DEFINE d == Declared(Aligned, 1)
             f == SubSeq(Aligned, 1, d)
  <2>1. /\ Magics(buffer) # {} /\ Len(Aligned) >= 4 /\ Plausible(d) /\ Len(Aligned) >= d
        /\ frames' = Append(frames, f) /\ buffer' = From(Aligned, d + 1) /\ stream' = stream
    BY <1>7, Zenon DEF TakeFrame, AtHeader, AtMagic
  <2>2. Aligned \in Seq(Nat) /\ Headed(Aligned) /\ Ends(stream, Aligned)
    BY <1>0, <2>1, AlignedEnds
  <2>3. d \in Nat /\ 4 <= d /\ d + 1 \in 1..Len(Aligned) + 1 /\ (d + 1) - 1 = d
    <3>1. d \in Nat
      BY <2>1, <2>2, DeclaredType
    <3> HIDE DEF d
    <3> QED
      BY <2>1, <2>2, <3>1, ReassemblerAssumption DEF Plausible
  <2>4. Ends(stream, buffer)'
    BY <1>0, <2>1, <2>2, <2>3, EndsFrom
  <2>5. HasSlice(stream, f)
    <3>1. HasSlice(stream, SubSeq(Aligned, 1, (d + 1) - 1))
      BY <1>0, <2>2, <2>3, HasSliceHead
    <3> QED
      BY <2>3, <3>1, Zenon
  <2>6. /\ f \in Seq(Nat) /\ Len(f) = d
        /\ f[1] = Aligned[1] /\ f[2] = Aligned[2] /\ f[3] = Aligned[3] /\ f[4] = Aligned[4]
    <3> HIDE DEF d
    <3>1. \A i \in 1..d : Aligned[i] \in Nat
      BY <2>1, <2>2, <2>3
    <3>2. /\ f \in Seq(Nat) /\ Len(f) = (IF 1 <= d THEN d - 1 + 1 ELSE 0)
          /\ \A i \in 1..d - 1 + 1 : f[i] = Aligned[1 + i - 1]
      BY <2>3, <3>1, SubSeqProperties
    <3> HIDE DEF f
    <3> QED
      BY <2>3, <3>2
  <2>7. Declared(f, 1) = d /\ Headed(f)
    <3>1. Declared(f, 1) = d
      <4>1. d = 256 * Aligned[1 + 2] + Aligned[1 + 3] /\ 1 + 2 = 3 /\ 1 + 3 = 4
        BY DEF Declared
      <4> HIDE DEF d, f
      <4> QED
        BY <2>6, <4>1, Zenon DEF Declared
    <3>2. 2 <= Len(f)
      BY <2>3, <2>6
    <3> QED
      BY <2>2, <2>6, <3>1, <3>2, Zenon DEF Headed
  <2> HIDE DEF d, f
  <2>8. Returned(stream', f)
    <3>1. 4 <= Len(f)
      BY <2>3, <2>6
    <3> QED
      BY <2>1, <2>5, <2>6, <2>7, <3>1, Zenon DEF Returned
  <2>9. ASSUME NEW i \in DOMAIN frames'
        PROVE  Returned(stream', frames'[i])
    <3>1. CASE i \in DOMAIN frames
      <4>1. frames'[i] = frames[i]
        BY <1>0, <2>1, <3>1
      <4>2. Returned(stream, frames[i])
        BY <1>0, <3>1 DEF FramesAreSlices
      <4> QED
        BY <2>1, <4>1, <4>2, Zenon
    <3>2. CASE i \notin DOMAIN frames
      <4>1. /\ DOMAIN Append(frames, f) = 1..Len(frames) + 1 /\ DOMAIN frames = 1..Len(frames)
            /\ Append(frames, f)[Len(frames) + 1] = f /\ Len(frames) \in Nat
        BY <1>0, <2>6
      <4>2. i \in 1..Len(frames) + 1 /\ i \notin 1..Len(frames)
        BY <2>1, <3>2, <4>1, Zenon
      <4>3. i = Len(frames) + 1
        BY <4>1, <4>2
      <4>4. frames'[i] = f
        BY <2>1, <4>1, <4>3, Zenon
      <4> QED
        BY <2>8, <4>4, Zenon
    <3> QED
      BY <3>1, <3>2
  <2> QED
    BY <2>4, <2>9, Zenon DEF SlicesInv, FramesAreSlices
<1>8. CASE Reset
  <2>1. buffer' = <<>> /\ stream' = <<>> /\ frames' = <<>>
    BY <1>8, Zenon DEF Reset
  <2>2. Ends(stream, buffer)'
    <3>1. <<>> \in Seq(Nat) /\ <<>> = <<>> \o <<>>
      OBVIOUS
    <3> QED
      BY <2>1, <3>1, Zenon DEF Ends
  <2> QED
    BY <2>1, <2>2 DEF SlicesInv, FramesAreSlices
<1>9. CASE Say \/ UNCHANGED vars
  <2>1. UNCHANGED <<buffer, stream, frames>>
    BY <1>9, Zenon DEF Say, vars
  <2> QED
    BY <1>0, <2>1, Zenon DEF SlicesInv, FramesAreSlices, Returned
<1> QED
  BY <1>2, <1>3, <1>5, <1>6, <1>7, <1>8, <1>9 DEF Next, Turn

\* Whatever is in the stream, every frame that is returned stands in it as one piece
\* with the magic at its head and the length it declares: nothing is put together
\* from bytes that did not come one after another.
THEOREM SlicesCorrect == Spec => []FramesAreSlices
<1>1. Init => SlicesInv
  <2> SUFFICES ASSUME Init
               PROVE  SlicesInv
    OBVIOUS
  <2>1. <<>> \in Seq(Nat) /\ <<>> = <<>> \o <<>>
    OBVIOUS
  <2>2. Ends(stream, buffer)
    BY <2>1, Zenon DEF Init, Ends
  <2> QED
    BY <2>2 DEF Init, SlicesInv, FramesAreSlices
<1>2. SlicesInv => FramesAreSlices
  BY Zenon DEF SlicesInv
<1> QED
  BY <1>1, <1>2, SlicesStep, TypeCorrect, PTL DEF Spec

----------------------------------------------------------------------------

\* Every turn of the loop that is not its last leaves less in the buffer: `feed' takes
\* no more of them than there are bytes.
THEOREM TurnsShorten == Spec => [][feeding /\ feeding' => Len(buffer') < Len(buffer)]_vars
<1>1. TypeOK /\ [Next]_vars => [feeding /\ feeding' => Len(buffer') < Len(buffer)]_vars
  <2> SUFFICES ASSUME TypeOK, Next, feeding, feeding'
               PROVE  Len(buffer') < Len(buffer)
    BY Zenon DEF vars
  <2>0. buffer \in Seq(Nat)
    BY Zenon DEF TypeOK
  <2>1. SkipMagic \/ TakeFrame
    BY Zenon DEF Next, Turn, Notify, NoMagic, AwaitHeader, AwaitFrame, Reset, Say
  <2>2. Magics(buffer) # {} /\ Len(Aligned) >= 4
    BY <2>1, Zenon DEF SkipMagic, TakeFrame, AtHeader, AtMagic
  <2>3. Aligned \in Seq(Nat) /\ Len(Aligned) <= Len(buffer)
    <3>1. Min(Magics(buffer)) \in 1..Len(buffer) - 1
      BY <2>0, <2>2, FirstMagic
    <3>2. /\ Min(Magics(buffer)) \in 1..Len(buffer) + 1
          /\ Len(buffer) + 1 - Min(Magics(buffer)) <= Len(buffer)
      BY <2>0, <3>1
    <3> QED
      BY <2>0, <3>2, FromType DEF Aligned
  <2>4. \E k \in 2..Len(Aligned) + 1 : buffer' = From(Aligned, k)
    <3>1. CASE SkipMagic
      <4>1. buffer' = From(Aligned, 3) /\ 3 \in 2..Len(Aligned) + 1
        BY <2>2, <2>3, <3>1 DEF SkipMagic
      <4> QED
        BY <4>1, Zenon
    <3>2. CASE TakeFrame
      <4> DEFINE d == Declared(Aligned, 1)
      <4>1. /\ buffer' = From(Aligned, d + 1)
            /\ MinLen <= d /\ Len(Aligned) >= d
        BY <3>2, Zenon DEF TakeFrame, Plausible
      <4>2. d \in Nat
        BY <2>2, <2>3, DeclaredType
      <4> HIDE DEF d
      <4>3. d + 1 \in 2..Len(Aligned) + 1
        BY <2>3, <4>1, <4>2, ReassemblerAssumption
      <4> QED
        BY <4>1, <4>3, Zenon
    <3> QED
      BY <2>1, <3>1, <3>2
  <2>5. PICK k \in 2..Len(Aligned) + 1 : buffer' = From(Aligned, k)
    BY <2>4
  <2>6. k \in 1..Len(Aligned) + 1 /\ Len(Aligned) + 1 - k < Len(Aligned)
    BY <2>3
  <2>7. Len(buffer') = Len(Aligned) + 1 - k
    BY <2>3, <2>5, <2>6, FromType
  <2> QED
    BY <2>0, <2>3, <2>6, <2>7
<1> QED
  BY <1>1, TypeCorrect, PTL DEF Spec
=============================================================================

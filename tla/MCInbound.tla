------------------------------ MODULE MCInbound ------------------------------
(***************************************************************************)
(* Inbound with a serial and a password of one byte: frames of 13 to 17    *)
(* bytes instead of 25 to 512.                                             *)
(***************************************************************************)
EXTENDS Inbound

\* A frame without payload, one with half a magic in its payload, and one whose
\* payload is a plausible header.
Said == {[serial |-> <<171>>, command |-> 3, payload |-> <<>>],
         [serial |-> <<171>>, command |-> 4, payload |-> <<6, 2>>],
         [serial |-> <<171>>, command |-> 4, payload |-> <<6, 1, 0, 13>>]}

Filler == <<255>>

Built(m) == BuildFrame(m.serial, Filler, m.command, m.payload)

GoodFrames == {Built(m) : m \in Said}

Beat == Built([serial |-> <<171>>, command |-> 3, payload |-> <<>>])
Status == Built([serial |-> <<171>>, command |-> 4, payload |-> <<6, 2>>])

\* A stray half of a magic, a magic, what is left of a frame whose beginning or
\* whose end was lost, a frame with a damaged byte, and one with two bytes exchanged,
\* which the sum does not tell.
Noise == {<<6>>, <<6, 1>>, SubSeq(Beat, 1, 8), SubSeq(Status, 9, 15),
          [Beat EXCEPT ![9] = 200], [Status EXCEPT ![9] = 6, ![10] = 4]}

\* Right in four ways, of another charger, too long, and no serial.
Typed == {<<"a", "b">>, <<"A", "B">>, <<"A", "-", "b">>, <<" ", "a", " ", "B", "\n">>,
          <<"a", "7">>, <<"a", "b", "7">>, <<"a", "x">>, <<>>}
=============================================================================

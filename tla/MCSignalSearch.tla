---------------------------- MODULE MCSignalSearch ----------------------------
EXTENDS SignalSearch

\* Tones 9 and 10 are the digits 0 and R.
MCSilence == [tone |-> 0, level |-> 0]
A == [tone |-> 9, level |-> 3]
B == [tone |-> 10, level |-> 3]
Quiet == [tone |-> 10, level |-> 1]

For(sound, n) == [i \in 1 .. n |-> sound]

\* Three tones of different lengths, the second quiet or as loud as the
\* others, perhaps with a pause in between.
Calls ==
  {For(p[1], k) \o For(MCSilence, pause) \o For(p[2], l) \o For(p[1], 2) :
     <<p, k, l, pause>> \in
       {<<A, B>>, <<B, A>>, <<A, Quiet>>} \X {2, 4} \X (1 .. 3) \X (0 .. 1)}
Others == {For(B, 2) \o For(A, 2) \o For(B, 3), For(B, 3) \o For(A, 3)}

\* A call, a pause and the same call again, or something else.
MCSignals ==
  {LET s == x \o For(MCSilence, gap) \o y
   IN [t \in 0 .. Length - 1 |-> IF t < Len(s) THEN s[t + 1] ELSE MCSilence] :
     <<x, y, gap>> \in
       UNION {{x} \X (Others \cup {x}) \X {0, 2} : x \in Calls}}
=============================================================================

-------------------------------- MODULE RWLock --------------------------------
(***************************************************************************)
(* What a latch promises: any number of readers, or one writer, which may  *)
(* enter again, and a reader that is alone may become the writer.          *)
(***************************************************************************)
EXTENDS Naturals

CONSTANT Thread

VARIABLES
  reading,  \* how often each thread has entered to read
  writing   \* how often each thread has entered to write

Init == reading = [t \in Thread |-> 0] /\ writing = [t \in Thread |-> 0]

NobodyWrites      == \A t \in Thread : writing[t] = 0
NobodyElseIsIn(t) == \A u \in Thread \ {t} : reading[u] = 0 /\ writing[u] = 0

Read(t) ==
  /\ NobodyWrites
  /\ reading' = [reading EXCEPT ![t] = @ + 1]
  /\ UNCHANGED writing

Write(t) ==
  /\ NobodyElseIsIn(t) /\ reading[t] = 0
  /\ writing' = [writing EXCEPT ![t] = @ + 1]
  /\ UNCHANGED reading

BecomeWriter(t) ==
  /\ NobodyElseIsIn(t) /\ reading[t] = 1
  /\ reading' = [reading EXCEPT ![t] = 0]
  /\ writing' = [writing EXCEPT ![t] = 1]

Leave(t) ==
  \/ reading[t] > 0 /\ reading' = [reading EXCEPT ![t] = @ - 1] /\ UNCHANGED writing
  \/ writing[t] > 0 /\ writing' = [writing EXCEPT ![t] = @ - 1] /\ UNCHANGED reading

Next == \E t \in Thread : Read(t) \/ Write(t) \/ BecomeWriter(t) \/ Leave(t)

Spec == Init /\ [][Next]_<<reading, writing>>
=============================================================================

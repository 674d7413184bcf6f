--------------------------- MODULE RtspStream_proofs ---------------------------
(***************************************************************************)
(* RtspStream for any file, any number of rounds and any number of places  *)
(* for a source: the sink plays open sources only, and no file stays open. *)
(* Both need to know which source is open at each place of the round.      *)
(***************************************************************************)
EXTENDS RtspStream, FiniteSetTheorems, TLAPS

\* The sink is told to let go of its source before the source is closed, and
\* to play one only when it has none.
Round ==
    /\ pc \in {"sink", "server", "play"} => open = {}
    /\ pc \in {"start", "loop", "stop", "close"} => open = {videoSource}
    /\ pc = "exited" => open \subseteq {videoSource}
    /\ IF pc = "loop" THEN fSource = videoSource /\ waits \in {"frame", "task"}
                      ELSE fSource = None /\ waits = "idle"

IInv == TypeOK /\ Round

LEMMA InitIInv == Init => IInv
  BY RtspAssumption DEF Init, IInv, TypeOK, Round

LEMMA NextIInv == IInv /\ [Next]_vars => IInv'
  <1> SUFFICES ASSUME IInv, [Next]_vars PROVE IInv'
    OBVIOUS
  <1> USE RtspAssumption DEF IInv, TypeOK, Round, sink
  <1>1. CASE CreateSink
    BY <1>1 DEF CreateSink
  <1>2. CASE CreateServer
    BY <1>2 DEF CreateServer
  <1>3. CASE CreateServerFails
    BY <1>3 DEF CreateServerFails
  <1>4. CASE OpenSource
    <2> PICK s \in Sources \ open, n \in 0 .. MaxFrames :
               videoSource' = s /\ open' = open \cup {s} /\ left' = n
      BY <1>4 DEF OpenSource
    <2> QED
      BY <1>4 DEF OpenSource
  <1>5. CASE OpenSourceFails
    BY <1>5 DEF OpenSourceFails
  <1>6. CASE StartPlaying
    BY <1>6 DEF StartPlaying
  <1>7. CASE FrameArrives
    BY <1>7 DEF FrameArrives
  <1>8. CASE SendNext
    BY <1>8 DEF SendNext
  <1>9. CASE SourceEnds
    BY <1>9 DEF SourceEnds
  <1>10. CASE StopPlaying
    BY <1>10 DEF StopPlaying
  <1>11. CASE CloseSource
    BY <1>11 DEF CloseSource
  <1>12. CASE UNCHANGED vars
    BY <1>12 DEF vars
  <1> QED
    BY <1>1, <1>2, <1>3, <1>4, <1>5, <1>6, <1>7, <1>8, <1>9, <1>10, <1>11, <1>12
       DEF Next, Stream

LEMMA Invariant == Spec => []IInv
  BY InitIInv, NextIInv, PTL DEF Spec

-----------------------------------------------------------------------------
\* The type invariant: wherever there has to be a source there is one.
THEOREM TypeCorrect == Spec => []TypeOK
  <1>1. IInv => TypeOK
    BY DEF IInv
  <1> QED
    BY Invariant, <1>1, PTL

\* The sink never asks a closed source for a frame, and in the event loop it
\* always waits for something.
THEOREM SinkPlaysOpenSource == Spec => []PlaysOpenSource
  <1>1. IInv => PlaysOpenSource
    BY RtspAssumption DEF IInv, TypeOK, Round, PlaysOpenSource
  <1> QED
    BY Invariant, <1>1, PTL

\* However many rounds there are, at most the file of this one is open.
THEOREM FilesAreClosed == Spec => []NoFileLeftOpen
  <1>1. IInv => NoFileLeftOpen
    BY DEF IInv, TypeOK, Round, NoFileLeftOpen
  <1> QED
    BY Invariant, <1>1, PTL

\* For that reason one file is enough: a round is never refused its file for
\* the files of earlier rounds.
THEOREM OneFileIsEnough == Spec => [](pc = "play" => Cardinality(open) < MaxFiles)
  <1>1. IInv => (pc = "play" => Cardinality(open) < MaxFiles)
    BY FS_EmptySet, RtspAssumption DEF IInv, Round
  <1> QED
    BY Invariant, <1>1, PTL
=============================================================================

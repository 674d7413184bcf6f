-------------------------- MODULE V4l2Capture_proofs --------------------------
(***************************************************************************)
(* The safety properties of V4l2Capture, for every number of buffers a     *)
(* driver may grant.                                                       *)
(***************************************************************************)
EXTENDS V4l2Capture, TLAPS

Early == {"open", "init", "reqbufs"}

\* How far the configuration has come, in every phase: what was granted, what
\* is mapped, what is queued.
Progress ==
    /\ phase \in Early => granted = 0 /\ mapped = 0
    /\ phase \notin Early => granted >= 2
    /\ phase = "map" => mapped < granted
    /\ phase \in {"queue", "streamon", "streaming"} => mapped = granted
    /\ phase \in Early \cup {"map"} => next = 0
    /\ phase = "queue" => next < granted
    /\ phase # "streaming" => frame = NoFrame
    /\ frame # NoFrame => frame < granted

\* Who owns a buffer that was granted.
Ownership ==
    /\ \A b \in Buffers : owner[b] = "none" <=> b >= granted
    /\ phase = "map" => \A b \in Buffers : ~DriverOwns(b)
    /\ phase = "queue" => \A b \in Buffers : DriverOwns(b) <=> b < next
    /\ phase \in {"streamon", "streaming"} =>
         \A b \in Buffers : owner[b] = "app" <=> b = frame

IInv == TypeOK /\ Progress /\ Ownership /\ QbufNeverRejected

-----------------------------------------------------------------------------
LEMMA BufferBound == Buffers \subseteq Nat /\ NoFrame \notin Buffers
  BY MaxGrantAssumption, NoFrameAssumption DEF Buffers

\* The inductive invariant holds initially.
LEMMA InitIInv == Init => IInv
  <1> SUFFICES ASSUME Init PROVE IInv
    OBVIOUS
  <1>1. TypeOK
    BY MaxGrantAssumption DEF Init, TypeOK, Phases, Owners, Buffers
  <1>2. Progress
    BY DEF Init, Progress, Early
  <1>3. Ownership
    BY BufferBound DEF Init, Ownership, DriverOwns
  <1>4. QbufNeverRejected
    BY DEF Init, QbufNeverRejected
  <1> QED
    BY <1>1, <1>2, <1>3, <1>4 DEF IInv

\* A process that dies for another reason than a rejected VIDIOC_QBUF leaves
\* the invariant as it is.
LEMMA DieIInv ==
  ASSUME IInv, NEW why \in Deaths \ {"VIDIOC_QBUF EINVAL"}, Die(why)
  PROVE  IInv'
  BY DEF IInv, TypeOK, Progress, Ownership, QbufNeverRejected, Die, DriverOwns

\* VIDIOC_QBUF of a buffer the application owns can only fail for the device.
LEMMA QbufFailsIInv ==
  ASSUME IInv, NEW b \in Buffers, owner[b] = "app", QbufFails(b)
  PROVE  IInv'
  BY DieIInv DEF QbufFails, Deaths

\* The inductive invariant is preserved by every step.
LEMMA NextIInv == IInv /\ [Next]_vars => IInv'
  <1> SUFFICES ASSUME IInv, [Next]_vars PROVE IInv'
    OBVIOUS
  <1> USE BufferBound
  <1>1. CASE v4l2_open_device
    <2>1. CASE \E why \in OpenErrors : Die(why)
      BY <2>1, DieIInv DEF Deaths, OpenErrors
    <2>2. CASE /\ At("open") /\ phase' = "init"
               /\ UNCHANGED <<proc, granted, mapped, next, owner, frame>>
      BY <2>2 DEF At, IInv, TypeOK, Phases, Progress, Early, Ownership,
                  DriverOwns, QbufNeverRejected
    <2> QED
      BY <1>1, <2>1, <2>2 DEF v4l2_open_device
  <1>2. CASE v4l2_init_device
    <2>1. CASE \E why \in InitErrors : Die(why)
      BY <2>1, DieIInv DEF Deaths, InitErrors
    <2>2. CASE /\ At("init") /\ phase' = "reqbufs"
               /\ UNCHANGED <<proc, granted, mapped, next, owner, frame>>
      BY <2>2 DEF At, IInv, TypeOK, Phases, Progress, Early, Ownership,
                  DriverOwns, QbufNeverRejected
    <2> QED
      BY <1>2, <2>1, <2>2 DEF v4l2_init_device
  <1>3. CASE RequestBuffers
    <2>1. CASE \E why \in {"VIDIOC_REQBUFS", "insufficient buffers",
                           "calloc SIGSEGV"} : Die(why)
      BY <2>1, DieIInv DEF Deaths
    <2>2. CASE /\ At("reqbufs")
               /\ \E n \in 0 .. MaxGrant :
                    /\ EnoughBuffers(n)
                    /\ granted' = n
                    /\ owner' = [b \in Buffers |-> IF b < n THEN "app" ELSE "none"]
                    /\ phase' = "map"
                    /\ UNCHANGED <<proc, mapped, next, frame>>
      <3> PICK n \in 0 .. MaxGrant :
                 /\ n >= 2
                 /\ granted' = n
                 /\ owner' = [b \in Buffers |-> IF b < n THEN "app" ELSE "none"]
        BY <2>2 DEF EnoughBuffers
      <3> phase = "reqbufs" /\ phase' = "map"
          /\ UNCHANGED <<proc, mapped, next, frame>>
        BY <2>2 DEF At
      <3>1. TypeOK'
        BY MaxGrantAssumption DEF IInv, TypeOK, Phases, Owners
      <3>2. Progress'
        BY DEF IInv, TypeOK, Progress, Early
      <3>3. Ownership'
        BY DEF Ownership, DriverOwns
      <3> QED
        BY <3>1, <3>2, <3>3 DEF IInv, QbufNeverRejected
    <2> QED
      BY <1>3, <2>1, <2>2 DEF RequestBuffers
  <1>4. CASE MapBuffer
    <2>1. CASE \E why \in {"VIDIOC_QUERYBUF", "mmap"} : Die(why)
      BY <2>1, DieIInv DEF Deaths
    <2>2. CASE /\ At("map") /\ mapped' = mapped + 1
               /\ phase' = IF MoreToMap(mapped + 1) THEN "map" ELSE "queue"
               /\ UNCHANGED <<proc, granted, next, owner, frame>>
      <3>1. mapped + 1 <= granted /\ granted <= MaxGrant /\ granted >= 2
        BY <2>2, MaxGrantAssumption DEF At, IInv, TypeOK, Progress, Early
      <3>2. TypeOK'
        BY <2>2, <3>1, MaxGrantAssumption DEF IInv, TypeOK, Phases
      <3>3. Progress'
        BY <2>2, <3>1, MaxGrantAssumption
        DEF At, IInv, TypeOK, Progress, Early, MoreToMap
      <3>4. Ownership'
        BY <2>2 DEF At, IInv, TypeOK, Progress, Early, Ownership, DriverOwns
      <3> QED
        BY <2>2, <3>2, <3>3, <3>4 DEF IInv, QbufNeverRejected
    <2> QED
      BY <1>4, <2>1, <2>2 DEF MapBuffer
  <1>5. CASE QueueBuffer
    <2>1. /\ next \in Buffers /\ next < granted /\ owner[next] = "app"
          /\ mapped = granted /\ granted <= MaxGrant /\ frame = NoFrame
          /\ phase = "queue"
      BY <1>5, MaxGrantAssumption
      DEF QueueBuffer, At, IInv, TypeOK, Progress, Ownership, DriverOwns,
          Buffers, Owners
    <2>2. CASE QbufFails(next)
      BY <2>1, <2>2, QbufFailsIInv
    <2>3. CASE /\ Qbuf(next)
               /\ next' = next + 1
               /\ phase' = IF next + 1 < mapped THEN "queue" ELSE "streamon"
               /\ UNCHANGED <<proc, granted, mapped, frame>>
      <3>1. owner' = [owner EXCEPT ![next] = "queued"]
        BY <2>3 DEF Qbuf
      <3>2. TypeOK'
        BY <2>1, <2>3, <3>1, MaxGrantAssumption DEF IInv, TypeOK, Phases, Owners, Buffers
      <3>3. Progress'
        BY <2>1, <2>3, MaxGrantAssumption DEF IInv, TypeOK, Progress, Early
      <3>4. Ownership'
        BY <2>1, <2>3, <3>1 DEF IInv, TypeOK, Owners, Ownership, DriverOwns, Buffers
      <3> QED
        BY <2>3, <3>2, <3>3, <3>4 DEF IInv, QbufNeverRejected
    <2> QED
      BY <1>5, <2>2, <2>3 DEF QueueBuffer
  <1>6. CASE StreamOn
    <2>1. CASE Die("VIDIOC_STREAMON")
      BY <2>1, DieIInv DEF Deaths
    <2>2. CASE /\ At("streamon") /\ phase' = "streaming"
               /\ UNCHANGED <<proc, granted, mapped, next, owner, frame>>
      BY <2>2 DEF At, IInv, TypeOK, Phases, Progress, Early, Ownership,
                  DriverOwns, QbufNeverRejected
    <2> QED
      BY <1>6, <2>1, <2>2 DEF StreamOn
  <1>7. CASE ReadFrame
    <2> PICK b \in Buffers : /\ owner[b] = "done"
                             /\ owner' = [owner EXCEPT ![b] = "app"]
                             /\ frame' = b
      BY <1>7 DEF ReadFrame, Dqbuf
    <2>1. /\ phase = "streaming" /\ frame = NoFrame
          /\ UNCHANGED <<proc, phase, granted, mapped, next>>
      BY <1>7 DEF ReadFrame, At
    <2>2. b < granted
      BY DEF IInv, Ownership, TypeOK, Buffers
    <2>3. TypeOK'
      BY <2>1 DEF IInv, TypeOK, Owners
    <2>4. Progress'
      BY <2>1, <2>2 DEF IInv, Progress
    <2>5. Ownership'
      BY <2>1, <2>2 DEF IInv, TypeOK, Ownership
    <2> QED
      BY <2>1, <2>3, <2>4, <2>5 DEF IInv, QbufNeverRejected
  <1>8. CASE ReadFrameFails
    BY <1>8, DieIInv DEF ReadFrameFails, DqbufErrors, Deaths
  <1>9. CASE v4l2_release_frame
    <2>1. /\ phase = "streaming" /\ frame \in Buffers /\ owner[frame] = "app"
          /\ frame < granted
      BY <1>9 DEF v4l2_release_frame, At, IInv, TypeOK, Progress, Ownership
    <2>2. CASE QbufFails(frame)
      BY <2>1, <2>2, QbufFailsIInv
    <2>3. CASE /\ Qbuf(frame) /\ frame' = NoFrame
               /\ UNCHANGED <<proc, phase, granted, mapped, next>>
      <3>1. owner' = [owner EXCEPT ![frame] = "queued"]
        BY <2>3 DEF Qbuf
      <3>2. TypeOK'
        BY <2>3, <3>1 DEF IInv, TypeOK, Owners
      <3>3. Progress'
        BY <2>1, <2>3 DEF IInv, Progress
      <3>4. Ownership'
        BY <2>1, <2>3, <3>1 DEF IInv, TypeOK, Ownership
      <3> QED
        BY <2>3, <3>2, <3>3, <3>4 DEF IInv, QbufNeverRejected
    <2> QED
      BY <1>9, <2>2, <2>3 DEF v4l2_release_frame
  <1>10. CASE DriverFill
    <2> PICK b \in Buffers : /\ owner[b] = "queued"
                             /\ owner' = [owner EXCEPT ![b] = "done"]
      BY <1>10 DEF DriverFill
    <2>1. /\ phase = "streaming"
          /\ UNCHANGED <<proc, phase, granted, mapped, next, frame>>
      BY <1>10 DEF DriverFill, At
    <2>2. TypeOK'
      BY <2>1 DEF IInv, TypeOK, Owners
    <2>3. Progress'
      BY <2>1 DEF IInv, Progress
    <2>4. Ownership'
      BY <2>1 DEF IInv, TypeOK, Ownership
    <2> QED
      BY <2>1, <2>2, <2>3, <2>4 DEF IInv, QbufNeverRejected
  <1>11. CASE UNCHANGED vars
    BY <1>11 DEF vars, IInv, TypeOK, Progress, Ownership, DriverOwns,
                 QbufNeverRejected
  <1> QED
    BY <1>1, <1>2, <1>3, <1>4, <1>5, <1>6, <1>7, <1>8, <1>9, <1>10, <1>11
    DEF Next, Config, Loop

LEMMA SpecIInv == Spec => []IInv
  BY InitIInv, NextIInv, PTL DEF Spec

-----------------------------------------------------------------------------
\* Every variable keeps its type.
THEOREM TypeCorrect == Spec => []TypeOK
  <1>1. IInv => TypeOK
    BY DEF IInv
  <1> QED
    BY <1>1, SpecIInv, PTL

\* No buffer leaks out of the frame loop and none is held twice: while
\* streaming the application owns the frame at hand and nothing else.
THEOREM NoBufferLeaks == Spec => []AppOwnsOnlyFrame
  <1>1. IInv => AppOwnsOnlyFrame
    BY BufferBound, MaxGrantAssumption
    DEF IInv, TypeOK, Ownership, AppOwnsOnlyFrame, Streaming, Buffers
  <1> QED
    BY <1>1, SpecIInv, PTL

\* With the two buffers that init_mmap insists on, the driver always has one.
THEOREM DriverHasABuffer == Spec => []DriverNeverStarved
  <1>1. ASSUME IInv, Streaming
        PROVE  \E b \in 0 .. granted - 1 : DriverOwns(b)
    <2>1. granted >= 2 /\ granted <= MaxGrant /\ granted \in Nat
      BY <1>1, MaxGrantAssumption DEF IInv, TypeOK, Progress, Streaming, Early
    <2>2. PICK b \in 0 .. 1 : b # frame
      OBVIOUS
    <2>3. b \in Buffers /\ b \in 0 .. granted - 1
      BY <2>1, MaxGrantAssumption DEF Buffers
    <2>4. owner[b] # "app" /\ owner[b] # "none"
      BY <1>1, <2>1, <2>2, <2>3 DEF IInv, Ownership, Streaming
    <2>5. DriverOwns(b)
      BY <1>1, <2>3, <2>4 DEF IInv, TypeOK, Owners, DriverOwns
    <2> QED
      BY <2>3, <2>5
  <1>2. IInv => DriverNeverStarved
    BY <1>1 DEF DriverNeverStarved
  <1> QED
    BY <1>2, SpecIInv, PTL

\* The program never queues a buffer twice.
THEOREM NoDoubleQueue == Spec => []QbufNeverRejected
  <1>1. IInv => QbufNeverRejected
    BY DEF IInv
  <1> QED
    BY <1>1, SpecIInv, PTL

\* The assertion commented out in v4l2_read_frame holds: the index a DQBUF
\* returns is that of a mapped buffer.
THEOREM FrameAlwaysMapped == Spec => []FrameIsMapped
  <1>1. ASSUME IInv PROVE FrameIsMapped
    <2>1. ASSUME NEW b \in Buffers, DriverOwns(b) PROVE b < mapped
      <3>1. b < granted
        BY <1>1, <2>1, BufferBound, MaxGrantAssumption
        DEF IInv, TypeOK, Ownership, DriverOwns, Buffers
      <3>2. phase \notin Early
        BY <1>1, <3>1, BufferBound DEF IInv, Progress
      <3>3. phase # "map"
        BY <1>1, <2>1 DEF IInv, Ownership
      <3> QED
        BY <1>1, <3>1, <3>2, <3>3 DEF IInv, TypeOK, Phases, Progress, Early
    <2>2. frame # NoFrame => frame < mapped
      BY <1>1 DEF IInv, Progress
    <2>3. Streaming => mapped = granted
      BY <1>1 DEF IInv, Progress, Streaming
    <2> QED
      BY <2>1, <2>2, <2>3 DEF FrameIsMapped
  <1>2. IInv => FrameIsMapped
    BY <1>1
  <1> QED
    BY <1>2, SpecIInv, PTL
=============================================================================

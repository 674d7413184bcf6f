----------------------------- MODULE Sample_proofs -----------------------------
(***************************************************************************)
(* The sample program for every number of buffers, every delay of libx264  *)
(* and every limit of the deque: its frame loop keeps to the protocol of   *)
(* V4l2Capture and its threads to that of FrameDeque, whose invariants it  *)
(* thereby inherits; and the threads end before what they work on does.    *)
(***************************************************************************)
EXTENDS Sample, TLAPS

\* The proofs about V4l2Capture, for the camera of this program.
Camera == INSTANCE V4l2Capture_proofs

\* What Sample's refinement mapping shows of the slots.
Shown == [i \in D!Slots |-> Worth(slots[i])]

\* The proofs about FrameDeque, for what the mapping shows of the deque.
Queue == INSTANCE FrameDeque_proofs
           WITH Nalus <- {"nalu"}, Null <- "empty", Dangling <- "dangling",
                slots <- Shown, pnalu <- Worth(pnalu), cnalu <- Worth(cnalu)

Entries == E!Payloads \cup {"empty", "dangling"}

\* Where the capture thread has a frame.
Working == {"encode", "packet", "push", "release"}

Finished == {"done", "failed"}

\* The camera is configured before there are threads, and the frame of the
\* protocol is the one the capture thread works on.
FrameLoop ==
    /\ main = "config" <=> ~V!Streaming
    /\ frame # NoFrame <=> capture \in Working

\* How far the three threads may be apart, and the server from them.
Threads ==
    /\ main \in {"config", "create1"} <=> capture = "none"
    /\ main \in {"config", "create1", "create2"} <=> rtspd = "none"
    /\ main \in {"join2", "delete", "end"} => capture \in Finished
    /\ main \in {"delete", "end"} => rtspd \in Finished
    /\ server = "null" <=> rtspd \in {"none", "failed", "new"}
    /\ server = "deleted" => main = "end"
    /\ capture \notin {"none", "failed", "wait"} => server # "null"

\* A thread is inside a call of the deque when its own loop is there.
Calling ==
    /\ ppc = "ended" => main = "end"
    /\ main # "end" => /\ capture = "push" <=> ppc # "idle"
                       /\ rtspd = "take" <=> cpc # "idle"
    /\ capture = "push" => out # <<>>

\* Where a payload that is still valid may lie: nowhere until the push has
\* written it; then at the end of the deque or beyond, where no cursor loaded
\* before can lift the size over it by more than one.
Newest ==
    /\ out # <<>> /\ ppc \in {"idle", "push", "construct"} =>
         \A i \in D!Slots : slots[i] # "current"
    /\ \A i \in D!Slots : slots[i] = "current" =>
         /\ fin <= i + 1
         /\ ppc = "reload" => fin <= i
         /\ ppc = "store" => fin <= i /\ pcur <= i

IInv ==
    /\ TypeOK /\ Camera!IInv /\ Queue!IInv
    /\ FrameLoop /\ Threads /\ Calling /\ Newest

\* The type invariant thread by thread.
ThreadTypes ==
    /\ server \in {"null", "alive", "deleted"}
    /\ exit1 \in {0, 1} /\ exit2 \in {0, 1}
    /\ main \in {"config", "create1", "create2", "getchar", "exit1", "exit2",
                 "join1", "join2", "delete", "end"}
    /\ capture \in {"none", "failed", "wait", "open", "loop", "read", "encode",
                    "packet", "push", "release", "close", "reset", "done"}
    /\ rtspd \in {"none", "failed", "new", "loop", "empty", "take", "done"}

EncoderTypes ==
    /\ handle \in {"null", "open", "dangling"} /\ pic \in {"none", "allocated"}
    /\ delayed \in 0 .. MaxDelay /\ ret \in {0, -1} /\ crash \in BOOLEAN
    /\ out \in {<<>>, <<"current">>}

LEMMA TypeParts ==
    TypeOK <=> V!TypeOK /\ EncoderTypes /\ D!TypeOK /\ fin <= Limit /\ ThreadTypes
  BY DEF TypeOK, EncoderTypes, ThreadTypes

-----------------------------------------------------------------------------
(* The camera *)

LEMMA SameCamera ==
    /\ V!Init => Camera!Init
    /\ [V!Next]_V!vars => [Camera!Next]_Camera!vars
    /\ Camera!TypeOK => V!TypeOK
    /\ Camera!TypeOK' => V!TypeOK'
  BY DEF V!Init, V!vars, V!TypeOK, V!Next, V!Config, V!Loop, V!DriverFill,
         V!v4l2_open_device, V!v4l2_init_device, V!RequestBuffers,
         V!MapBuffer, V!QueueBuffer, V!StreamOn, V!ReadFrame,
         V!ReadFrameFails, V!v4l2_release_frame, V!Die, V!At, V!Qbuf,
         V!QbufFails, V!Dqbuf, V!Buffers, V!OpenErrors, V!InitErrors,
         V!DqbufErrors, V!EnoughBuffers, V!MoreToMap, V!Deaths, V!Phases,
         V!Owners,
         Camera!Init, Camera!vars, Camera!TypeOK, Camera!Next, Camera!Config,
         Camera!Loop, Camera!DriverFill, Camera!v4l2_open_device,
         Camera!v4l2_init_device, Camera!RequestBuffers, Camera!MapBuffer,
         Camera!QueueBuffer, Camera!StreamOn, Camera!ReadFrame,
         Camera!ReadFrameFails, Camera!v4l2_release_frame, Camera!Die,
         Camera!At, Camera!Qbuf, Camera!QbufFails, Camera!Dqbuf,
         Camera!Buffers, Camera!OpenErrors, Camera!InitErrors,
         Camera!DqbufErrors, Camera!EnoughBuffers, Camera!MoreToMap,
         Camera!Deaths, Camera!Phases, Camera!Owners

\* A step of the program is a step of the capture protocol, or none of it.
LEMMA CameraStep == IInv /\ [Next]_vars => [V!Next]_V!vars
  <1> SUFFICES ASSUME IInv, [Next]_vars PROVE V!Next \/ UNCHANGED camera
    BY DEF camera, V!vars
  <1>1. CASE Configure
    BY <1>1 DEF Configure, V!Next
  <1>2. CASE Read
    <2>1. V!ReadFrame
      BY <1>2 DEF Read, CaptureAt, Alive, V!ReadFrame, V!At, IInv, FrameLoop,
                  Threads, V!Streaming, Working
    <2> QED
      BY <2>1 DEF V!Next, V!Loop
  <1>3. CASE ReadFails
    <2>1. V!ReadFrameFails
      BY <1>3 DEF ReadFails, CaptureAt, Alive, V!ReadFrameFails, V!At, IInv,
                  FrameLoop, Threads, V!Streaming, Working
    <2> QED
      BY <2>1 DEF V!Next, V!Loop
  <1>4. CASE Release
    <2>1. V!v4l2_release_frame
      BY <1>4 DEF Release, CaptureAt, Alive, V!v4l2_release_frame, V!At, IInv,
                  FrameLoop, Threads, V!Streaming, Working
    <2> QED
      BY <2>1 DEF V!Next, V!Loop
  <1>5. CASE DriverFill
    BY <1>5 DEF DriverFill, V!Next
  <1>6. \/ Configure \/ Read \/ ReadFails \/ Release \/ DriverFill
        \/ UNCHANGED camera
    BY DEF vars, Next, Main, Capture, Rtsp, CreateCapture, CreateRtsp, Quit,
           SetExit1, SetExit2, JoinCapture, JoinRtsp, DeleteServer, ServerSeen,
           OpenEncoder, TestExit, Encode, NextPacket, Push, CloseEncoder,
           ResetExit, NewServer, RtspLoop, CheckEmpty, Take
  <1> QED
    BY <1>1, <1>2, <1>3, <1>4, <1>5, <1>6

LEMMA CameraNext ==
    IInv /\ [Next]_vars => Camera!IInv' /\ V!TypeOK'
  <1> SUFFICES ASSUME IInv, [Next]_vars PROVE Camera!IInv' /\ V!TypeOK'
    OBVIOUS
  <1>1. [Camera!Next]_Camera!vars
    BY CameraStep, SameCamera
  <1>2. Camera!IInv'
    BY <1>1, Camera!NextIInv, SampleAssumption DEF IInv
  <1> QED
    BY <1>2, SameCamera DEF Camera!IInv

-----------------------------------------------------------------------------
(* The threads *)

\* When the configuration ends, and when there is a frame.
LEMMA FrameLoopNext == IInv /\ [Next]_vars => FrameLoop'
  <1> SUFFICES ASSUME IInv, [Next]_vars PROVE FrameLoop'
    OBVIOUS
  <1> USE DEF FrameLoop, V!Streaming, Working
  <1>1. FrameLoop /\ Threads /\ V!TypeOK
    BY DEF IInv, TypeOK
  <1>2. CASE Configure
    <2>1. main = "config" /\ capture = "none" /\ frame = NoFrame
      BY <1>1, <1>2 DEF Configure, MainAt, Threads
    <2>2. frame' = frame
      BY <1>2 DEF Configure, V!Config, V!v4l2_open_device, V!v4l2_init_device,
                  V!RequestBuffers, V!MapBuffer, V!QueueBuffer, V!StreamOn,
                  V!Die, V!QbufFails
    <2> QED
      BY <1>2, <2>1, <2>2 DEF Configure
  <1>3. CASE Read
    <2>1. frame' \in V!Buffers
      BY <1>3 DEF Read, V!Dqbuf
    <2> QED
      BY <1>1, <1>3, <2>1, SampleAssumption DEF Read, CaptureAt, V!Buffers
  <1>4. CASE Release
    BY <1>1, <1>4 DEF Release, CaptureAt, V!QbufFails, V!Die
  <1>5. CASE ReadFails
    BY <1>1, <1>5 DEF ReadFails, V!Die
  <1>6. CASE /\ UNCHANGED <<phase, frame>>
             /\ main = "config" <=> main' = "config"
             /\ capture \in Working <=> capture' \in Working
    BY <1>1, <1>6
  <1>7. \/ Configure \/ Read \/ Release \/ ReadFails
        \/ /\ UNCHANGED <<phase, frame>>
           /\ main = "config" <=> main' = "config"
           /\ capture \in Working <=> capture' \in Working
    BY <1>1
    DEF vars, camera, Next, Main, Capture, Rtsp, MainAt, CaptureAt,
        CreateCapture, CreateRtsp, Quit, SetExit1, SetExit2, JoinCapture,
        JoinRtsp, Join, DeleteServer, ServerSeen, OpenEncoder, TestExit,
        Encode, NextPacket, Push, CloseEncoder, ResetExit, NewServer,
        RtspLoop, CheckEmpty, Take, DriverFill, V!DriverFill, Threads
  <1> QED
    BY <1>2, <1>3, <1>4, <1>5, <1>6, <1>7

LEMMA ThreadsNext == IInv /\ [Next]_vars => ThreadTypes' /\ Threads'
  <1> SUFFICES ASSUME IInv, [Next]_vars PROVE ThreadTypes' /\ Threads'
    OBVIOUS
  <1> USE DEF ThreadTypes, Threads, Finished
  <1>1. ThreadTypes /\ Threads
    BY TypeParts DEF IInv
  <1>2. CASE Main \/ Quit
    BY <1>1, <1>2
    DEF Main, Configure, CreateCapture, CreateRtsp, Quit, SetExit1, SetExit2,
        JoinCapture, JoinRtsp, Join, DeleteServer, MainAt, Alive, queue, flags
  <1>3. CASE Capture \/ ReadFails
    BY <1>1, <1>3
    DEF Capture, ServerSeen, OpenEncoder, TestExit, Read, ReadFails, Encode,
        NextPacket, Push, Release, CloseEncoder, ResetExit, CaptureAt, Alive,
        queue, flags
  <1>4. CASE Rtsp
    BY <1>1, <1>4
    DEF Rtsp, NewServer, RtspLoop, RtspExit, CheckEmpty, Take, RtspAt,
        Alive, queue, flags
  <1>5. CASE DriverFill \/ UNCHANGED vars
    BY <1>1, <1>5 DEF DriverFill, vars, queue, flags
  <1> QED
    BY <1>2, <1>3, <1>4, <1>5 DEF Next

-----------------------------------------------------------------------------
(* The encoder *)

LEMMA EncoderNext == IInv /\ [Next]_vars => EncoderTypes'
  <1> SUFFICES ASSUME IInv, [Next]_vars PROVE EncoderTypes'
    OBVIOUS
  <1> USE DEF EncoderTypes
  <1>1. EncoderTypes
    BY TypeParts DEF IInv
  <1>2. CASE JoinCapture \/ JoinRtsp
    BY <1>1, <1>2 DEF JoinCapture, JoinRtsp, Join, encoder
  <1>3. CASE OpenEncoder
    BY <1>1, <1>3 DEF OpenEncoder, E!OpenHandle
  <1>4. CASE Encode
    BY <1>1, <1>4, SampleAssumption
    DEF Encode, E!EncodePicture, E!EncodeFails, E!EncodeDelays, E!EncodeEmits
  <1>5. CASE NextPacket \/ Push
    <2>1. Tail(<<"current">>) = <<>>
      OBVIOUS
    <2>2. capture = "push" => out # <<>>
      BY DEF IInv, Calling
    <2> QED
      BY <1>1, <1>5, <2>1, <2>2 DEF NextPacket, Push, CaptureAt
  <1>6. CASE CloseEncoder
    BY <1>1, <1>6 DEF CloseEncoder, E!CloseHandle
  <1>7. CASE UNCHANGED <<encoder, crash>>
    BY <1>1, <1>7 DEF encoder
  <1>8. \/ JoinCapture \/ JoinRtsp \/ OpenEncoder \/ Encode \/ NextPacket
        \/ Push \/ CloseEncoder \/ UNCHANGED <<encoder, crash>>
    BY DEF vars, Next, Main, Capture, Rtsp, Configure, CreateCapture,
           CreateRtsp, Quit, SetExit1, SetExit2, DeleteServer, ServerSeen,
           TestExit, Read, ReadFails, Release, ResetExit, NewServer, RtspLoop,
           CheckEmpty, Take, DriverFill
  <1> QED
    BY <1>2, <1>3, <1>4, <1>5, <1>6, <1>7, <1>8

-----------------------------------------------------------------------------
(* The deque *)

\* What the mapping does to an element: payloads are no longer told apart.
LEMMA WorthOf ==
    ASSUME NEW v \in Entries
    PROVE  /\ Worth(v) \in {"nalu", "empty", "dangling"}
           /\ Worth(v) = "nalu" <=> v \in E!Payloads
           /\ Worth(v) = "empty" <=> v = "empty"
           /\ Worth(v) = "dangling" <=> v = "dangling"
  BY DEF Worth, Entries, E!Payloads

\* A step of FrameDeque, with the payloads told apart, keeps the types.
LEMMA DequeTypes == D!TypeOK /\ Queue!Cursors /\ D!Next => D!TypeOK'
  <1> SUFFICES ASSUME D!TypeOK, Queue!Cursors, D!Next PROVE D!TypeOK'
    OBVIOUS
  <1> USE SampleAssumption
          DEF D!TypeOK, Queue!Cursors, D!NoteOverlap, D!InPush, D!InTake,
              D!Slots, D!pvars, D!cvars
  <1>1. CASE D!CheckRoom
    BY <1>1 DEF D!CheckRoom
  <1>2. CASE D!PushLoad \/ D!PushReload
    BY <1>2 DEF D!PushLoad, D!PushReload
  <1>3. CASE D!PushConstruct
    BY <1>3 DEF D!PushConstruct
  <1>4. CASE D!PushStore
    BY <1>4 DEF D!PushStore
  <1>5. CASE D!CheckEmpty
    BY <1>5 DEF D!CheckEmpty
  <1>6. CASE D!BackLoad
    BY <1>6 DEF D!BackLoad
  <1>7. CASE D!BackCopy
    BY <1>7 DEF D!BackCopy
  <1>8. CASE D!PopLoad
    BY <1>8 DEF D!PopLoad
  <1>9. CASE D!PopStore
    BY <1>9 DEF D!PopStore
  <1>10. CASE D!PopReload
    BY <1>10 DEF D!PopReload
  <1>11. CASE D!PopDestroy
    BY <1>11 DEF D!PopDestroy, D!Destroyed
  <1>12. CASE D!Clear
    BY <1>12 DEF D!Clear, D!ClearDeque, D!Destroyed
  <1> QED
    BY <1>1, <1>2, <1>3, <1>4, <1>5, <1>6, <1>7, <1>8, <1>9, <1>10, <1>11, <1>12
    DEF D!Next, D!Produce, D!Take

\* And it is a step of FrameDeque when they are not told apart.
LEMMA ProtocolStep == D!TypeOK /\ Queue!Cursors /\ D!Next => Protocol!Next
  <1> SUFFICES ASSUME D!TypeOK, Queue!Cursors, D!Next PROVE Protocol!Next
    OBVIOUS
  <1>1. /\ slots \in [D!Slots -> Entries] /\ D!Slots = 0 .. Limit
        /\ pnalu \in Entries /\ cnalu \in Entries
        /\ \A i \in D!Slots : slots[i] \in Entries
    BY DEF D!TypeOK, D!Slots, Entries
  <1>2. /\ Worth("empty") = "empty" /\ Worth("dangling") = "dangling"
        /\ \A v \in E!Payloads : Worth(v) = "nalu"
    BY DEF Worth, E!Payloads
  <1> USE DEF D!pvars, D!cvars, Protocol!pvars, Protocol!cvars,
              D!NoteOverlap, Protocol!NoteOverlap, D!InPush, Protocol!InPush,
              D!InTake, Protocol!InTake
  <1>3. CASE D!CheckRoom
    BY <1>2, <1>3
    DEF D!CheckRoom, D!Room, Protocol!CheckRoom, Protocol!Room,
        Protocol!Next, Protocol!Produce
  <1>4. CASE D!PushLoad
    BY <1>4 DEF D!PushLoad, Protocol!PushLoad, Protocol!Next, Protocol!Produce
  <1>5. CASE D!PushConstruct
    <2>1. pcur \in D!Slots
      BY <1>1, <1>5, SampleAssumption DEF D!PushConstruct, Queue!Cursors
    <2>2. Shown' = [Shown EXCEPT ![pcur] = Worth(pnalu)]
      BY <1>1, <1>5, <2>1 DEF D!PushConstruct, Shown
    <2> QED
      BY <1>5, <2>2
      DEF Shown, D!PushConstruct, Protocol!PushConstruct, Protocol!Next,
          Protocol!Produce
  <1>6. CASE D!PushReload
    BY <1>6
    DEF D!PushReload, Protocol!PushReload, Protocol!Next, Protocol!Produce
  <1>7. CASE D!PushStore
    BY <1>2, <1>7
    DEF D!PushStore, Protocol!PushStore, Protocol!Next, Protocol!Produce
  <1>8. CASE D!CheckEmpty
    BY <1>8
    DEF D!CheckEmpty, D!Something, Protocol!CheckEmpty, Protocol!Something,
        Protocol!Next, Protocol!Take
  <1>9. CASE D!BackLoad
    BY <1>9 DEF D!BackLoad, Protocol!BackLoad, Protocol!Next, Protocol!Take
  <1>10. CASE D!BackCopy
    <2>1. ccur \in D!Slots
      BY <1>1, <1>10, SampleAssumption DEF D!BackCopy, Queue!Cursors
    <2>2. slots[ccur] = "dangling" <=> Worth(slots[ccur]) = "dangling"
      BY <1>1, <2>1, WorthOf
    <2> QED
      BY <1>10, <2>1, <2>2
      DEF D!BackCopy, Protocol!BackCopy, Protocol!Next, Protocol!Take
  <1>11. CASE D!PopLoad
    BY <1>11 DEF D!PopLoad, Protocol!PopLoad, Protocol!Next, Protocol!Take
  <1>12. CASE D!PopStore
    BY <1>12 DEF D!PopStore, Protocol!PopStore, Protocol!Next, Protocol!Take
  <1>13. CASE D!PopReload
    BY <1>13
    DEF D!PopReload, Protocol!PopReload, Protocol!Next, Protocol!Take
  <1>14. CASE D!PopDestroy
    <2>1. ccur \in D!Slots
      BY <1>1, <1>14, SampleAssumption DEF D!PopDestroy, Queue!Cursors
    <2>2. slots[ccur] = "dangling" <=> Worth(slots[ccur]) = "dangling"
      BY <1>1, <2>1, WorthOf
    <2>3. Worth(D!Destroyed(slots[ccur]))
            = Protocol!Destroyed(Worth(slots[ccur]))
      BY <1>1, <1>2, <2>1, WorthOf DEF D!Destroyed, Protocol!Destroyed
    <2>4. Shown' = [Shown EXCEPT ![ccur] = Protocol!Destroyed(@)]
      BY <1>1, <1>14, <2>1, <2>3 DEF D!PopDestroy, Shown
    <2> QED
      BY <1>2, <1>14, <2>1, <2>2, <2>4
      DEF Shown, D!PopDestroy, Protocol!PopDestroy, Protocol!Next,
          Protocol!Take
  <1>15. CASE D!Clear
    <2>1. \A i \in D!Slots :
            /\ slots[i] = "dangling" <=> Shown[i] = "dangling"
            /\ Worth(D!Destroyed(slots[i])) = Protocol!Destroyed(Shown[i])
      BY <1>1, <1>2, WorthOf DEF Shown, D!Destroyed, Protocol!Destroyed
    <2>2. 0 .. fin - 1 \subseteq D!Slots
      BY <1>1, SampleAssumption DEF Queue!Cursors
    <2>3. fault' = \E i \in 0 .. fin - 1 : Shown[i] = "dangling"
      BY <1>15, <2>1, <2>2 DEF D!Clear, D!ClearDeque
    <2>4. Shown' = [i \in D!Slots |->
                     IF i < fin THEN Protocol!Destroyed(Shown[i]) ELSE Shown[i]]
      BY <1>15, <2>1 DEF D!Clear, D!ClearDeque, Shown
    <2>5. D!Slots = Protocol!Slots
      BY DEF D!Slots, Protocol!Slots
    <2> QED
      BY <1>15, <2>3, <2>4, <2>5
      DEF Shown, D!Clear, D!ClearDeque, Protocol!Clear, Protocol!ClearDeque,
          Protocol!Next
  <1> QED
    BY <1>3, <1>4, <1>5, <1>6, <1>7, <1>8, <1>9, <1>10, <1>11, <1>12, <1>13,
       <1>14, <1>15
    DEF D!Next, D!Produce, D!Take

\* A call into libx264 changes what the payloads are worth and nothing else.
LEMMA StaleEntries ==
    ASSUME D!TypeOK, PayloadsGoStale
    PROVE  /\ \A i \in D!Slots : /\ slots'[i] \in Entries \ {"current"}
                                 /\ Worth(slots'[i]) = Worth(slots[i])
           /\ cnalu' \in Entries /\ Worth(cnalu') = Worth(cnalu)
           /\ slots' \in [D!Slots -> Entries] /\ Shown' = Shown
           /\ UNCHANGED <<fin, ppc, pcur, pnalu, cpc, ccur, fault, overlap>>
  <1>1. slots \in [D!Slots -> Entries] /\ cnalu \in Entries
    BY DEF D!TypeOK, Entries
  <1>2. /\ slots' \in [D!Slots -> Entries]
        /\ \A i \in D!Slots :
             slots'[i] = IF slots[i] = "current" THEN "stale" ELSE slots[i]
    BY <1>1 DEF PayloadsGoStale, E!Stale, Entries, E!Payloads
  <1>3. cnalu' = IF cnalu = "current" THEN "stale" ELSE cnalu
    BY DEF PayloadsGoStale, E!Stale
  <1>4. \A i \in D!Slots : /\ slots'[i] \in Entries \ {"current"}
                           /\ Worth(slots'[i]) = Worth(slots[i])
    BY <1>1, <1>2 DEF Worth, Entries, E!Payloads
  <1>5. cnalu' \in Entries /\ Worth(cnalu') = Worth(cnalu)
    BY <1>1, <1>3 DEF Worth, Entries, E!Payloads
  <1>6. Shown' = Shown
    BY <1>4 DEF Shown
  <1> QED
    BY <1>2, <1>4, <1>5, <1>6 DEF PayloadsGoStale

\* What the threads do to the deque.  It is deleted between two calls.
LEMMA DequeStep ==
    ASSUME IInv, [Next]_vars
    PROVE  \/ NextPacket /\ D!CheckRoom
           \/ CheckEmpty /\ D!CheckEmpty
           \/ (Push \/ Take) /\ D!Next
           \/ DeleteServer /\ D!Clear
           \/ (Encode \/ CloseEncoder) /\ PayloadsGoStale
           \/ UNCHANGED deque
  <1>1. CASE NextPacket
    BY <1>1 DEF NextPacket
  <1>2. CASE CheckEmpty
    BY <1>2 DEF CheckEmpty
  <1>3. CASE Push
    BY <1>3 DEF Push, D!Next, D!Produce
  <1>4. CASE Take
    BY <1>4 DEF Take, D!Next, D!Take
  <1>5. CASE DeleteServer
    <2>1. ~fault /\ capture # "push" /\ rtspd # "take" /\ main # "end"
      BY <1>5 DEF DeleteServer, MainAt, Alive, IInv, Threads, Finished
    <2>2. ppc = "idle" /\ cpc = "idle"
      BY <2>1 DEF IInv, Calling
    <2> QED
      BY <1>5, <2>1, <2>2 DEF DeleteServer, D!Clear, queue
  <1>6. CASE Encode \/ CloseEncoder
    BY <1>6 DEF Encode, CloseEncoder
  <1>7. \/ NextPacket \/ CheckEmpty \/ Push \/ Take \/ DeleteServer
        \/ Encode \/ CloseEncoder \/ UNCHANGED deque
    BY DEF vars, queue, Next, Main, Capture, Rtsp, Configure, CreateCapture,
           CreateRtsp, Quit, SetExit1, SetExit2, JoinCapture, JoinRtsp,
           ServerSeen, OpenEncoder, TestExit, Read, ReadFails, Release,
           ResetExit, NewServer, RtspLoop, DriverFill
  <1> QED
    BY <1>1, <1>2, <1>3, <1>4, <1>5, <1>6, <1>7

\* So a step of the program is a step of the deque's protocol, or none of it.
LEMMA QueueStep == IInv /\ [Next]_vars => [Protocol!Next]_Protocol!vars
  <1> SUFFICES ASSUME IInv, [Next]_vars PROVE [Protocol!Next]_Protocol!vars
    OBVIOUS
  <1>1. D!TypeOK /\ Queue!Cursors
    BY TypeParts DEF IInv, Queue!IInv
  <1>2. D!Next \/ PayloadsGoStale \/ UNCHANGED deque
    BY DequeStep DEF D!Next, D!Produce, D!Take
  <1>3. CASE PayloadsGoStale
    BY <1>1, <1>3, StaleEntries DEF Shown, Protocol!vars
  <1>4. CASE UNCHANGED deque
    BY <1>4 DEF deque, Protocol!vars
  <1> QED
    BY <1>1, <1>2, <1>3, <1>4, ProtocolStep

LEMMA SameDeque ==
    /\ Protocol!Init => Queue!Init
    /\ [Protocol!Next]_Protocol!vars => [Queue!Next]_Queue!vars
  BY DEF Shown, Protocol!Init, Queue!Init, Protocol!Slots, Queue!Slots,
         Protocol!vars, Queue!vars, Protocol!pvars, Queue!pvars,
         Protocol!cvars, Queue!cvars, Protocol!Next, Queue!Next,
         Protocol!Produce, Queue!Produce, Protocol!Take, Queue!Take,
         Protocol!NoteOverlap, Queue!NoteOverlap, Protocol!InPush,
         Queue!InPush, Protocol!InTake, Queue!InTake,
         Protocol!Room, Queue!Room, Protocol!CheckRoom, Queue!CheckRoom,
         Protocol!PushLoad, Queue!PushLoad, Protocol!PushConstruct,
         Queue!PushConstruct, Protocol!PushReload, Queue!PushReload,
         Protocol!PushStore, Queue!PushStore, Protocol!Something,
         Queue!Something, Protocol!CheckEmpty, Queue!CheckEmpty,
         Protocol!BackLoad, Queue!BackLoad, Protocol!BackCopy, Queue!BackCopy,
         Protocol!PopLoad, Queue!PopLoad, Protocol!PopStore, Queue!PopStore,
         Protocol!PopReload, Queue!PopReload, Protocol!PopDestroy,
         Queue!PopDestroy, Protocol!Destroyed, Queue!Destroyed,
         Protocol!Clear, Queue!Clear, Protocol!ClearDeque, Queue!ClearDeque

\* What FrameDeque assumes of its constants.
LEMMA QueueAssumptions ==
    /\ Limit \in Nat \ {0}
    /\ "empty" \notin {"nalu"} /\ "dangling" \notin {"nalu"}
    /\ "empty" # "dangling"
  BY SampleAssumption

LEMMA QueueNext == IInv /\ [Next]_vars => Queue!IInv'
  <1> SUFFICES ASSUME IInv, [Next]_vars PROVE Queue!IInv'
    OBVIOUS
  <1>1. [Queue!Next]_Queue!vars
    BY QueueStep, SameDeque
  <1> QED
    BY <1>1, Queue!NextIInv, QueueAssumptions DEF IInv

LEMMA TypesNext == IInv /\ [Next]_vars => D!TypeOK' /\ fin' <= Limit
  <1> SUFFICES ASSUME IInv, [Next]_vars PROVE D!TypeOK' /\ fin' <= Limit
    OBVIOUS
  <1>1. D!TypeOK /\ Queue!Cursors
    BY TypeParts DEF IInv, Queue!IInv
  <1>2. fin' <= Limit
    BY QueueNext, SampleAssumption DEF Queue!IInv, Queue!Cursors
  <1>3. CASE PayloadsGoStale
    BY <1>1, <1>2, <1>3, StaleEntries DEF D!TypeOK, Entries
  <1>4. CASE UNCHANGED deque
    BY <1>1, <1>2, <1>4 DEF deque, D!TypeOK
  <1> QED
    BY <1>1, <1>2, <1>3, <1>4, DequeTypes, DequeStep
    DEF D!Next, D!Produce, D!Take

-----------------------------------------------------------------------------
(* The threads' calls of the deque *)

LEMMA CallingNext == IInv /\ [Next]_vars => Calling'
  <1> SUFFICES ASSUME IInv, [Next]_vars PROVE Calling'
    OBVIOUS
  <1> USE DEF Calling
  <1>1. /\ Calling /\ Threads /\ ThreadTypes /\ D!TypeOK
        /\ out \in {<<>>, <<"current">>}
    BY TypeParts DEF IInv, EncoderTypes
  <1>2. Tail(<<"current">>) = <<>>
    OBVIOUS
  <1>3. CASE NextPacket
    BY <1>1, <1>2, <1>3
    DEF NextPacket, CaptureAt, Alive, D!CheckRoom, deque, D!cvars
  <1>4. CASE Push
    BY <1>1, <1>4
    DEF Push, CaptureAt, Alive, D!PushLoad, D!PushConstruct, D!PushReload,
        D!PushStore, D!cvars
  <1>5. CASE CheckEmpty
    BY <1>1, <1>5
    DEF CheckEmpty, RtspAt, Alive, D!CheckEmpty, deque, D!pvars, encoder
  <1>6. CASE Take
    BY <1>1, <1>6
    DEF Take, RtspAt, Alive, D!BackLoad, D!BackCopy, D!PopLoad, D!PopStore,
        D!PopReload, D!PopDestroy, D!pvars, encoder
  <1>7. CASE DeleteServer
    BY <1>1, <1>7
    DEF DeleteServer, MainAt, Alive, D!ClearDeque, queue, deque, encoder,
        Threads, Finished
  <1>8. CASE Encode \/ CloseEncoder
    BY <1>1, <1>8
    DEF Encode, CloseEncoder, CaptureAt, Alive, PayloadsGoStale
  <1>9. CASE /\ UNCHANGED <<deque, out>> /\ main' # "end" /\ main # "end"
             /\ capture = "push" <=> capture' = "push"
             /\ rtspd = "take" <=> rtspd' = "take"
    BY <1>1, <1>9 DEF deque
  <1>10. CASE UNCHANGED <<deque, out, main, capture, rtspd>>
    BY <1>1, <1>10 DEF deque
  <1>11. \/ NextPacket \/ Push \/ CheckEmpty \/ Take \/ DeleteServer
         \/ Encode \/ CloseEncoder
         \/ /\ UNCHANGED <<deque, out>> /\ main' # "end" /\ main # "end"
            /\ capture = "push" <=> capture' = "push"
            /\ rtspd = "take" <=> rtspd' = "take"
         \/ UNCHANGED <<deque, out, main, capture, rtspd>>
    BY <1>1 DEF Threads, vars, queue, encoder, Next, Main, Capture, Rtsp, Configure,
           CreateCapture, CreateRtsp, Quit, SetExit1, SetExit2, JoinCapture,
           JoinRtsp, Join, ServerSeen, OpenEncoder, TestExit, Read, ReadFails,
           Release, ResetExit, NewServer, RtspLoop, DriverFill, MainAt,
           CaptureAt, RtspAt, Alive
  <1> QED
    BY <1>3, <1>4, <1>5, <1>6, <1>7, <1>8, <1>9, <1>10, <1>11

LEMMA NewestNext == IInv /\ [Next]_vars => Newest'
  <1> SUFFICES ASSUME IInv, [Next]_vars PROVE Newest'
    OBVIOUS
  <1>1. /\ D!TypeOK /\ Queue!Cursors /\ Newest /\ Calling
        /\ out \in {<<>>, <<"current">>} /\ Limit \in Nat /\ Limit > 0
    BY TypeParts, SampleAssumption DEF IInv, EncoderTypes, Queue!IInv
  <1>2. /\ ppc \in {"construct", "reload", "store"} => fin <= pcur
        /\ cpc = "dec" => ccur <= fin
    BY DEF IInv, Queue!IInv, Queue!Bottom
  <1>3. Tail(<<"current">>) = <<>>
    OBVIOUS
  <1> USE DEF Newest, D!TypeOK, Queue!Cursors, D!Slots, D!pvars, D!cvars
  <1>4. CASE NextPacket
    BY <1>1, <1>3, <1>4 DEF NextPacket, D!CheckRoom, deque
  <1>5. CASE Push /\ D!PushLoad
    BY <1>1, <1>5 DEF Push, D!PushLoad
  <1>6. CASE Push /\ D!PushConstruct
    BY <1>1, <1>2, <1>6 DEF Push, CaptureAt, Calling, D!PushConstruct
  <1>7. CASE Push /\ D!PushReload
    BY <1>1, <1>7 DEF Push, D!PushReload
  <1>8. CASE Push /\ D!PushStore
    BY <1>1, <1>3, <1>8 DEF Push, CaptureAt, Calling, D!PushStore
  <1>9. CASE /\ \/ D!CheckEmpty \/ D!BackLoad \/ D!BackCopy
                \/ D!PopLoad \/ D!PopReload
             /\ out' = out
    BY <1>1, <1>9
    DEF D!CheckEmpty, D!BackLoad, D!BackCopy, D!PopLoad, D!PopReload
  <1>10. CASE D!PopStore /\ out' = out
    BY <1>1, <1>2, <1>10 DEF D!PopStore
  <1>11. CASE D!PopDestroy /\ out' = out
    BY <1>1, <1>11 DEF D!PopDestroy, D!Destroyed
  <1>12. CASE D!Clear /\ out' = out
    BY <1>1, <1>12 DEF D!Clear, D!ClearDeque, D!Destroyed
  <1>13. CASE PayloadsGoStale
    BY <1>1, <1>13, StaleEntries
  <1>14. CASE UNCHANGED <<deque, out>>
    BY <1>1, <1>14 DEF deque
  <1>15. \/ NextPacket \/ Push \/ CheckEmpty \/ Take
         \/ DeleteServer /\ D!Clear
         \/ PayloadsGoStale
         \/ UNCHANGED <<deque, out>>
    BY DequeStep
    DEF vars, queue, encoder, Next, Main, Capture, Rtsp, Configure,
        CreateCapture, CreateRtsp, Quit, SetExit1, SetExit2, JoinCapture,
        JoinRtsp, ServerSeen, OpenEncoder, TestExit, Read, ReadFails, Release,
        ResetExit, NewServer, RtspLoop, DriverFill, DeleteServer, Encode,
        CloseEncoder
  <1>16. CASE CheckEmpty \/ Take
    BY <1>9, <1>10, <1>11, <1>14, <1>16 DEF CheckEmpty, Take, encoder
  <1>17. CASE DeleteServer /\ D!Clear
    BY <1>12, <1>17 DEF DeleteServer, encoder
  <1>18. CASE Push
    BY <1>5, <1>6, <1>7, <1>8, <1>18 DEF Push
  <1> QED
    BY <1>4, <1>13, <1>14, <1>15, <1>16, <1>17, <1>18

-----------------------------------------------------------------------------
LEMMA InitProtocol == Init => D!TypeOK /\ Protocol!Init
  <1> SUFFICES ASSUME Init PROVE D!TypeOK /\ Protocol!Init
    OBVIOUS
  <1>1. Worth("empty") = "empty" /\ Worth("dangling") = "dangling"
    BY DEF Worth, E!Payloads
  <1> QED
    BY <1>1, SampleAssumption
    DEF Init, D!Init, D!TypeOK, D!Slots, Protocol!Init, Protocol!Slots

LEMMA InitIInv == Init => IInv
  <1> SUFFICES ASSUME Init PROVE IInv
    OBVIOUS
  <1>1. Camera!IInv /\ V!TypeOK
    BY SameCamera, Camera!InitIInv, SampleAssumption DEF Init, Camera!IInv
  <1>2. D!TypeOK /\ fin <= Limit /\ Queue!IInv
    BY InitProtocol, SameDeque, Queue!InitIInv, QueueAssumptions,
       SampleAssumption
    DEF Init, D!Init
  <1>6. Calling /\ Newest
    BY SampleAssumption DEF Init, D!Init, Calling, Newest, D!Slots
  <1>3. EncoderTypes
    <2>1. delayed \in 0 .. MaxDelay /\ ret \in {0, -1}
      BY SampleAssumption DEF Init
    <2> QED
      BY <2>1 DEF Init, EncoderTypes
  <1>4. ThreadTypes /\ Threads
    BY DEF Init, ThreadTypes, Threads, Finished
  <1>5. FrameLoop
    BY DEF Init, FrameLoop, V!Init, V!Streaming, Working
  <1> QED
    BY <1>1, <1>2, <1>3, <1>4, <1>5, <1>6, TypeParts DEF IInv

LEMMA NextIInv == IInv /\ [Next]_vars => IInv'
  <1> SUFFICES ASSUME IInv, [Next]_vars PROVE IInv'
    OBVIOUS
  <1>1. TypeOK'
    BY CameraNext, EncoderNext, TypesNext, ThreadsNext
    DEF TypeOK, EncoderTypes, ThreadTypes
  <1> QED
    BY <1>1, CameraNext, FrameLoopNext, ThreadsNext, QueueNext, CallingNext,
       NewestNext
    DEF IInv

LEMMA Invariant == Spec => []IInv
  BY InitIInv, NextIInv, PTL DEF Spec

-----------------------------------------------------------------------------
(* What follows *)

\* The type invariant of the program.
THEOREM TypeCorrect == Spec => []TypeOK
  <1>1. IInv => TypeOK
    BY DEF IInv
  <1> QED
    BY Invariant, <1>1, PTL

\* The capture thread, which looks at the server only once, before its loop,
\* never works on one that is not there, and never on a buffer of the driver.
THEOREM CaptureWorksOnOwnFrame == Spec => []WorksOnOwnFrame
  <1>1. ASSUME IInv, capture \in Working
        PROVE  /\ frame # NoFrame /\ frame < mapped /\ owner[frame] = "app"
               /\ server = "alive"
    <2>1. frame # NoFrame /\ V!Streaming
      BY <1>1 DEF IInv, FrameLoop, Threads, Working
    <2>2. frame < mapped /\ owner[frame] = "app"
      BY <1>1, <2>1
      DEF IInv, Camera!IInv, Camera!TypeOK, Camera!Progress, Camera!Ownership,
          V!Streaming
    <2>3. server = "alive"
      BY <1>1, TypeParts DEF IInv, ThreadTypes, Threads, Finished, Working
    <2> QED
      BY <2>1, <2>2, <2>3
  <1>2. IInv => WorksOnOwnFrame
    BY <1>1 DEF WorksOnOwnFrame, Working
  <1> QED
    BY Invariant, <1>2, PTL

\* delete rtsp comes after the last step of both threads, although a thread
\* lowers its own exit flag and a thread may never have been created.
THEOREM ServerIsDeletedLast == Spec => []ServerOutlivesThreads
  <1>1. IInv => ServerOutlivesThreads
    BY DEF IInv, Threads, Finished, ServerOutlivesThreads
  <1> QED
    BY Invariant, <1>1, PTL

\* However many frames libx264 delays: what the rtsp thread would take next is
\* the only payload that can still be valid.
THEOREM OnlyTopIsCurrent == Spec => []CurrentPayloadOnTop
  <1>1. IInv => CurrentPayloadOnTop
    BY TypeParts, SampleAssumption
    DEF IInv, Newest, CurrentPayloadOnTop, D!TypeOK, D!Slots
  <1> QED
    BY Invariant, <1>1, PTL

\* A thread that found room, or an element, still finds it when it pushes, or
\* takes, without a lock: nobody else pushes, nobody else takes, and the other
\* thread's stale cursors do not undo it either.
THEOREM TestsHoldUntilUse == Spec => []TestsStillHold
  <1>1. IInv => TestsStillHold
    BY TypeParts
    DEF IInv, Calling, Queue!IInv, Queue!Cursors, TestsStillHold, D!TypeOK,
        CaptureAt, RtspAt, Alive
  <1> QED
    BY Invariant, <1>1, PTL

\* The frame loop implements the capture protocol.
THEOREM KeepsCaptureProtocol == Spec => CaptureProtocol
  <1>1. Init => V!Init
    BY DEF Init
  <1> QED
    BY <1>1, Invariant, CameraStep, PTL DEF Spec, CaptureProtocol, V!Spec

\* So the program has what V4l2Capture_proofs shows of the protocol: no buffer
\* leaks or is queued twice, and the driver always has one, whatever the other
\* thread and libx264 do.
THEOREM InheritsCameraSafety ==
    Spec => [](/\ Camera!AppOwnsOnlyFrame /\ Camera!DriverNeverStarved
               /\ Camera!QbufNeverRejected /\ Camera!FrameIsMapped)
  <1>1. Init => Camera!Init
    BY SameCamera DEF Init
  <1>2. IInv /\ [Next]_vars => [Camera!Next]_Camera!vars
    BY CameraStep, SameCamera
  <1>3. Spec => Camera!Spec
    BY <1>1, <1>2, Invariant, PTL DEF Spec, Camera!Spec
  <1>4. Camera!Spec => []Camera!AppOwnsOnlyFrame
    BY Camera!NoBufferLeaks, SampleAssumption
  <1>5. Camera!Spec => []Camera!DriverNeverStarved
    BY Camera!DriverHasABuffer, SampleAssumption
  <1>6. Camera!Spec => []Camera!QbufNeverRejected
    BY Camera!NoDoubleQueue, SampleAssumption
  <1>7. Camera!Spec => []Camera!FrameIsMapped
    BY Camera!FrameAlwaysMapped, SampleAssumption
  <1> QED
    BY <1>3, <1>4, <1>5, <1>6, <1>7, PTL

-----------------------------------------------------------------------------
(* The deque's protocol *)

\* The three threads, from start-up to the deletion of the server, do nothing
\* to the deque that the two threads of FrameDeque do not.
THEOREM KeepsDequeProtocol == Spec => DequeProtocol
  <1>1. Init => Protocol!Init
    BY InitProtocol
  <1> QED
    BY <1>1, Invariant, QueueStep, PTL DEF Spec, DequeProtocol, Protocol!Spec

\* So the program has what FrameDeque_proofs shows of the unlocked deque: the
\* bounds and the order of its empty pointers with the race, and whole elements,
\* each destroyed as it was read, in every execution where no push_back has run
\* during a back() or pop_back().
THEOREM InheritsDequeSafety ==
    Spec => [](/\ Protocol!CursorInBounds /\ Protocol!NullsAtBottom
               /\ Protocol!IntactUnlessOverlap /\ Protocol!PopsWhatItRead)
  <1>1. IInv => /\ Protocol!CursorInBounds /\ Protocol!NullsAtBottom
                /\ Protocol!IntactUnlessOverlap /\ Protocol!PopsWhatItRead
    BY SampleAssumption
    DEF IInv, Queue!IInv, Queue!Cursors, Queue!Bottom, Queue!NullsFirst,
        Queue!Elements, Queue!Calls, Shown, Protocol!CursorInBounds,
        Protocol!NullsAtBottom, Protocol!IntactUnlessOverlap,
        Protocol!PopsWhatItRead, Protocol!Slots
  <1> QED
    BY <1>1, Invariant, PTL
=============================================================================

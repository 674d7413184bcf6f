------------------------------ MODULE FrameDeque ------------------------------
(***************************************************************************)
(* rtsp_server::m_framedq, the std::deque between the capture thread       *)
(* (main.cpp, task_uvc_capture_encode) and the rtsp thread (rtsp.cpp,      *)
(* rtsp_server_start).  Neither takes a lock, so the two run against each  *)
(* other one memory access at a time: a call on the deque is the loads and *)
(* stores that the library performs for it in this build (g++ -O0), one    *)
(* action each.  The library is external.                                  *)
(*                                                                         *)
(* The deque is its finish cursor "fin" and its slots.  A slot whose       *)
(* shared_ptr was destroyed keeps the bytes of the old pointer: "Dangling",*)
(* except that an empty pointer stays empty.  Touching a dangling pointer  *)
(* is undefined behaviour and ends the behaviour in "fault".               *)
(***************************************************************************)
EXTENDS Integers

CONSTANTS
    Limit,      \* m_dqlimit, 10 in the constructor
    Nalus,      \* what the producer pushes
    Null,       \* an empty shared_ptr, as resize() creates them
    Dangling    \* the bytes of a shared_ptr that is no longer alive

ASSUME LimitAssumption == Limit \in Nat \ {0}
ASSUME NaluAssumption ==
    Null \notin Nalus /\ Dangling \notin Nalus /\ Null # Dangling

VARIABLES
    fin,        \* _M_finish - _M_start, that is size()
    slots,      \* the element memory of the deque's node
    ppc, pcur, pnalu,   \* producer: next access, loaded cursor, local "nalu"
    cpc, ccur, cnalu,   \* consumer: the same
    fault,      \* an access to a dead pointer was made
    overlap     \* history: a push_back ran while the consumer was in back()
                \* or pop_back()

pvars == <<ppc, pcur, pnalu>>
cvars == <<cpc, ccur, cnalu>>
vars == <<fin, slots, ppc, pcur, pnalu, cpc, ccur, cnalu, fault, overlap>>

\* One slot past the limit is allocated memory of the same node.
Slots == 0 .. Limit

\* A call is under way: push_back, or back() followed by pop_back().
InPush(pc) == pc \in {"construct", "reload", "store"}
InTake(pc) == pc \in {"copy", "pop", "dec", "reload", "destroy"}

NoteOverlap == overlap' = (overlap \/ (InPush(ppc') /\ InTake(cpc')))

-----------------------------------------------------------------------------
(* The producer: the loop body over out.framenum. *)

\* Seeded variant: the limit itself is let through.
RoomOffByOne == fin <= Limit

Room == fin < Limit

\* Seeded variant: the nalu_data is allocated for some packets only.
CheckRoomPushesEmpty ==
    /\ ~fault /\ ppc = "idle"
    /\ Room
    /\ \E n \in Nalus \cup {Null} : pnalu' = n
    /\ ppc' = "push"
    /\ UNCHANGED <<fin, slots, pcur, cvars, fault>>
    /\ NoteOverlap

\* size() < m_dqlimit, then the new nalu_data; otherwise the NALU is dropped.
CheckRoom ==
    /\ ~fault /\ ppc = "idle"
    /\ Room
    /\ \E n \in Nalus : pnalu' = n
    /\ ppc' = "push"
    /\ UNCHANGED <<fin, slots, pcur, cvars, fault>>
    /\ NoteOverlap

\* push_back: load the cursor, ...
PushLoad ==
    /\ ~fault /\ ppc = "push"
    /\ pcur' = fin
    /\ ppc' = "construct"
    /\ UNCHANGED <<fin, slots, pnalu, cvars, fault>>
    /\ NoteOverlap

\* ... construct the copy there, ...
PushConstruct ==
    /\ ~fault /\ ppc = "construct"
    /\ slots' = [slots EXCEPT ![pcur] = pnalu]
    /\ ppc' = "reload"
    /\ UNCHANGED <<fin, pcur, pnalu, cvars, fault>>
    /\ NoteOverlap

\* ... and increment the cursor: a load ...
PushReload ==
    /\ ~fault /\ ppc = "reload"
    /\ pcur' = fin
    /\ ppc' = "store"
    /\ UNCHANGED <<fin, slots, pnalu, cvars, fault>>
    /\ NoteOverlap

\* Seeded variant: the deque holds raw pointers, and the end of the local
\* "nalu" takes the element with it.
PushStoreRaw ==
    /\ ~fault /\ ppc = "store"
    /\ fin' = pcur + 1
    /\ slots' = [slots EXCEPT ![pcur] = Dangling]
    /\ ppc' = "idle" /\ pnalu' = Null
    /\ UNCHANGED <<pcur, cvars, fault>>
    /\ NoteOverlap

\* ... and a store.  The local "nalu" goes out of scope.
PushStore ==
    /\ ~fault /\ ppc = "store"
    /\ fin' = pcur + 1
    /\ ppc' = "idle" /\ pnalu' = Null
    /\ UNCHANGED <<slots, pcur, cvars, fault>>
    /\ NoteOverlap

Produce == CheckRoom \/ PushLoad \/ PushConstruct \/ PushReload \/ PushStore

-----------------------------------------------------------------------------
(* The consumer: the loop of rtsp_server_start. *)

Something == fin # 0

CheckEmpty ==
    /\ ~fault /\ cpc = "idle"
    /\ Something
    /\ cpc' = "back"
    /\ UNCHANGED <<fin, slots, pvars, ccur, cnalu, fault>>
    /\ NoteOverlap

\* Seeded variant: front() in place of back().
BackLoadFront ==
    /\ ~fault /\ cpc = "back"
    /\ ccur' = 0
    /\ cpc' = "copy"
    /\ UNCHANGED <<fin, slots, pvars, cnalu, fault>>
    /\ NoteOverlap

\* back() computes the address of the last element, ...
BackLoad ==
    /\ ~fault /\ cpc = "back"
    /\ ccur' = fin - 1
    /\ cpc' = "copy"
    /\ UNCHANGED <<fin, slots, pvars, cnalu, fault>>
    /\ NoteOverlap

\* Seeded variant: the element is copied and pop_back is not called.
BackCopyWithoutPop ==
    /\ ~fault /\ cpc = "copy"
    /\ fault' = (slots[ccur] = Dangling)
    /\ cpc' = "idle"
    /\ UNCHANGED <<fin, slots, pvars, ccur, cnalu>>
    /\ NoteOverlap

\* ... and the local shared_ptr is copied from it.
BackCopy ==
    /\ ~fault /\ cpc = "copy"
    /\ cnalu' = slots[ccur]
    /\ fault' = (slots[ccur] = Dangling)
    /\ cpc' = "pop"
    /\ UNCHANGED <<fin, slots, pvars, ccur>>
    /\ NoteOverlap

\* pop_back: decrement the cursor (a load and a store), ...
PopLoad ==
    /\ ~fault /\ cpc = "pop"
    /\ ccur' = fin
    /\ cpc' = "dec"
    /\ UNCHANGED <<fin, slots, pvars, cnalu, fault>>
    /\ NoteOverlap

PopStore ==
    /\ ~fault /\ cpc = "dec"
    /\ fin' = ccur - 1
    /\ cpc' = "reload"
    /\ UNCHANGED <<slots, pvars, ccur, cnalu, fault>>
    /\ NoteOverlap

\* ... load it again and destroy the element there.
PopReload ==
    /\ ~fault /\ cpc = "reload"
    /\ ccur' = fin
    /\ cpc' = "destroy"
    /\ UNCHANGED <<fin, slots, pvars, cnalu, fault>>
    /\ NoteOverlap

Destroyed(v) == IF v = Null THEN Null ELSE Dangling

\* Seeded variant: pop_back called twice for one empty() test.
PopDestroyAndPopAgain ==
    /\ ~fault /\ cpc = "destroy"
    /\ slots' = [slots EXCEPT ![ccur] = Destroyed(@)]
    /\ fault' = (slots[ccur] = Dangling)
    /\ cpc' = "pop" /\ cnalu' = Null
    /\ UNCHANGED <<fin, pvars, ccur>>
    /\ NoteOverlap

PopDestroy ==
    /\ ~fault /\ cpc = "destroy"
    /\ slots' = [slots EXCEPT ![ccur] = Destroyed(@)]
    /\ fault' = (slots[ccur] = Dangling)
    /\ cpc' = "idle" /\ cnalu' = Null
    /\ UNCHANGED <<fin, pvars, ccur>>
    /\ NoteOverlap

Take == \/ CheckEmpty \/ BackLoad \/ BackCopy
        \/ PopLoad \/ PopStore \/ PopReload \/ PopDestroy

-----------------------------------------------------------------------------
\* ~rtsp_server: m_framedq.clear() destroys the elements one after the other.
ClearDeque ==
    /\ fault' = \E i \in 0 .. fin - 1 : slots[i] = Dangling
    /\ slots' = [i \in Slots |-> IF i < fin THEN Destroyed(slots[i]) ELSE slots[i]]
    /\ fin' = 0
    /\ ppc' = "ended" /\ cpc' = "ended"
    /\ UNCHANGED <<pcur, pnalu, ccur, cnalu>>
    /\ NoteOverlap

\* It may only be called after both threads have left their loops.
Clear ==
    /\ ~fault /\ ppc = "idle" /\ cpc = "idle"
    /\ ClearDeque

\* rtsp_server::rtsp_server: resize(m_dqlimit) on an empty deque.
Init ==
    /\ fin = Limit
    /\ slots = [i \in Slots |-> IF i < Limit THEN Null ELSE Dangling]
    /\ ppc = "idle" /\ pcur = 0 /\ pnalu = Null
    /\ cpc = "idle" /\ ccur = 0 /\ cnalu = Null
    /\ fault = FALSE /\ overlap = FALSE

Next == Produce \/ Take \/ Clear

Spec == Init /\ [][Next]_vars

\* Both threads are scheduled; nobody need ever destroy the server.
LiveSpec == Spec /\ WF_vars(Produce) /\ WF_vars(Take)

\* The executions in which the calls of the two threads never overlap, as
\* they would with a lock around push_back and around back() and pop_back().
SerialSpec == Init /\ [][Next /\ ~overlap']_vars

-----------------------------------------------------------------------------
(* Properties *)

TypeOK ==
    /\ fin \in Nat
    /\ slots \in [Slots -> Nalus \cup {Null, Dangling}]
    /\ ppc \in {"idle", "push", "construct", "reload", "store", "ended"}
    /\ pcur \in Nat /\ pnalu \in Nalus \cup {Null}
    /\ cpc \in {"idle", "back", "copy", "pop", "dec", "reload", "destroy",
               "ended"}
    /\ ccur \in Int /\ cnalu \in Nalus \cup {Null, Dangling}
    /\ fault \in BOOLEAN /\ overlap \in BOOLEAN

\* Even with the race, the cursor never leaves the deque's one node: the
\* size stays within m_dqlimit, and pop_back never finds the deque empty.
CursorInBounds ==
    /\ fin \in 0 .. Limit
    /\ cpc \in {"back", "pop"} => fin > 0
    /\ ppc \in {"construct", "store"} => pcur \in 0 .. Limit - 1
    /\ cpc \in {"copy", "destroy"} => ccur \in Slots

\* No dead pointer is in the deque and none is touched, as long as no
\* push_back has run during the consumer's back() or pop_back().
IntactUnlessOverlap ==
    ~overlap => ~fault /\ \A i \in 0 .. fin - 1 : slots[i] # Dangling

\* Under the same condition pop_back destroys the element back() returned:
\* no NALU is delivered twice and none is destroyed unread.
PopsWhatItRead ==
    ~overlap /\ cpc = "destroy" => slots[ccur] = cnalu

\* The empty pointers the constructor put in lie below every real NALU, so the
\* consumer meets them only after all the NALUs, newest first.  This even the
\* race does not change: a stale cursor never raises the size over slots that
\* the producer has not written.
NullsAtBottom ==
    \A j \in 0 .. fin - 1 : \A i \in 0 .. j :
        slots[j] = Null => slots[i] = Null

\* A full deque is drained again, so frames are not dropped for ever.
FullIsDrained == (fin = Limit) ~> (fin < Limit \/ fault)

\* Until calls overlap, every step of either thread is a step of the bounded
\* stack, or none.
elements == [i \in 1 .. fin |-> slots[i - 1]]
Stack == INSTANCE BoundedStack WITH stack <- elements
StackUntilOverlap ==
    [][~overlap' => Stack!Next \/ UNCHANGED elements]_vars
=============================================================================

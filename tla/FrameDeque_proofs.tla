-------------------------- MODULE FrameDeque_proofs --------------------------
(***************************************************************************)
(* What holds of the unlocked deque for every limit and every set of       *)
(* NALUs, and that it is the bounded stack when its calls do not overlap.  *)
(***************************************************************************)
EXTENDS FrameDeque, SequenceTheorems, TLAPS

\* Where the cursor and its loaded copies may be, race or no race.
Cursors ==
    /\ fin \in 0 .. Limit
    /\ ppc \in {"push", "construct", "reload", "store"} => fin < Limit
    /\ ppc \in {"construct", "reload", "store"} => pcur \in 0 .. Limit - 1
    /\ cpc \in {"back", "copy", "pop"} => fin > 0
    /\ cpc = "copy" => ccur \in 0 .. Limit - 1
    /\ cpc = "dec" => ccur \in 1 .. Limit
    /\ cpc = "destroy" => ccur \in 0 .. Limit

\* What a call under way knows of the deque while the other thread is in none.
Calls ==
    /\ ~(InPush(ppc) /\ InTake(cpc))
    /\ ppc \in {"construct", "store"} => pcur = fin
    /\ ppc \in {"reload", "store"} => slots[fin] = pnalu
    /\ cpc \in {"copy"} => ccur = fin - 1
    /\ cpc \in {"pop", "dec"} => cnalu = slots[fin - 1]
    /\ cpc = "dec" => fin > 0
    /\ cpc \in {"dec", "destroy"} => ccur = fin
    /\ cpc \in {"reload", "destroy"} => fin < Limit /\ cnalu = slots[fin]
    /\ cpc \in {"pop", "dec", "reload", "destroy"} => cnalu # Dangling

\* What the elements are then.
Elements ==
    /\ ~fault
    /\ \A i \in 0 .. fin - 1 : slots[i] # Dangling
    /\ ppc \notin {"idle", "ended"} => pnalu \in Nalus

\* The empty pointers among the first n slots come first.
NullsFirst(n) ==
    \A j \in 0 .. n - 1 : \A i \in 0 .. j : slots[j] = Null => slots[i] = Null

\* Race or no race: only the producer raises the size, and never over a slot
\* where the empty pointers would not come first.
Bottom ==
    /\ NullsFirst(fin)
    /\ ppc \notin {"idle", "ended"} => pnalu # Null
    /\ ppc \in {"construct", "reload", "store"} => fin <= pcur
    /\ ppc = "construct" => NullsFirst(pcur)
    /\ ppc \in {"reload", "store"} => NullsFirst(pcur + 1)
    /\ cpc = "dec" => ccur <= fin

IInv == TypeOK /\ Cursors /\ Bottom /\ (~overlap => Calls /\ Elements)

-----------------------------------------------------------------------------
LEMMA LimitNat == Limit \in Nat /\ Limit > 0
  BY LimitAssumption

\* Everything holds of the deque the constructor fills.
LEMMA InitIInv == Init => IInv
  <1> SUFFICES ASSUME Init PROVE IInv
    OBVIOUS
  <1> USE LimitNat
  <1>f. fault \in BOOLEAN /\ overlap \in BOOLEAN /\ ~fault /\ ~overlap
    BY DEF Init
  <1>p. /\ fin = Limit
        /\ ppc = "idle" /\ pcur = 0 /\ pnalu = Null
        /\ cpc = "idle" /\ ccur = 0 /\ cnalu = Null
    BY DEF Init
  <1>s. slots \in [Slots -> Nalus \cup {Null, Dangling}]
    BY DEF Init, Slots
  <1>i. \A i \in 0 .. Limit - 1 : slots[i] = Null
    BY DEF Init, Slots
  <1>1. TypeOK
    BY <1>f, <1>p, <1>s DEF TypeOK
  <1>2. Cursors
    BY <1>p DEF Cursors
  <1>3. Calls
    BY <1>p DEF Calls, InPush, InTake
  <1>4. Elements
    <2>1. ~fault
      BY <1>f
    <2>2. \A i \in 0 .. fin - 1 : slots[i] # Dangling
      BY <1>p, <1>i, NaluAssumption
    <2> QED
      BY <1>p, <2>1, <2>2 DEF Elements
  <1>5. Bottom
    BY <1>p, <1>i DEF Bottom, NullsFirst
  <1> QED
    BY <1>1, <1>2, <1>3, <1>4, <1>5 DEF IInv

\* Types and cursor bounds are preserved by every step, overlapping or not.
LEMMA NextCursors == TypeOK /\ Cursors /\ [Next]_vars => TypeOK' /\ Cursors'
  <1> SUFFICES ASSUME TypeOK, Cursors, [Next]_vars PROVE TypeOK' /\ Cursors'
    OBVIOUS
  <1> USE LimitNat DEF TypeOK, Cursors, pvars, cvars
  <1>1. CASE CheckRoom
    <2>1. TypeOK'
      BY <1>1 DEF CheckRoom, NoteOverlap, InPush, InTake, Room
    <2>2. Cursors'
      BY <1>1 DEF CheckRoom, Room
    <2> QED
      BY <2>1, <2>2
  <1>2. CASE PushLoad
    <2>1. TypeOK'
      BY <1>2 DEF PushLoad, NoteOverlap, InPush, InTake
    <2>2. Cursors'
      BY <1>2 DEF PushLoad
    <2> QED
      BY <2>1, <2>2
  <1>3. CASE PushConstruct
    <2>1. TypeOK'
      BY <1>3 DEF PushConstruct, NoteOverlap, InPush, InTake
    <2>2. Cursors'
      BY <1>3 DEF PushConstruct
    <2> QED
      BY <2>1, <2>2
  <1>4. CASE PushReload
    <2>1. TypeOK'
      BY <1>4 DEF PushReload, NoteOverlap, InPush, InTake
    <2>2. Cursors'
      BY <1>4 DEF PushReload
    <2> QED
      BY <2>1, <2>2
  <1>5. CASE PushStore
    <2>1. TypeOK'
      BY <1>5 DEF PushStore, NoteOverlap, InPush, InTake
    <2>2. Cursors'
      BY <1>5 DEF PushStore
    <2> QED
      BY <2>1, <2>2
  <1>6. CASE CheckEmpty
    <2>1. TypeOK'
      BY <1>6 DEF CheckEmpty, NoteOverlap, InPush, InTake, Something
    <2>2. Cursors'
      BY <1>6 DEF CheckEmpty, Something
    <2> QED
      BY <2>1, <2>2
  <1>7. CASE BackLoad
    <2>1. TypeOK'
      BY <1>7 DEF BackLoad, NoteOverlap, InPush, InTake
    <2>2. Cursors'
      BY <1>7 DEF BackLoad
    <2> QED
      BY <2>1, <2>2
  <1>8. CASE BackCopy
    <2>1. TypeOK'
      BY <1>8 DEF BackCopy, NoteOverlap, InPush, InTake, Slots
    <2>2. Cursors'
      BY <1>8 DEF BackCopy, Slots
    <2> QED
      BY <2>1, <2>2
  <1>9. CASE PopLoad
    <2>1. TypeOK'
      BY <1>9 DEF PopLoad, NoteOverlap, InPush, InTake
    <2>2. Cursors'
      BY <1>9 DEF PopLoad
    <2> QED
      BY <2>1, <2>2
  <1>10. CASE PopStore
    <2>1. TypeOK'
      BY <1>10 DEF PopStore, NoteOverlap, InPush, InTake
    <2>2. Cursors'
      BY <1>10 DEF PopStore
    <2> QED
      BY <2>1, <2>2
  <1>11. CASE PopReload
    <2>1. TypeOK'
      BY <1>11 DEF PopReload, NoteOverlap, InPush, InTake
    <2>2. Cursors'
      BY <1>11 DEF PopReload
    <2> QED
      BY <2>1, <2>2
  <1>12. CASE PopDestroy
    <2>1. TypeOK'
      BY <1>12 DEF PopDestroy, NoteOverlap, InPush, InTake, Destroyed
    <2>2. Cursors'
      BY <1>12 DEF PopDestroy, Destroyed
    <2> QED
      BY <2>1, <2>2
  <1>13. CASE Clear
    <2>1. TypeOK'
      BY <1>13 DEF Clear, ClearDeque, NoteOverlap, InPush, InTake, Destroyed
    <2>2. Cursors'
      BY <1>13 DEF Clear, ClearDeque, Destroyed
    <2> QED
      BY <2>1, <2>2
  <1>14. CASE UNCHANGED vars
    BY <1>14 DEF vars
  <1> QED
    BY <1>1, <1>2, <1>3, <1>4, <1>5, <1>6, <1>7, <1>8, <1>9, <1>10, <1>11, <1>12, <1>13, <1>14
    DEF Next, Produce, Take

\* As long as no calls have overlapped, what they know stays true.
LEMMA NextCalls ==
  ASSUME IInv, [Next]_vars, ~overlap'
  PROVE  Calls' /\ Elements'
  <1> USE LimitNat, NaluAssumption DEF IInv, TypeOK, Cursors, Calls, Elements,
                                      InPush, InTake, Slots, pvars, cvars
  <1>0. CASE UNCHANGED vars
    BY <1>0 DEF vars
  <1> SUFFICES ASSUME Next PROVE Calls' /\ Elements'
    BY <1>0
  <1> ~overlap /\ Calls /\ Elements
    BY DEF Next, Produce, Take, CheckRoom, PushLoad, PushConstruct, PushReload,
           PushStore, CheckEmpty, BackLoad, BackCopy, PopLoad, PopStore,
           PopReload, PopDestroy, Clear, ClearDeque, NoteOverlap
  <1> ~(InPush(ppc') /\ InTake(cpc'))
    BY DEF Next, Produce, Take, CheckRoom, PushLoad, PushConstruct, PushReload,
           PushStore, CheckEmpty, BackLoad, BackCopy, PopLoad, PopStore,
           PopReload, PopDestroy, Clear, ClearDeque, NoteOverlap
  <1>1. CASE CheckRoom
    <2>1. Calls'
      BY <1>1 DEF CheckRoom, Room
    <2>2. Elements'
      BY <1>1 DEF CheckRoom, Room
    <2> QED
      BY <2>1, <2>2
  <1>2. CASE PushLoad
    <2>1. Calls'
      BY <1>2 DEF PushLoad
    <2>2. Elements'
      BY <1>2 DEF PushLoad
    <2> QED
      BY <2>1, <2>2
  <1>3. CASE PushConstruct
    <2>1. Calls'
      BY <1>3 DEF PushConstruct
    <2>2. Elements'
      BY <1>3 DEF PushConstruct
    <2> QED
      BY <2>1, <2>2
  <1>4. CASE PushReload
    <2>1. Calls'
      BY <1>4 DEF PushReload
    <2>2. Elements'
      BY <1>4 DEF PushReload
    <2> QED
      BY <2>1, <2>2
  <1>5. CASE PushStore
    <2>1. Calls'
      BY <1>5 DEF PushStore
    <2>2. Elements'
      BY <1>5 DEF PushStore
    <2> QED
      BY <2>1, <2>2
  <1>6. CASE CheckEmpty
    <2>1. Calls'
      BY <1>6 DEF CheckEmpty, Something
    <2>2. Elements'
      BY <1>6 DEF CheckEmpty, Something
    <2> QED
      BY <2>1, <2>2
  <1>7. CASE BackLoad
    <2>1. Calls'
      BY <1>7 DEF BackLoad
    <2>2. Elements'
      BY <1>7 DEF BackLoad
    <2> QED
      BY <2>1, <2>2
  <1>8. CASE BackCopy
    <2>1. Calls'
      BY <1>8 DEF BackCopy
    <2>2. Elements'
      BY <1>8 DEF BackCopy
    <2> QED
      BY <2>1, <2>2
  <1>9. CASE PopLoad
    <2>1. Calls'
      BY <1>9 DEF PopLoad
    <2>2. Elements'
      BY <1>9 DEF PopLoad
    <2> QED
      BY <2>1, <2>2
  <1>10. CASE PopStore
    <2>1. Calls'
      BY <1>10 DEF PopStore
    <2>2. Elements'
      BY <1>10 DEF PopStore
    <2> QED
      BY <2>1, <2>2
  <1>11. CASE PopReload
    <2>1. Calls'
      BY <1>11 DEF PopReload
    <2>2. Elements'
      BY <1>11 DEF PopReload
    <2> QED
      BY <2>1, <2>2
  <1>12. CASE PopDestroy
    <2>1. Calls'
      BY <1>12 DEF PopDestroy, Destroyed
    <2>2. Elements'
      BY <1>12 DEF PopDestroy, Destroyed
    <2> QED
      BY <2>1, <2>2
  <1>13. CASE Clear
    <2>1. Calls'
      BY <1>13 DEF Clear, ClearDeque, Destroyed
    <2>2. Elements'
      BY <1>13 DEF Clear, ClearDeque, Destroyed
    <2> QED
      BY <2>1, <2>2
  <1> QED
    BY <1>1, <1>2, <1>3, <1>4, <1>5, <1>6, <1>7, <1>8, <1>9, <1>10, <1>11, <1>12, <1>13
    DEF Next, Produce, Take

\* What is empty stays empty or is written by the producer, and what is not
\* never becomes empty: only PushConstruct can disturb the order.
LEMMA SlotsKeepNulls ==
  ASSUME TypeOK, Cursors, Next, ~PushConstruct
  PROVE  \A i \in Slots : slots'[i] = Null <=> slots[i] = Null
  <1> USE NaluAssumption, LimitNat DEF TypeOK, Cursors, Destroyed, Slots
  <1>1. CASE PopDestroy
    BY <1>1 DEF PopDestroy
  <1>2. CASE Clear
    BY <1>2 DEF Clear, ClearDeque
  <1>3. CASE UNCHANGED slots
    BY <1>3
  <1> QED
    BY <1>1, <1>2, <1>3 DEF Next, Produce, Take, CheckRoom, PushLoad,
       PushReload, PushStore, CheckEmpty, BackLoad, BackCopy, PopLoad,
       PopStore, PopReload, cvars, pvars

\* Hence every other step keeps the order among any n slots, ...
LEMMA NullsFirstKept ==
  ASSUME TypeOK, Cursors, Next, ~PushConstruct,
         NEW n \in 0 .. Limit, NEW m \in 0 .. n, NullsFirst(n)
  PROVE  NullsFirst(m)'
  BY SlotsKeepNulls, LimitNat DEF NullsFirst, Slots

\* ... and the producer's slot extends it, in front of nothing.
LEMMA NullsFirstConstruct ==
  ASSUME TypeOK, Cursors, Bottom, PushConstruct
  PROVE  NullsFirst(pcur + 1)' /\ NullsFirst(fin)'
  BY LimitNat DEF PushConstruct, NullsFirst, TypeOK, Cursors, Bottom, Slots

LEMMA NextBottom == TypeOK /\ Cursors /\ Bottom /\ [Next]_vars => Bottom'
  <1> SUFFICES ASSUME TypeOK, Cursors, Bottom, Next PROVE Bottom'
    BY DEF vars, Bottom, NullsFirst
  <1> USE LimitNat, NaluAssumption DEF TypeOK, Cursors, pvars, cvars
  <1>1. CASE PushConstruct
    BY <1>1, NullsFirstConstruct DEF PushConstruct, Bottom
  <1>2. CASE CheckRoom
    BY <1>2, NullsFirstKept DEF CheckRoom, Bottom, PushConstruct
  <1>3. CASE PushLoad
    BY <1>3, NullsFirstKept DEF PushLoad, Bottom, PushConstruct
  <1>4. CASE PushReload
    BY <1>4, NullsFirstKept DEF PushReload, Bottom, PushConstruct
  <1>5. CASE PushStore
    BY <1>5, NullsFirstKept DEF PushStore, Bottom, PushConstruct
  <1>6. CASE CheckEmpty \/ BackLoad \/ BackCopy \/ PopReload \/ PopDestroy
    BY <1>6, NullsFirstKept DEF CheckEmpty, BackLoad, BackCopy, PopReload,
       PopDestroy, Bottom, PushConstruct
  <1>7. CASE PopLoad
    BY <1>7, NullsFirstKept DEF PopLoad, Bottom, PushConstruct
  <1>8. CASE PopStore
    BY <1>8, NullsFirstKept DEF PopStore, Bottom, PushConstruct
  <1>9. CASE Clear
    BY <1>9 DEF Clear, ClearDeque, Bottom, NullsFirst
  <1> QED
    BY <1>1, <1>2, <1>3, <1>4, <1>5, <1>6, <1>7, <1>8, <1>9
    DEF Next, Produce, Take

LEMMA NextIInv == IInv /\ [Next]_vars => IInv'
  BY NextCursors, NextBottom, NextCalls DEF IInv

LEMMA SpecIInv == Spec => []IInv
  BY InitIInv, NextIInv, PTL DEF Spec

-----------------------------------------------------------------------------
\* Every variable keeps its type.
THEOREM TypeCorrect == Spec => []TypeOK
  <1>1. IInv => TypeOK
    BY DEF IInv
  <1> QED
    BY <1>1, SpecIInv, PTL

\* The race never drives the cursor out of the deque's node.
THEOREM CursorStaysInBounds == Spec => []CursorInBounds
  <1>1. IInv => CursorInBounds
    BY LimitNat DEF IInv, Cursors, CursorInBounds, Slots
  <1> QED
    BY <1>1, SpecIInv, PTL

\* Only an overlap of push_back with back() and pop_back() does damage.
THEOREM OverlapIsTheOnlyDanger == Spec => []IntactUnlessOverlap
  <1>1. IInv => IntactUnlessOverlap
    BY DEF IInv, Elements, IntactUnlessOverlap
  <1> QED
    BY <1>1, SpecIInv, PTL

\* Without it, the element destroyed is the element read.
THEOREM TakesWhatItRead == Spec => []PopsWhatItRead
  <1>1. IInv => PopsWhatItRead
    BY DEF IInv, Calls, PopsWhatItRead
  <1> QED
    BY <1>1, SpecIInv, PTL

\* With or without it, the constructor's empty pointers stay below every NALU.
THEOREM NullsStayAtBottom == Spec => []NullsAtBottom
  <1>1. IInv => NullsAtBottom
    BY DEF IInv, Bottom, NullsFirst, NullsAtBottom
  <1> QED
    BY <1>1, SpecIInv, PTL

-----------------------------------------------------------------------------
(* The serial executions implement the bounded stack.                        *)

Values == Nalus \cup {Null, Dangling}

\* The stack of FrameDeque's refinement mapping.
Elems(f, s) == [i \in 1 .. f |-> s[i - 1]]

LEMMA ElemsLen ==
  ASSUME NEW f \in Nat, NEW s \in [Slots -> Values], f <= Limit
  PROVE  Elems(f, s) \in Seq(Values) /\ Len(Elems(f, s)) = f
  BY LimitNat DEF Elems, Slots

\* One more element at the end.
LEMMA ElemsAppend ==
  ASSUME NEW f \in Nat, NEW s \in [Slots -> Values], f < Limit
  PROVE  Elems(f + 1, s) = Append(Elems(f, s), s[f])
  <1>1. /\ Elems(f, s) \in Seq(Values) /\ Len(Elems(f, s)) = f
        /\ Elems(f + 1, s) \in Seq(Values) /\ Len(Elems(f + 1, s)) = f + 1
    BY LimitNat, ElemsLen
  <1>2. s[f] \in Values
    BY LimitNat DEF Slots
  <1>3. \A i \in 1 .. f : Elems(f + 1, s)[i] = Elems(f, s)[i]
    BY DEF Elems
  <1>4. Elems(f + 1, s)[f + 1] = s[f]
    BY DEF Elems
  <1> QED
    BY <1>1, <1>2, <1>3, <1>4, AppendProperties, SeqEqual

\* One element fewer.
LEMMA ElemsPop ==
  ASSUME NEW f \in Nat, NEW s \in [Slots -> Values], f <= Limit, f > 0
  PROVE  Elems(f - 1, s) = SubSeq(Elems(f, s), 1, f - 1)
  <1>1. /\ Elems(f, s) \in Seq(Values) /\ Len(Elems(f, s)) = f
        /\ Elems(f - 1, s) \in Seq(Values) /\ Len(Elems(f - 1, s)) = f - 1
    BY LimitNat, ElemsLen
  <1>2. \A i \in 1 .. f - 1 : Elems(f - 1, s)[i] = Elems(f, s)[i]
    BY DEF Elems
  <1>3. /\ SubSeq(Elems(f, s), 1, f - 1) \in Seq(Values)
        /\ Len(SubSeq(Elems(f, s), 1, f - 1)) = f - 1
        /\ \A i \in 1 .. f - 1 :
             SubSeq(Elems(f, s), 1, f - 1)[i] = Elems(f, s)[i]
    BY <1>1, SubSeqProperties
  <1> QED
    BY <1>1, <1>2, <1>3, SeqEqual

\* What lies past the end does not matter.
LEMMA ElemsBeyond ==
  ASSUME NEW f \in Nat, NEW s, NEW t, \A i \in 0 .. f - 1 : s[i] = t[i]
  PROVE  Elems(f, s) = Elems(f, t)
  BY DEF Elems

LEMMA SerialInit == Init => Stack!Init
  <1> SUFFICES ASSUME Init PROVE Elems(fin, slots) = [i \in 1 .. Limit |-> Null]
    BY DEF Stack!Init, Elems, elements
  <1>1. fin = Limit
    BY DEF Init
  <1>2. \A i \in 0 .. Limit - 1 : slots[i] = Null
    BY LimitNat DEF Init, Slots
  <1> QED
    BY <1>1, <1>2, LimitNat DEF Elems

LEMMA SerialNext ==
  ASSUME IInv, ~overlap, [Next /\ ~overlap']_vars
  PROVE  Stack!Next \/ Elems(fin, slots)' = Elems(fin, slots)
  <1> USE LimitNat, NaluAssumption
  <1>1. /\ fin \in Nat /\ fin <= Limit /\ slots \in [Slots -> Values]
        /\ Calls /\ Elements /\ Cursors /\ TypeOK
    BY DEF IInv, TypeOK, Cursors, Values
  <1>2. IInv' /\ (~overlap' => Calls' /\ Elements')
    BY NextIInv DEF IInv
  <1>3. CASE PushConstruct
    <2>1. fin' = fin /\ \A i \in 0 .. fin - 1 : slots'[i] = slots[i]
      BY <1>1, <1>3 DEF PushConstruct, Calls, Slots
    <2> QED
      BY <1>1, <2>1, ElemsBeyond
  <1>4. CASE PushStore
    <2>1. /\ fin' = fin + 1 /\ slots' = slots /\ fin < Limit
          /\ slots[fin] \in Nalus
      BY <1>1, <1>4 DEF PushStore, Calls, Elements, Cursors
    <2>2. Elems(fin, slots)' = Append(Elems(fin, slots), slots[fin])
      BY <1>1, <2>1, ElemsAppend
    <2>3. Stack!Push
      BY <1>1, <2>1, <2>2, ElemsLen DEF Stack!Push, Elems, elements
    <2> QED
      BY <2>3 DEF Stack!Next
  <1>5. CASE PopStore
    <2>1. fin' = fin - 1 /\ slots' = slots /\ fin > 0
      BY <1>1, <1>5 DEF PopStore, Calls
    <2>2. Elems(fin, slots)' = SubSeq(Elems(fin, slots), 1, fin - 1)
      BY <1>1, <2>1, ElemsPop
    <2>3. Stack!Pop
      BY <1>1, <2>1, <2>2, ElemsLen DEF Stack!Pop, Elems, elements
    <2> QED
      BY <2>3 DEF Stack!Next
  <1>6. CASE PopDestroy
    <2>1. fin' = fin /\ \A i \in 0 .. fin - 1 : slots'[i] = slots[i]
      BY <1>1, <1>6 DEF PopDestroy, Calls, Slots
    <2> QED
      BY <1>1, <2>1, ElemsBeyond
  <1>7. CASE Clear
    <2>1. fin' = 0
      BY <1>7 DEF Clear, ClearDeque
    <2>2. Elems(fin, slots)' = <<>>
      BY <2>1 DEF Elems
    <2> QED
      BY <2>2 DEF Stack!Next, Stack!Clear, Elems, elements
  <1>8. CASE UNCHANGED <<fin, slots>>
    BY <1>8 DEF Elems
  <1>9. UNCHANGED <<fin, slots>> \/ PushConstruct \/ PushStore \/ PopStore
        \/ PopDestroy \/ Clear
    BY DEF vars, cvars, pvars, Next, Produce, Take, CheckRoom, PushLoad,
           PushReload, CheckEmpty, BackLoad, BackCopy, PopLoad, PopReload
  <1> QED
    BY <1>3, <1>4, <1>5, <1>6, <1>7, <1>8, <1>9

\* As long as the calls do not overlap the deque steps like the stack, ...
THEOREM StepsLikeAStack == Spec => StackUntilOverlap
  <1>1. IInv /\ [Next]_vars
          => [~overlap' => Stack!Next \/ UNCHANGED elements]_vars
    <2> SUFFICES ASSUME IInv, Next, ~overlap'
                 PROVE  Stack!Next \/ UNCHANGED elements
      OBVIOUS
    <2>1. ~overlap
      BY DEF Next, Produce, Take, CheckRoom, PushLoad, PushConstruct,
             PushReload, PushStore, CheckEmpty, BackLoad, BackCopy, PopLoad,
             PopStore, PopReload, PopDestroy, Clear, ClearDeque, NoteOverlap
    <2> QED
      BY <2>1, SerialNext DEF Elems, elements
  <1> QED
    BY <1>1, SpecIInv, PTL DEF Spec, StackUntilOverlap

\* ... and the executions without overlaps, as a lock around the calls would
\* leave them, are those of a stack of at most Limit elements.
THEOREM SerialIsStack == SerialSpec => Stack!Spec
  <1>1. Init => Stack!Init /\ IInv /\ ~overlap
    BY SerialInit, InitIInv DEF Init
  <1>2. IInv /\ ~overlap /\ [Next /\ ~overlap']_vars => IInv' /\ ~overlap'
    BY NextIInv DEF vars
  <1>3. IInv /\ ~overlap /\ [Next /\ ~overlap']_vars => [Stack!Next]_elements
    BY SerialNext DEF Elems, elements
  <1> QED
    BY <1>1, <1>2, <1>3, PTL DEF SerialSpec, Stack!Spec
=============================================================================

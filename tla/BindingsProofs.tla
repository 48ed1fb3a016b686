--------------------------- MODULE BindingsProofs ---------------------------
(***************************************************************************)
(* Ownership of handles, proved for any number of objects and addresses,   *)
(* any schemas and any number of calls: every handle has one owner, leads  *)
(* into itself only, and a snapshot stays as it was taken.                 *)
(***************************************************************************)
EXTENDS Bindings, FiniteSetTheorems, WellFoundedInduction, TLAPS

\* What residc_codec_create allocates, whatever has been coded since.
IsHandle(h) ==
    h = [types |-> h.types, schema |-> h.schema, fields |-> h.fields, coded |-> h.coded]

IsSnapshot(s) ==
    /\ s = [ptr |-> s.ptr, phase |-> s.phase, coded |-> s.coded]
    /\ s.ptr \in Addr \cup {NULL}

\* The shape of the objects.  A constructor runs for an object that is not
\* there yet, so what it overwrites must not be the only pointer to a handle.
Shape ==
    /\ \A a \in DOMAIN heap : IsHandle(heap[a])
    /\ codec \in [Codecs -> [ptr : Addr \cup {NULL}, phase : Phase]]
    /\ snapshot = [c \in Codecs |-> snapshot[c]]
    /\ \A c \in Codecs : IsSnapshot(snapshot[c])
    /\ \A c \in Codecs : codec[c].phase = "none" => codec[c].ptr = NULL
    /\ \A c \in Codecs : snapshot[c].phase = "none" => snapshot[c].ptr = NULL

Owned == Shape /\ OneOwner /\ SnapshotKept

-----------------------------------------------------------------------------
\* A place is one that is not allocated.
LEMMA PlaceIsFree ==
    ASSUME Free(heap) # {}
    PROVE  Place(heap) \in Addr /\ Place(heap) \notin DOMAIN heap
BY DEF Place, Free

\* Every pointer of an object that is not NULL leads to a handle.
LEMMA PointersLead ==
    ASSUME Owned, NEW c \in Codecs
    PROVE  /\ codec[c].ptr # NULL => codec[c].ptr \in DOMAIN heap
           /\ snapshot[c].ptr # NULL => snapshot[c].ptr \in DOMAIN heap
BY DEF Owned, OneOwner, Pointers

\* A call that leaves all pointers as they are and changes what was coded by
\* the handle of one codec keeps everything.
LEMMA CodingKeeps ==
    ASSUME Owned, NEW c \in Codecs, NEW coded,
           codec[c].ptr # NULL,
           heap' = [heap EXCEPT ![codec[c].ptr] = [@ EXCEPT !.coded = coded]],
           UNCHANGED <<codec, snapshot>>
    PROVE  Owned'
<1> DEFINE p == codec[c].ptr
<1>1. p \in DOMAIN heap
  BY PointersLead
<1>2. DOMAIN heap' = DOMAIN heap
  OBVIOUS
<1>3. \A a \in DOMAIN heap : a # p => heap'[a] = heap[a]
  OBVIOUS
<1>4. heap'[p] = [heap[p] EXCEPT !.coded = coded]
  BY <1>1
<1>5. IsHandle(heap[p])
  BY <1>1 DEF Owned, Shape
<1>6. /\ IsHandle(heap'[p])
      /\ heap'[p].schema = heap[p].schema
      /\ heap'[p].fields = heap[p].fields
  BY <1>4, <1>5 DEF IsHandle
<1>7. Shape'
  BY <1>2, <1>3, <1>6 DEF Owned, Shape, IsSnapshot
<1>8. OneOwner'
  BY <1>2, <1>3, <1>6 DEF Owned, OneOwner, Pointers
<1>9. SnapshotKept'
  BY <1>2, <1>3, PointersLead DEF Owned, OneOwner, SnapshotKept
<1> QED
  BY <1>7, <1>8, <1>9 DEF Owned

\* The heap and all pointers stay; objects may go out of the program's reach.
LEMMA PointersKept ==
    ASSUME Owned,
           DOMAIN heap' = DOMAIN heap, \A a \in DOMAIN heap : heap'[a] = heap[a],
           codec' \in [Codecs -> [ptr : Addr \cup {NULL}, phase : Phase]],
           snapshot' = [c \in Codecs |-> snapshot'[c]],
           \A c \in Codecs :
              /\ codec'[c].ptr = codec[c].ptr
              /\ codec'[c].phase = "none" => codec[c].phase = "none"
              /\ IsSnapshot(snapshot'[c])
              /\ snapshot'[c].ptr = snapshot[c].ptr
              /\ snapshot'[c].coded = snapshot[c].coded
              /\ snapshot'[c].phase = "none" => snapshot[c].phase = "none"
    PROVE  Owned'
<1>1. Shape'
  BY DEF Owned, Shape, IsSnapshot, IsHandle
<1>2. OneOwner'
  <2>1. DOMAIN heap' = Pointers' \ {NULL}
    BY DEF Owned, OneOwner, Pointers
  <2>2. \A c \in Codecs : codec'[c].ptr = codec[c].ptr /\ snapshot'[c].ptr = snapshot[c].ptr
    OBVIOUS
  <2>3. \A a \in DOMAIN heap' : heap'[a].schema = a /\ heap'[a].fields = a
    BY DEF Owned, OneOwner
  <2>4. \A c, d \in Codecs :
          /\ codec[c].ptr # NULL => codec[c].ptr # snapshot[d].ptr
          /\ c # d /\ codec[c].ptr # NULL => codec[c].ptr # codec[d].ptr
          /\ c # d /\ snapshot[c].ptr # NULL => snapshot[c].ptr # snapshot[d].ptr
    BY DEF Owned, OneOwner
  <2>5. \A c, d \in Codecs :
          /\ codec'[c].ptr # NULL => codec'[c].ptr # snapshot'[d].ptr
          /\ c # d /\ codec'[c].ptr # NULL => codec'[c].ptr # codec'[d].ptr
          /\ c # d /\ snapshot'[c].ptr # NULL => snapshot'[c].ptr # snapshot'[d].ptr
    BY ONLY <2>2, <2>4
  <2> QED
    BY <2>1, <2>3, <2>5 DEF OneOwner
<1>3. SnapshotKept'
  BY PointersLead DEF Owned, SnapshotKept
<1> QED
  BY <1>1, <1>2, <1>3 DEF Owned

\* Nothing but links, answers and counters changes.
LEMMA StutterKeeps ==
    ASSUME Owned, UNCHANGED <<codec, snapshot>>,
           DOMAIN heap' = DOMAIN heap, \A a \in DOMAIN heap : heap'[a] = heap[a]
    PROVE  Owned'
<1>1. /\ codec \in [Codecs -> [ptr : Addr \cup {NULL}, phase : Phase]]
      /\ snapshot = [c \in Codecs |-> snapshot[c]]
      /\ \A c \in Codecs : IsSnapshot(snapshot[c])
  BY DEF Owned, Shape
<1>2. \A c \in Codecs : IsSnapshot(snapshot'[c])
  BY <1>1 DEF IsSnapshot
<1> QED
  BY <1>1, <1>2, PointersKept

\* A codec object gives its handle back and forgets the pointer: no other
\* object has it, so no pointer is left behind.
LEMMA CodecFreed ==
    ASSUME Owned, NEW c \in Codecs,
           heap' = Destroyed(heap, codec[c].ptr),
           codec' \in [Codecs -> [ptr : Addr \cup {NULL}, phase : Phase]],
           codec'[c].ptr = NULL,
           \A d \in Codecs : d # c => codec'[d] = codec[d],
           UNCHANGED snapshot
    PROVE  Owned'
<1>1. /\ DOMAIN heap' = DOMAIN heap \ {codec[c].ptr}
      /\ \A a \in DOMAIN heap' : heap'[a] = heap[a]
  BY DEF Destroyed
<1>2. Shape'
  BY <1>1 DEF Owned, Shape, IsSnapshot, IsHandle
<1>3. OneOwner'
  <2>1. DOMAIN heap' = Pointers' \ {NULL}
    BY <1>1 DEF Owned, OneOwner, Pointers
  <2> QED
    BY <1>1, <2>1 DEF Owned, OneOwner
<1>4. SnapshotKept'
  BY <1>1, PointersLead DEF Owned, OneOwner, SnapshotKept
<1> QED
  BY <1>2, <1>3, <1>4 DEF Owned

\* The same for the object of a snapshot.
LEMMA SnapshotFreed ==
    ASSUME Owned, NEW c \in Codecs,
           heap' = Destroyed(heap, snapshot[c].ptr),
           snapshot' = [d \in Codecs |-> snapshot'[d]],
           IsSnapshot(snapshot'[c]),
           snapshot'[c].ptr = NULL,
           \A d \in Codecs : d # c => snapshot'[d] = snapshot[d],
           UNCHANGED codec
    PROVE  Owned'
<1>1. /\ DOMAIN heap' = DOMAIN heap \ {snapshot[c].ptr}
      /\ \A a \in DOMAIN heap' : heap'[a] = heap[a]
  BY DEF Destroyed
<1>2. Shape'
  BY <1>1 DEF Owned, Shape, IsSnapshot, IsHandle
<1>3. OneOwner'
  <2>1. DOMAIN heap' = Pointers' \ {NULL}
    BY <1>1 DEF Owned, OneOwner, Pointers
  <2>2. \A d \in Codecs : snapshot'[d].ptr # NULL => snapshot'[d].ptr = snapshot[d].ptr
    OBVIOUS
  <2>3. \A a \in DOMAIN heap' : heap'[a].schema = a /\ heap'[a].fields = a
    BY <1>1 DEF Owned, OneOwner
  <2> QED
    BY <2>1, <2>2, <2>3 DEF Owned, OneOwner
<1>4. SnapshotKept'
  BY <1>1, PointersLead DEF Owned, OneOwner, SnapshotKept
<1> QED
  BY <1>2, <1>3, <1>4 DEF Owned

\* An object that has none gets a handle at a place that was free.
LEMMA CodecAllocated ==
    ASSUME Owned, NEW c \in Codecs, NEW a \in Addr, NEW types,
           a \notin DOMAIN heap,
           codec[c].phase = "none",
           heap' = Allocated(heap, a, NewCodec(a, types)),
           codec' = [codec EXCEPT ![c] = [ptr |-> a, phase |-> "held"]],
           UNCHANGED snapshot
    PROVE  Owned'
<1>1. /\ DOMAIN heap' = DOMAIN heap \cup {a}
      /\ heap'[a] = NewCodec(a, types)
      /\ \A b \in DOMAIN heap : heap'[b] = heap[b]
  BY DEF Allocated
<1>2. /\ IsHandle(heap'[a]) /\ heap'[a].schema = a /\ heap'[a].fields = a
  BY <1>1 DEF NewCodec, IsHandle
<1>3. /\ codec'[c].ptr = a /\ codec'[c].phase = "held"
      /\ \A d \in Codecs : d # c => codec'[d] = codec[d]
      /\ codec[c].ptr = NULL
      /\ a # NULL
  BY HandlesAssumption DEF Owned, Shape
<1>4. Shape'
  BY <1>1, <1>2, <1>3 DEF Owned, Shape, IsSnapshot, Phase
<1>5. \A d \in Codecs : codec[d].ptr # a /\ snapshot[d].ptr # a
  BY <1>3, PointersLead
<1>6. OneOwner'
  <2>1. DOMAIN heap' = Pointers' \ {NULL}
    BY <1>1, <1>3 DEF Owned, OneOwner, Pointers
  <2>2. \A b \in DOMAIN heap' : heap'[b].schema = b /\ heap'[b].fields = b
    BY <1>1, <1>2 DEF Owned, OneOwner
  <2> QED
    BY <1>3, <1>5, <2>1, <2>2 DEF Owned, OneOwner
<1>7. SnapshotKept'
  BY <1>1, <1>5, PointersLead DEF Owned, SnapshotKept
<1> QED
  BY <1>4, <1>6, <1>7 DEF Owned

\* A snapshot goes to a place that was free, with pointers of its own.
LEMMA SnapshotAllocated ==
    ASSUME Owned, NEW c \in Codecs, NEW a \in Addr,
           a \notin DOMAIN heap,
           codec[c].ptr # NULL,
           snapshot[c].phase = "none",
           heap' = Allocated(heap, a, SnapshotAt(heap, a, codec[c].ptr)),
           snapshot' = [snapshot EXCEPT ![c] =
               [ptr |-> a, phase |-> "held", coded |-> heap[codec[c].ptr].coded]],
           UNCHANGED codec
    PROVE  Owned'
<1>1. /\ DOMAIN heap' = DOMAIN heap \cup {a}
      /\ heap'[a] = SnapshotAt(heap, a, codec[c].ptr)
      /\ \A b \in DOMAIN heap : heap'[b] = heap[b]
  BY DEF Allocated
<1>2. IsHandle(heap[codec[c].ptr])
  BY PointersLead DEF Owned, Shape
<1>3. /\ IsHandle(heap'[a]) /\ heap'[a].schema = a /\ heap'[a].fields = a
      /\ heap'[a].coded = heap[codec[c].ptr].coded
  BY <1>1, <1>2 DEF SnapshotAt, IsHandle
<1>4. /\ snapshot'[c] = [ptr |-> a, phase |-> "held", coded |-> heap[codec[c].ptr].coded]
      /\ \A d \in Codecs : d # c => snapshot'[d] = snapshot[d]
      /\ snapshot' = [d \in Codecs |-> snapshot'[d]]
      /\ snapshot[c].ptr = NULL
      /\ a # NULL
  BY HandlesAssumption DEF Owned, Shape
<1>5. Shape'
  BY <1>1, <1>3, <1>4 DEF Owned, Shape, IsSnapshot
<1>6. \A d \in Codecs : codec[d].ptr # a /\ snapshot[d].ptr # a
  BY <1>4, PointersLead
<1>7. OneOwner'
  <2>1. DOMAIN heap' = Pointers' \ {NULL}
    BY <1>1, <1>4 DEF Owned, OneOwner, Pointers
  <2>2. \A b \in DOMAIN heap' : heap'[b].schema = b /\ heap'[b].fields = b
    BY <1>1, <1>3 DEF Owned, OneOwner
  <2> QED
    BY <1>4, <1>6, <2>1, <2>2 DEF Owned, OneOwner
<1>8. SnapshotKept'
  BY <1>1, <1>3, <1>4, PointersLead DEF Owned, SnapshotKept
<1> QED
  BY <1>5, <1>7, <1>8 DEF Owned

-----------------------------------------------------------------------------
\* The empty heap has no owner.
LEMMA InitOwned == Init => Owned
<1> SUFFICES ASSUME Init PROVE Owned
  OBVIOUS
<1>1. DOMAIN heap = {}
  BY DEF Init
<1>2. Shape
  BY <1>1 DEF Init, Shape, Phase, IsSnapshot
<1>3. OneOwner
  BY <1>1 DEF Init, OneOwner, Pointers
<1>4. SnapshotKept
  BY DEF Init, SnapshotKept
<1> QED
  BY <1>2, <1>3, <1>4 DEF Owned

\* Every call, and every end of an object, keeps ownership as it is.
LEMMA NextOwned == Owned /\ [Next]_vars => Owned'
<1> SUFFICES ASSUME Owned, [Next]_vars PROVE Owned'
  OBVIOUS
<1>1. ASSUME NEW c \in Codecs, NEW types \in Schemas, New(c, types) PROVE Owned'
  <2>1. CASE UNCHANGED <<heap, codec>>
    BY <1>1, <2>1, StutterKeeps DEF New
  <2>2. CASE ~UNCHANGED <<heap, codec>>
    BY <1>1, <2>2, PlaceIsFree, CodecAllocated DEF New
  <2> QED
    BY <2>1, <2>2
<1>2. ASSUME NEW c \in Codecs, NEW values \in Values, Encode(c, values) PROVE Owned'
  <2>1. CASE UNCHANGED heap
    BY <1>2, <2>1, StutterKeeps DEF Encode
  <2>2. CASE ~UNCHANGED heap
    <3>1. codec[c].ptr # NULL
      BY <1>2, <2>2 DEF Encode, Open
    <3> DEFINE p   == codec[c].ptr
               msg == pack_values(TypesOf(heap, p), values)
    <3>2. heap' = [heap EXCEPT ![p] = [@ EXCEPT !.coded = Append(heap[p].coded, msg)]]
      BY <1>2, <2>2 DEF Encode, Encoded
    <3> QED
      BY <1>2, <3>1, <3>2, CodingKeeps DEF Encode
  <2> QED
    BY <2>1, <2>2
<1>3. ASSUME NEW c \in Codecs, Decode(c) PROVE Owned'
  <2>1. CASE UNCHANGED heap
    BY <1>3, <2>1, StutterKeeps DEF Decode
  <2>2. CASE ~UNCHANGED heap
    <3>1. codec[c].ptr # NULL
      BY <1>3, <2>2 DEF Decode, Open
    <3>2. \E coded :
             heap' = [heap EXCEPT ![codec[c].ptr] = [@ EXCEPT !.coded = coded]]
      BY <1>3, <2>2 DEF Decode, Decoded
    <3> QED
      BY <1>3, <3>1, <3>2, CodingKeeps DEF Decode
  <2> QED
    BY <2>1, <2>2
<1>4. ASSUME NEW c \in Codecs, TakeSnapshot(c) PROVE Owned'
  <2>1. CASE UNCHANGED <<heap, snapshot>>
    BY <1>4, <2>1, StutterKeeps DEF TakeSnapshot
  <2>2. CASE ~UNCHANGED <<heap, snapshot>>
    BY <1>4, <2>2, PlaceIsFree, SnapshotAllocated DEF TakeSnapshot, Open
  <2> QED
    BY <2>1, <2>2
<1>5. ASSUME NEW c \in Codecs, NEW s \in Codecs, RestoreFrom(c, s) PROVE Owned'
  <2>1. CASE UNCHANGED heap
    BY <1>5, <2>1, StutterKeeps DEF RestoreFrom
  <2>2. CASE ~UNCHANGED heap
    BY <1>5, <2>2, CodingKeeps DEF RestoreFrom, Open, Restored
  <2> QED
    BY <2>1, <2>2
<1>6. ASSUME NEW c \in Codecs, NEW name, NEW coded,
             Manage(c, name, [heap[codec[c].ptr] EXCEPT !.coded = coded])
      PROVE  Owned'
  <2>1. CASE codec[c].ptr = NULL
    <3>1. NULL \notin DOMAIN heap
      BY DEF Owned, OneOwner
    <3>2. DOMAIN heap' = DOMAIN heap /\ \A a \in DOMAIN heap : heap'[a] = heap[a]
      BY <1>6, <2>1, <3>1 DEF Manage
    <3> QED
      BY <1>6, <3>2, StutterKeeps DEF Manage
  <2>2. CASE codec[c].ptr # NULL
    <3>1. heap' = [heap EXCEPT ![codec[c].ptr] = [@ EXCEPT !.coded = coded]]
      BY <1>6 DEF Manage
    <3> QED
      BY <1>6, <2>2, <3>1, CodingKeeps DEF Manage
  <2> QED
    BY <2>1, <2>2
<1>7. ASSUME NEW c \in Codecs, Reset(c) \/ SeedMfu(c) PROVE Owned'
  BY <1>6, <1>7 DEF Reset, SeedMfu, Cleared, Seeded
<1>8. ASSUME NEW c \in Codecs, Exit(c) \/ CollectCodec(c) PROVE Owned'
  <2>1. /\ codec' \in [Codecs -> [ptr : Addr \cup {NULL}, phase : Phase]]
        /\ codec'[c].ptr = NULL
        /\ \A d \in Codecs : d # c => codec'[d] = codec[d]
    <3>1. codec \in [Codecs -> [ptr : Addr \cup {NULL}, phase : Phase]]
      BY DEF Owned, Shape
    <3>2. CASE Exit(c)
      BY <3>1, <3>2 DEF Exit
    <3>3. CASE CollectCodec(c)
      BY <3>1, <3>3 DEF CollectCodec, Phase
    <3> QED
      BY <1>8, <3>2, <3>3
  <2> QED
    BY <1>8, <2>1, CodecFreed DEF Exit, CollectCodec
<1>9. ASSUME NEW c \in Codecs, FreeSnapshot(c) \/ CollectSnapshot(c) PROVE Owned'
  <2>1. IsSnapshot(snapshot[c])
    BY DEF Owned, Shape
  <2>2. /\ snapshot' = [d \in Codecs |-> snapshot'[d]]
        /\ IsSnapshot(snapshot'[c])
        /\ snapshot'[c].ptr = NULL
        /\ \A d \in Codecs : d # c => snapshot'[d] = snapshot[d]
    <3>1. snapshot = [d \in Codecs |-> snapshot[d]]
      BY DEF Owned, Shape
    <3>2. CASE FreeSnapshot(c)
      <4>1. snapshot'[c] = [snapshot[c] EXCEPT !.ptr = NULL]
        BY <3>1, <3>2 DEF FreeSnapshot
      <4>2. IsSnapshot(snapshot'[c]) /\ snapshot'[c].ptr = NULL
        BY <2>1, <4>1 DEF IsSnapshot
      <4> QED
        BY <3>1, <3>2, <4>2 DEF FreeSnapshot
    <3>3. CASE CollectSnapshot(c)
      <4>1. snapshot'[c] = [ptr |-> NULL, phase |-> "none", coded |-> << >>]
        BY <3>1, <3>3 DEF CollectSnapshot
      <4>2. IsSnapshot(snapshot'[c]) /\ snapshot'[c].ptr = NULL
        BY <4>1 DEF IsSnapshot
      <4> QED
        BY <3>1, <3>3, <4>2 DEF CollectSnapshot
    <3> QED
      BY <1>9, <3>2, <3>3
  <2> QED
    BY <1>9, <2>2, SnapshotFreed DEF FreeSnapshot, CollectSnapshot
<1>10. ASSUME NEW c \in Codecs, LetGo(c) PROVE Owned'
  <2>1. /\ codec \in [Codecs -> [ptr : Addr \cup {NULL}, phase : Phase]]
        /\ snapshot = [d \in Codecs |-> snapshot[d]]
        /\ \A d \in Codecs : IsSnapshot(snapshot[d])
    BY DEF Owned, Shape
  <2>2. CASE codec' = [codec EXCEPT ![c].phase = "dropped"] /\ UNCHANGED snapshot
    <3>1. \A d \in Codecs : IsSnapshot(snapshot'[d])
      BY <2>1, <2>2 DEF IsSnapshot
    <3>2. /\ codec' \in [Codecs -> [ptr : Addr \cup {NULL}, phase : Phase]]
          /\ \A d \in Codecs : /\ codec'[d].ptr = codec[d].ptr
                               /\ codec'[d].phase = "none" => codec[d].phase = "none"
      BY <2>1, <2>2 DEF Phase
    <3> QED
      BY <1>10, <2>1, <2>2, <3>1, <3>2, PointersKept DEF LetGo
  <2>3. CASE snapshot' = [snapshot EXCEPT ![c].phase = "dropped"] /\ UNCHANGED codec
    <3>1. /\ snapshot'[c] = [snapshot[c] EXCEPT !.phase = "dropped"]
          /\ \A d \in Codecs : d # c => snapshot'[d] = snapshot[d]
          /\ snapshot' = [d \in Codecs |-> snapshot'[d]]
      BY <2>1, <2>3
    <3>2. \A d \in Codecs : /\ IsSnapshot(snapshot'[d])
                            /\ snapshot'[d].ptr = snapshot[d].ptr
                            /\ snapshot'[d].coded = snapshot[d].coded
                            /\ snapshot'[d].phase = "none" => snapshot[d].phase = "none"
      BY <2>1, <3>1 DEF IsSnapshot
    <3> QED
      BY <1>10, <2>1, <2>3, <3>1, <3>2, PointersKept DEF LetGo
  <2> QED
    BY <1>10, <2>2, <2>3 DEF LetGo
<1>11. CASE UNCHANGED vars
  BY <1>11, StutterKeeps DEF vars
<1> QED
  BY <1>1, <1>2, <1>3, <1>4, <1>5, <1>7, <1>8, <1>9, <1>10, <1>11 DEF Next

-----------------------------------------------------------------------------
\* Ownership and the shape of the objects hold always.
LEMMA AlwaysOwned == Spec => []Owned
BY InitOwned, NextOwned, PTL DEF Spec

\* What TypeOK says of the link, and that it is a sequence.
LinkFits == Len(link) <= LINK_SIZE /\ \E S : link \in Seq(S)

\* A handle that lists types that the program asked for and the SDK takes.
Fitting(h) ==
    h.types \in Schemas /\ Len(h.types) \in 1 .. MAX_FIELDS /\ MsgSize(h.types) <= MAX_MSG

Typed == TypeOK /\ LinkFits /\ \A a \in DOMAIN heap : Fitting(heap[a])

\* A call is counted up to the bound.
LEMMA CallCounted ==
    ASSUME calls \in 0 .. MAX_CALLS, NEW name, NEW error, NEW about, Call(name, error, about)
    PROVE  calls' \in 0 .. MAX_CALLS
BY BindingsAssumption DEF Call

\* What is coded does not change the types of a handle.
LEMMA CodingFits ==
    ASSUME NEW h, IsHandle(h), Fitting(h), NEW coded, NEW g,
           g = [h EXCEPT !.coded = coded]
    PROVE  Fitting(g)
<1>1. g.types = h.types
  BY DEF IsHandle
<1> QED
  BY <1>1 DEF Fitting

\* The handles on the heap keep their types; only the constructor and the
\* snapshot put a new one there, and the first refuses other types.
LEMMA HeapFits ==
    ASSUME Owned, [Next]_vars, \A a \in DOMAIN heap : Fitting(heap[a])
    PROVE  \A a \in DOMAIN heap' : Fitting(heap'[a])
<1> SUFFICES ASSUME NEW a \in DOMAIN heap' PROVE Fitting(heap'[a])
  OBVIOUS
<1>h. \A b \in DOMAIN heap : IsHandle(heap[b])
  BY DEF Owned, Shape
<1>1. ASSUME NEW c \in Codecs, NEW types \in Schemas, New(c, types) PROVE Fitting(heap'[a])
  <2>1. CASE UNCHANGED heap
    BY <2>1
  <2>2. CASE Creatable(types) /\ heap' = Allocated(heap, Place(heap), NewCodec(Place(heap), types))
    <3>1. Len(types) \in 1 .. MAX_FIELDS /\ MsgSize(types) <= MAX_MSG
      BY <2>2, BindingsAssumption, HandlesAssumption DEF Creatable
    <3>2. CASE a = Place(heap)
      BY <2>2, <3>1, <3>2 DEF Allocated, NewCodec, Fitting
    <3>3. CASE a # Place(heap)
      BY <2>2, <3>3 DEF Allocated
    <3> QED
      BY <3>2, <3>3
  <2> QED
    BY <1>1, <2>1, <2>2 DEF New
<1>2. ASSUME NEW p, NEW coded, p \in DOMAIN heap,
             heap' = [heap EXCEPT ![p] = [@ EXCEPT !.coded = coded]]
      PROVE  Fitting(heap'[a])
  <2>1. CASE a = p
    BY <1>2, <1>h, <2>1, CodingFits
  <2>2. CASE a # p
    BY <1>2, <2>2
  <2> QED
    BY <2>1, <2>2
<1>3. ASSUME NEW c \in Codecs, NEW values \in Values, Encode(c, values) PROVE Fitting(heap'[a])
  <2>1. CASE UNCHANGED heap
    BY <2>1
  <2>2. CASE ~UNCHANGED heap
    <3>1. codec[c].ptr # NULL
      BY <1>3, <2>2 DEF Encode, Open
    <3> DEFINE p   == codec[c].ptr
               msg == pack_values(TypesOf(heap, p), values)
    <3>2. heap' = [heap EXCEPT ![p] = [@ EXCEPT !.coded = Append(heap[p].coded, msg)]]
      BY <1>3, <2>2 DEF Encode, Encoded
    <3> QED
      BY <3>1, <3>2, <1>2, PointersLead
  <2> QED
    BY <2>1, <2>2
<1>4. ASSUME NEW c \in Codecs, Decode(c) PROVE Fitting(heap'[a])
  <2>1. CASE UNCHANGED heap
    BY <2>1
  <2>2. CASE ~UNCHANGED heap
    <3>1. codec[c].ptr # NULL
      BY <1>4, <2>2 DEF Decode, Open
    <3>2. \E coded : heap' = [heap EXCEPT ![codec[c].ptr] = [@ EXCEPT !.coded = coded]]
      BY <1>4, <2>2 DEF Decode, Decoded
    <3> QED
      BY <3>1, <3>2, <1>2, PointersLead
  <2> QED
    BY <2>1, <2>2
<1>5. ASSUME NEW c \in Codecs, TakeSnapshot(c) PROVE Fitting(heap'[a])
  <2>1. CASE UNCHANGED heap
    BY <2>1
  <2>2. CASE heap' = Allocated(heap, Place(heap), SnapshotAt(heap, Place(heap), codec[c].ptr))
             /\ codec[c].ptr # NULL
    <3>1. codec[c].ptr \in DOMAIN heap
      BY <2>2, PointersLead
    <3>2. CASE a = Place(heap)
      <4>0. heap'[a] = SnapshotAt(heap, Place(heap), codec[c].ptr)
        BY <2>2, <3>2 DEF Allocated
      <4>1. heap'[a].types = heap[codec[c].ptr].types
        BY <1>h, <3>1, <4>0 DEF SnapshotAt, IsHandle
      <4> QED
        BY <3>1, <4>1 DEF Fitting
    <3>3. CASE a # Place(heap)
      BY <2>2, <3>3 DEF Allocated
    <3> QED
      BY <3>2, <3>3
  <2> QED
    BY <1>5, <2>1, <2>2 DEF TakeSnapshot, Open
<1>6. ASSUME NEW c \in Codecs, NEW s \in Codecs, RestoreFrom(c, s) PROVE Fitting(heap'[a])
  <2>1. CASE UNCHANGED heap
    BY <2>1
  <2>2. CASE ~UNCHANGED heap
    BY <1>6, <2>2, <1>2, PointersLead DEF RestoreFrom, Open, Restored
  <2> QED
    BY <2>1, <2>2
<1>7. ASSUME NEW c \in Codecs, NEW name, NEW coded,
             Manage(c, name, [heap[codec[c].ptr] EXCEPT !.coded = coded])
      PROVE  Fitting(heap'[a])
  <2>1. CASE a = codec[c].ptr
    <3>1. a \in DOMAIN heap /\ heap'[a] = [heap[a] EXCEPT !.coded = coded]
      BY <1>7, <2>1 DEF Manage
    <3> QED
      BY <1>h, <3>1, CodingFits
  <2>2. CASE a # codec[c].ptr
    BY <1>7, <2>2 DEF Manage
  <2> QED
    BY <2>1, <2>2
<1>8. ASSUME NEW c \in Codecs, Reset(c) \/ SeedMfu(c) PROVE Fitting(heap'[a])
  BY <1>7, <1>8 DEF Reset, SeedMfu, Cleared, Seeded
<1>9. ASSUME NEW p, heap' = Destroyed(heap, p) PROVE Fitting(heap'[a])
  BY <1>9 DEF Destroyed
<1> QED
  BY <1>1, <1>3, <1>4, <1>5, <1>6, <1>8, <1>9
  DEF Next, vars, Exit, FreeSnapshot, CollectCodec, CollectSnapshot, LetGo

\* The link is a sequence that never exceeds its bound.
LEMMA LinkStaysFit ==
    ASSUME LinkFits, [Next]_vars
    PROVE  LinkFits'
<1>1. CASE UNCHANGED link
  BY <1>1 DEF LinkFits
<1>2. ASSUME NEW frame, Len(link) < LINK_SIZE, link' = Append(link, frame) PROVE LinkFits'
  <2>1. PICK S : link \in Seq(S)
    BY DEF LinkFits
  <2>2. link \in Seq(S \cup {frame})
    BY <2>1
  <2>3. link' \in Seq(S \cup {frame}) /\ Len(link') = Len(link) + 1 /\ Len(link) \in Nat
    BY <1>2, <2>2
  <2> QED
    BY <1>2, <2>3, BindingsAssumption DEF LinkFits
<1>3. CASE link # << >> /\ link' = Tail(link)
  <2>1. PICK S : link \in Seq(S)
    BY DEF LinkFits
  <2>2. link' \in Seq(S) /\ Len(link') = Len(link) - 1 /\ Len(link) \in Nat
    BY <1>3, <2>1
  <2> QED
    BY <1>3, <2>2, BindingsAssumption DEF LinkFits
<1>4. ASSUME NEW c \in Codecs, NEW values \in Values, Encode(c, values) PROVE LinkFits'
  BY <1>1, <1>2, <1>4 DEF Encode
<1>5. ASSUME NEW c \in Codecs, Decode(c) PROVE LinkFits'
  BY <1>3, <1>5 DEF Decode
<1> QED
  BY <1>1, <1>4, <1>5
  DEF Next, vars, New, TakeSnapshot, RestoreFrom, Reset, SeedMfu, Manage,
      Exit, FreeSnapshot, CollectCodec, CollectSnapshot, LetGo

\* An object is there, let go of, or not there.
LEMMA PhasesStay ==
    ASSUME Owned, Typed, [Next]_vars
    PROVE  \A d \in Codecs : codec'[d].phase \in Phase /\ snapshot'[d].phase \in Phase
<1> SUFFICES ASSUME NEW d \in Codecs
             PROVE  codec'[d].phase \in Phase /\ snapshot'[d].phase \in Phase
  OBVIOUS
<1>1. /\ codec \in [Codecs -> [ptr : Addr \cup {NULL}, phase : Phase]]
      /\ snapshot = [c \in Codecs |-> snapshot[c]]
      /\ IsSnapshot(snapshot[d])
      /\ snapshot[d].phase \in Phase
  BY DEF Owned, Shape, Typed, TypeOK
<1>2. Owned'
  BY NextOwned
<1>3. codec'[d].phase \in Phase
  BY <1>2 DEF Owned, Shape
<1>4. CASE UNCHANGED snapshot
  BY <1>1, <1>3, <1>4
<1>5. ASSUME NEW c \in Codecs, NEW new,
             snapshot' = [snapshot EXCEPT ![c] = new], new.phase \in Phase
      PROVE  snapshot'[d].phase \in Phase
  BY <1>1, <1>5
<1>6. ASSUME NEW c \in Codecs, TakeSnapshot(c) PROVE snapshot'[d].phase \in Phase
  BY <1>1, <1>5, <1>6 DEF TakeSnapshot, Phase
<1>7. ASSUME NEW c \in Codecs, FreeSnapshot(c) PROVE snapshot'[d].phase \in Phase
  BY <1>1, <1>7 DEF FreeSnapshot, IsSnapshot
<1>8. ASSUME NEW c \in Codecs, LetGo(c) PROVE snapshot'[d].phase \in Phase
  BY <1>1, <1>8 DEF LetGo, IsSnapshot, Phase
<1>9. ASSUME NEW c \in Codecs, CollectSnapshot(c) PROVE snapshot'[d].phase \in Phase
  BY <1>1, <1>5, <1>9 DEF CollectSnapshot, Phase
<1> QED
  BY <1>3, <1>4, <1>6, <1>7, <1>8, <1>9
  DEF Next, vars, New, Encode, Decode, RestoreFrom, Reset, SeedMfu, Manage,
      Exit, CollectCodec

\* Types are kept by every step.
LEMMA NextTyped == Owned /\ Typed /\ [Next]_vars => Typed'
<1> SUFFICES ASSUME Owned, Typed, [Next]_vars PROVE Typed'
  OBVIOUS
<1>1. \A a \in DOMAIN heap' : Fitting(heap'[a])
  BY HeapFits DEF Typed
<1>2. LinkFits'
  BY LinkStaysFit DEF Typed
<1>3. \A d \in Codecs : codec'[d].phase \in Phase /\ snapshot'[d].phase \in Phase
  BY PhasesStay
<1>4. \A d \in Codecs : codec'[d].ptr \in Addr \cup {NULL} /\ snapshot'[d].ptr \in Addr \cup {NULL}
  BY NextOwned DEF Owned, Shape, IsSnapshot
<1>5. calls' \in 0 .. MAX_CALLS
  BY CallCounted
  DEF Typed, TypeOK, Next, vars, New, Encode, Decode, TakeSnapshot, RestoreFrom, Reset,
      SeedMfu, Manage, Exit, FreeSnapshot, CollectCodec, CollectSnapshot, LetGo
<1> QED
  BY <1>1, <1>2, <1>3, <1>4, <1>5 DEF Typed, TypeOK, LinkFits, Fitting

\* Types hold in every state.
LEMMA AlwaysTyped == Spec => []Typed
<1>1. Init => Typed
  <2> SUFFICES ASSUME Init PROVE Typed
    OBVIOUS
  <2>1. link \in Seq({}) /\ Len(link) = 0
    BY DEF Init
  <2>2. LinkFits
    BY <2>1, BindingsAssumption DEF LinkFits
  <2> QED
    BY <2>2, BindingsAssumption DEF Typed, TypeOK, LinkFits, Init, Phase
<1> QED
  BY <1>1, NextTyped, AlwaysOwned, PTL DEF Spec

\* No handle of more fields or bytes than its arrays hold is ever created, and
\* objects, link and counters are of their types.
THEOREM ObjectsTyped == Spec => []TypeOK
<1>1. Typed => TypeOK
  BY DEF Typed
<1> QED
  BY <1>1, AlwaysTyped, PTL

\* Nothing is freed twice, used after it was freed, lost, or led into from
\* another handle, in whatever order programs and collector end objects.
THEOREM OwnersApart == Spec => []OneOwner
<1>1. Owned => OneOwner
  BY DEF Owned
<1> QED
  BY <1>1, AlwaysOwned, PTL

\* A snapshot stays as it was taken, whatever its codec does afterwards.
THEOREM SnapshotsStay == Spec => []SnapshotKept
<1>1. Owned => SnapshotKept
  BY DEF Owned
<1> QED
  BY <1>1, AlwaysOwned, PTL

-----------------------------------------------------------------------------
(***************************************************************************)
(* What is delivered.  Offsets and values are sums that loops add up; two  *)
(* fields have no byte in common as offsets never go back, so the bytes of *)
(* each are the digits of its value.                                       *)
(***************************************************************************)

\* A set of natural numbers has a least one.
LEMMA LeastNatural ==
    ASSUME NEW T, T \subseteq Nat, T # {}
    PROVE  \E n \in T : \A m \in T : n <= m
<1> DEFINE R == StrictSubsetOrdering(Nat)
           F == {0 .. n : n \in T}
<1>1. IsWellFoundedOn(R, FiniteSubsetsOf(Nat))
  BY FS_StrictSubsetOrderingWellFounded
<1>2. F \subseteq FiniteSubsetsOf(Nat)
  <2>1. \A n \in T : IsFiniteSet(0 .. n) /\ 0 .. n \subseteq Nat
    BY FS_Interval
  <2> QED
    BY <2>1 DEF FiniteSubsetsOf
<1>3. F # {}
  OBVIOUS
<1>4. PICK x \in F : \A y \in F : ~(<<y, x>> \in R)
  <2> HIDE DEF R, F
  <2> QED
    BY <1>1, <1>2, <1>3, WFMin
<1>5. PICK n \in T : x = 0 .. n
  BY <1>4
<1>6. ASSUME NEW m \in T, m < n
      PROVE  FALSE
  <2>1. 0 .. m \in F /\ <<0 .. m, 0 .. n>> \notin R
    BY <1>4, <1>5, <1>6
  <2>2. 0 .. m \subseteq 0 .. n /\ n \in 0 .. n /\ n \notin 0 .. m
    BY <1>6
  <2>3. 0 .. m \in SUBSET Nat /\ 0 .. n \in SUBSET Nat
    OBVIOUS
  <2> QED
    BY <2>1, <2>2, <2>3 DEF StrictSubsetOrdering
<1> QED
  BY <1>6

\* Induction up to n, on the set of the places where something holds.
LEMMA Induct ==
    ASSUME NEW n \in Nat, NEW T, 0 \in T, \A i \in 1 .. n : i - 1 \in T => i \in T
    PROVE  \A i \in 0 .. n : i \in T
<1> DEFINE M == (0 .. n) \ T
<1> SUFFICES ASSUME M # {}
             PROVE  FALSE
  OBVIOUS
<1>1. PICK i \in M : \A j \in M : i <= j
  <2>1. M \subseteq Nat
    OBVIOUS
  <2> HIDE DEF M
  <2> QED
    BY <2>1, LeastNatural
<1>2. i \in 1 .. n /\ i - 1 \in 0 .. n /\ ~(i <= i - 1)
  BY <1>1
<1>3. i - 1 \notin M
  BY <1>1, <1>2
<1> QED
  BY <1>1, <1>2, <1>3

\* A loop of n steps within X.
Loop(X, x, step, n, f) ==
    /\ f \in [0 .. n -> X]
    /\ f[0] = x
    /\ \A i \in 1 .. n : f[i] = step[<<i, f[i - 1]>>]

\* Loops of all lengths exist: there is no shortest one missing.
LEMMA LoopExists ==
    ASSUME NEW X, NEW x \in X, NEW n \in Nat, NEW W, 1 .. n \subseteq W,
           NEW step \in [W \X X -> X]
    PROVE  \E f : Loop(X, x, step, n, f)
<1> DEFINE T == {m \in 0 .. n : ~ \E f : Loop(X, x, step, m, f)}
<1> SUFFICES ASSUME T # {}
             PROVE  FALSE
  <2>1. n \in 0 .. n
    OBVIOUS
  <2>2. n \notin T
    OBVIOUS
  <2> HIDE DEF Loop
  <2> QED
    BY <2>1, <2>2
<1>1. PICK k \in T : \A m \in T : k <= m
  <2>1. T \subseteq Nat
    OBVIOUS
  <2> HIDE DEF T
  <2> QED
    BY <2>1, LeastNatural
<1>2. k # 0
  <2>1. Loop(X, x, step, 0, [m \in 0 .. 0 |-> x])
    BY DEF Loop
  <2> QED
    BY <1>1, <2>1
<1>3. k \in 1 .. n /\ k - 1 \in 0 .. n /\ ~(k <= k - 1)
  BY <1>1, <1>2
<1>4. PICK f : Loop(X, x, step, k - 1, f)
  BY <1>1, <1>3
<1> DEFINE e == [m \in 0 .. k |-> IF m < k THEN f[m] ELSE step[<<k, f[k - 1]>>]]
<1>5. \A m \in 0 .. k - 1 : f[m] \in X
  BY <1>3, <1>4 DEF Loop
<1>6. step[<<k, f[k - 1]>>] \in X
  <2>1. k \in W /\ f[k - 1] \in X
    BY <1>3, <1>5
  <2> QED
    BY <2>1
<1>7. e \in [0 .. k -> X] /\ e[0] = x
  BY <1>3, <1>4, <1>5, <1>6 DEF Loop
<1>8. ASSUME NEW m \in 1 .. k
      PROVE  e[m] = step[<<m, e[m - 1]>>]
  <2>1. CASE m = k
    <3>1. m \in 0 .. k /\ m - 1 \in 0 .. k /\ ~(m < k) /\ m - 1 < k
      BY <1>3, <2>1
    <3>2. e[m] = step[<<k, f[k - 1]>>] /\ e[m - 1] = f[m - 1]
      BY <3>1
    <3> QED
      BY <2>1, <3>2
  <2>2. CASE m # k
    <3>1. m \in 1 .. k - 1
      BY <1>3, <2>2
    <3>2. f[m] = step[<<m, f[m - 1]>>]
      BY <1>4, <3>1 DEF Loop
    <3>3. m \in 0 .. k /\ m - 1 \in 0 .. k /\ m < k /\ m - 1 < k
      BY <1>3, <3>1
    <3>4. e[m] = f[m] /\ e[m - 1] = f[m - 1]
      BY <3>3
    <3> QED
      BY <3>2, <3>4
  <2> QED
    BY <2>1, <2>2
<1> HIDE DEF e
<1>9. Loop(X, x, step, k, e)
  BY <1>7, <1>8 DEF Loop
<1> QED
  BY <1>1, <1>9

\* Loops that take the same steps agree.
LEMMA LoopsAgree ==
    ASSUME NEW X, NEW x, NEW step, NEW n \in Nat, NEW k \in Nat, n <= k,
           NEW f, Loop(X, x, step, n, f), NEW e, Loop(X, x, step, k, e)
    PROVE  f[n] = e[n]
<1> DEFINE T == {i \in 0 .. n : f[i] = e[i]}
<1>1. 0 \in T
  BY DEF Loop
<1>2. ASSUME NEW i \in 1 .. n, i - 1 \in T PROVE i \in T
  <2>1. i \in 1 .. k
    OBVIOUS
  <2>2. f[i] = step[<<i, f[i - 1]>>] /\ e[i] = step[<<i, e[i - 1]>>]
    BY <2>1 DEF Loop
  <2> QED
    BY <1>2, <2>2
<1>3. n \in T
  <2>1. n \in 0 .. n
    OBVIOUS
  <2> HIDE DEF T
  <2> QED
    BY <1>1, <1>2, <2>1, Induct
<1> QED
  BY <1>3

\* A number is its quotient times the divisor, and its remainder.
LEMMA DivMod ==
    ASSUME NEW x \in Nat, NEW b \in Nat, b > 0
    PROVE  /\ x \div b \in Nat
           /\ x % b \in 0 .. b - 1
           /\ x = (x \div b) * b + (x % b)
<1>1. x \div b \in Nat
  OBVIOUS
<1>2. x % b \in 0 .. b - 1
  OBVIOUS
<1>3. x = (x \div b) * b + (x % b)
  OBVIOUS
<1> QED
  BY <1>1, <1>2, <1>3

\* Multiples of b are b apart or more.
LEMMA TimesGrows ==
    ASSUME NEW y \in Nat, NEW z \in Nat, y < z, NEW b \in Nat
    PROVE  y * b + b <= z * b
<1>1. PICK t \in Nat : z = (y + 1) + t
  <2>1. z - (y + 1) \in Nat /\ z = (y + 1) + (z - (y + 1))
    OBVIOUS
  <2> QED
    BY <2>1
<1>2. z * b = (y * b + b) + t * b
  BY <1>1
<1>3. t * b \in Nat /\ y * b \in Nat
  OBVIOUS
<1> QED
  BY <1>2, <1>3

\* Quotient and remainder are the only ones.
LEMMA DivUnique ==
    ASSUME NEW x \in Nat, NEW b \in Nat, NEW q \in Nat, NEW r \in 0 .. b - 1,
           x = q * b + r
    PROVE  x \div b = q /\ x % b = r
<1> DEFINE h == x \div b
           l == x % b
<1>1. b > 0
  OBVIOUS
<1>2. h \in Nat /\ l \in 0 .. b - 1 /\ x = h * b + l
  BY <1>1, DivMod
<1> HIDE DEF h, l
<1>3. ASSUME NEW y \in Nat, NEW z \in Nat, y < z PROVE y * b + b <= z * b
  BY <1>3, TimesGrows
<1>4. h * b \in Nat /\ q * b \in Nat
  BY <1>2
<1>5. ~(h < q) /\ ~(q < h)
  BY <1>2, <1>3, <1>4
<1>6. h = q
  BY <1>2, <1>5
<1>7. l = r
  BY <1>2, <1>4, <1>6
<1> QED
  BY <1>6, <1>7 DEF h, l

\* The low digits of a number: those above b, then those below.
LEMMA ModSplit ==
    ASSUME NEW m \in Nat, NEW a \in Nat, a > 0, NEW b \in Nat, b > 0
    PROVE  m % (a * b) = ((m \div b) % a) * b + (m % b)
<1>1. PICK x \in Nat, l \in 0 .. b - 1 : x = m \div b /\ l = m % b /\ m = x * b + l
  BY DivMod
<1>2. PICK h \in Nat, g \in 0 .. a - 1 : h = x \div a /\ g = x % a /\ x = h * a + g
  BY DivMod
<1>3. PICK c \in Nat : c = a * b
  OBVIOUS
<1>4. PICK y \in Nat, z \in Nat : y = g * b /\ z = h * a
  BY <1>2
<1>5. z * b = h * c
  BY <1>3, <1>4
<1>6. x * b = z * b + y
  BY <1>2, <1>4
<1>7. y + b <= c
  BY <1>2, <1>3, <1>4, TimesGrows
<1>8. m = h * c + (y + l) /\ y + l \in 0 .. c - 1
  <2>1. PICK w \in Nat : w = h * c
    BY <1>3
  <2> QED
    BY <1>1, <1>4, <1>5, <1>6, <1>7, <2>1
<1>9. m % c = y + l
  BY <1>8, DivUnique
<1> QED
  BY <1>1, <1>2, <1>3, <1>4, <1>9

\* Loops that add up exist.
LEMMA Sums ==
    ASSUME NEW n \in Nat, NEW a \in [1 .. n -> Nat]
    PROVE  \E f \in [0 .. n -> Nat] : f[0] = 0 /\ \A i \in 1 .. n : f[i] = f[i - 1] + a[i]
<1>1. PICK step : step = [p \in (1 .. n) \X Nat |-> p[2] + a[p[1]]]
  OBVIOUS
<1>2. PICK W : W = 1 .. n
  OBVIOUS
<1>3. step \in [W \X Nat -> Nat] /\ \A i \in 1 .. n, y \in Nat : step[<<i, y>>] = y + a[i]
  BY <1>1, <1>2
<1>4. PICK f : Loop(Nat, 0, step, n, f)
  <2>1. PICK z \in Nat : z = 0
    OBVIOUS
  <2>2. \E f : Loop(Nat, z, step, n, f)
    BY <1>2, <1>3, LoopExists
  <2> QED
    BY <2>1, <2>2
<1>5. f \in [0 .. n -> Nat] /\ f[0] = 0
  BY <1>4 DEF Loop
<1>6. ASSUME NEW i \in 1 .. n PROVE f[i] = f[i - 1] + a[i]
  <2>1. f[i - 1] \in Nat /\ f[i] = step[<<i, f[i - 1]>>]
    BY <1>4, <1>5 DEF Loop
  <2> QED
    BY <1>3, <2>1
<1> QED
  BY <1>5, <1>6

-----------------------------------------------------------------------------
\* No field is wider than a word.
LEMMA SizeType ==
    ASSUME NEW type
    PROVE  default_size(type) \in Nat
  BY DEF default_size

\* The offsets that residc_codec_create adds up.
LEMMA BytesSteps ==
    ASSUME NEW types \in Seq(STRING), NEW n \in Nat, n = Len(types)
    PROVE  \E f \in [0 .. n -> Nat] :
              /\ f[0] = 0
              /\ \A i \in 1 .. n : f[i] = f[i - 1] + default_size(types[i])
              /\ \A i \in 0 .. n : BytesOf(types, i) = f[i]
<1> DEFINE Body(g) == [i \in 0 .. n |-> IF i = 0 THEN 0 ELSE g[i - 1] + default_size(types[i])]
<1>1. PICK a : a = [i \in 1 .. n |-> default_size(types[i])]
  OBVIOUS
<1>2. a \in [1 .. n -> Nat] /\ \A i \in 1 .. n : a[i] = default_size(types[i])
  BY <1>1, SizeType
<1>3. PICK f \in [0 .. n -> Nat] : f[0] = 0 /\ \A i \in 1 .. n : f[i] = f[i - 1] + a[i]
  BY <1>2, Sums
<1>4. f = Body(f)
  <2>1. \A i \in 0 .. n : f[i] = IF i = 0 THEN 0 ELSE f[i - 1] + default_size(types[i])
    BY <1>2, <1>3
  <2> QED
    BY <2>1
<1>5. PICK g : g = CHOOSE h : h = Body(h)
  OBVIOUS
<1>6. \A i \in 0 .. n : BytesOf(types, i) = g[i]
  BY <1>5 DEF BytesOf
<1>7. g = Body(g)
  <2> HIDE DEF Body
  <2> QED
    BY <1>4, <1>5
<1>8. g[0] = 0 /\ \A i \in 1 .. n : g[i] = g[i - 1] + a[i]
  BY <1>2, <1>7
<1>9. \A i \in 0 .. n : g[i] = f[i]
  <2> DEFINE T == {i \in 0 .. n : g[i] = f[i]}
  <2>1. 0 \in T /\ \A i \in 1 .. n : i - 1 \in T => i \in T
    BY <1>3, <1>8
  <2>2. \A i \in 0 .. n : i \in T
    <3> HIDE DEF T
    <3> QED
      BY <2>1, Induct
  <2> QED
    BY <2>2
<1> QED
  BY <1>2, <1>3, <1>6, <1>9

\* Offsets do not go back.
LEMMA OffsetsGrow ==
    ASSUME NEW n \in Nat, NEW f \in [0 .. n -> Nat], \A i \in 1 .. n : f[i] >= f[i - 1],
           NEW i \in 0 .. n, NEW j \in 0 .. n, i <= j
    PROVE  f[i] <= f[j]
<1> DEFINE T == {m \in 0 .. n : i <= m => f[i] <= f[m]}
<1>1. 0 \in T
  OBVIOUS
<1>2. ASSUME NEW m \in 1 .. n, m - 1 \in T PROVE m \in T
  <2>1. f[m] \in Nat /\ f[m - 1] \in Nat /\ f[m] >= f[m - 1] /\ f[i] \in Nat
    OBVIOUS
  <2>2. CASE i = m
    BY <2>1, <2>2
  <2>3. CASE i # m
    BY <1>2, <2>1, <2>3
  <2> QED
    BY <2>2, <2>3
<1>3. j \in T
  <2> HIDE DEF T
  <2> QED
    BY <1>1, <1>2, Induct
<1> QED
  BY <1>3

\* Each byte of a message that belongs to a field is written for it only:
\* pack_values puts the bytes of its value there.
LEMMA Packed ==
    ASSUME NEW types \in Seq(STRING), NEW values, NEW i \in 1 .. Len(types),
           NEW b \in Nat, b < default_size(types[i])
    PROVE  /\ Offset(types, i) \in Nat
           /\ pack_values(types, values)[Offset(types, i) + b] = Digit(values[i], b)
<1>1. PICK n \in Nat : n = Len(types)
  OBVIOUS
<1>2. PICK f \in [0 .. n -> Nat] :
         /\ f[0] = 0
         /\ \A j \in 1 .. n : f[j] = f[j - 1] + default_size(types[j])
         /\ \A j \in 0 .. n : BytesOf(types, j) = f[j]
  BY <1>1, BytesSteps
<1>3. /\ \A j \in 1 .. n : Offset(types, j) = f[j - 1] /\ f[j - 1] \in Nat /\ f[j] \in Nat
      /\ MsgSize(types) = f[n] /\ f[n] \in Nat /\ i \in 1 .. n
  <2>1. \A j \in 1 .. n : j - 1 \in 0 .. n /\ j \in 0 .. n
    OBVIOUS
  <2>2. n \in 0 .. n
    OBVIOUS
  <2>3. \A j \in 1 .. n : Offset(types, j) = f[j - 1] /\ f[j - 1] \in Nat /\ f[j] \in Nat
    BY <1>2, <2>1 DEF Offset
  <2>4. MsgSize(types) = f[n] /\ f[n] \in Nat
    BY <1>1, <1>2, <2>2 DEF MsgSize
  <2> QED
    BY <1>1, <2>3, <2>4
<1>4. \A j \in 1 .. n : f[j] >= f[j - 1]
  BY <1>2, <1>3, SizeType
<1>5. PICK p \in Nat : p = f[i - 1] + b
  BY <1>3
<1>6. p < f[i] /\ f[i] <= f[n]
  <2>1. f[i] <= f[n]
    <3>1. i \in 0 .. n /\ n \in 0 .. n /\ i <= n
      BY <1>3
    <3> QED
      BY <1>4, <3>1, OffsetsGrow
  <2>2. f[i] = f[i - 1] + default_size(types[i]) /\ default_size(types[i]) \in Nat
    BY <1>2, <1>3, SizeType
  <2> QED
    BY <1>3, <1>5, <2>1, <2>2
<1> DEFINE At(j) == p - Offset(types, j)
           here  == {j \in DOMAIN types : At(j) >= 0 /\ At(j) < default_size(types[j])}
<1>7. At(i) = b
  BY <1>3, <1>5
<1>8. here = {i}
  <2>1. DOMAIN types = 1 .. n
    BY <1>1
  <2>2. i \in here
    BY <1>3, <1>7, <2>1
  <2>3. ASSUME NEW j \in 1 .. n, j # i, p - f[j - 1] >= 0, p - f[j - 1] < default_size(types[j])
        PROVE  FALSE
    <3>1. p >= f[j - 1] /\ p < f[j]
      <4>1. f[j] = f[j - 1] + default_size(types[j]) /\ default_size(types[j]) \in Nat
        BY <1>2, SizeType
      <4>2. f[j - 1] \in Nat
        BY <1>3
      <4> QED
        BY <2>3, <4>1, <4>2
    <3>2. CASE j < i
      <4>1. j \in 0 .. n /\ i - 1 \in 0 .. n /\ j <= i - 1
        BY <1>3, <3>2
      <4>2. f[j] <= f[i - 1]
        BY <1>4, <4>1, OffsetsGrow
      <4> QED
        BY <1>3, <1>5, <3>1, <4>2
    <3>3. CASE i < j
      <4>1. i \in 0 .. n /\ j - 1 \in 0 .. n /\ i <= j - 1
        BY <1>3, <3>3
      <4>2. f[i] <= f[j - 1]
        BY <1>4, <4>1, OffsetsGrow
      <4> QED
        BY <1>3, <1>6, <3>1, <4>2
    <3> QED
      BY <1>3, <2>3, <3>2, <3>3
  <2> QED
    BY <1>3, <2>1, <2>2, <2>3
<1>9. Max(here) = i
  <2>1. Max({i}) = i
    BY <1>3 DEF Max
  <2> QED
    BY <1>8, <2>1
<1>10. p \in 0 .. MsgSize(types) - 1
  BY <1>3, <1>6
<1>11. pack_values(types, values)[p] = IF here = {} THEN 0 ELSE Digit(values[Max(here)], At(Max(here)))
  BY <1>10, Zenon DEF pack_values
<1>12. pack_values(types, values)[p] = Digit(values[i], b)
  <2> HIDE DEF here, At
  <2> QED
    BY <1>7, <1>8, <1>9, <1>11
<1> QED
  BY <1>3, <1>5, <1>12

\* The weights of bytes: a loop that multiplies, as long as one likes.
LEMMA Multiplying ==
    \E f \in [Nat -> Nat \ {0}] : f[0] = 1 /\ \A n \in Nat : f[n + 1] = BYTE * f[n]
<1> DEFINE X == Nat \ {0}
<1>0. BYTE \in Nat /\ BYTE > 0
  BY HandlesAssumption
<1>1. PICK step : step = [p \in Nat \X X |-> BYTE * p[2]]
  OBVIOUS
<1>2. \A i \in Nat, y \in X : step[<<i, y>>] = BYTE * y /\ BYTE * y \in X
  <2>1. \A y \in X : BYTE * y \in X
    BY <1>0
  <2> QED
    BY <1>1, <2>1
<1>3. \A n \in Nat : \E g : Loop(X, 1, step, n, g)
  <2> SUFFICES ASSUME NEW n \in Nat PROVE \E g : Loop(X, 1, step, n, g)
    OBVIOUS
  <2>1. PICK W : W = Nat
    OBVIOUS
  <2>2. step \in [W \X X -> X] /\ 1 .. n \subseteq W
    <3>1. \A y \in X : BYTE * y \in X
      BY <1>0
    <3> QED
      BY <1>1, <2>1, <3>1
  <2>3. PICK x \in X : x = 1
    OBVIOUS
  <2> HIDE DEF X
  <2>4. \E g : Loop(X, x, step, n, g)
    BY <2>2, LoopExists
  <2> QED
    BY <2>3, <2>4
<1> DEFINE P(n) == CHOOSE g : Loop(X, 1, step, n, g)
           f == [n \in Nat |-> P(n)[n]]
<1>9. ASSUME NEW n \in Nat PROVE Loop(X, 1, step, n, P(n))
  BY <1>3, Zenon
<1> HIDE DEF P
<1>4. \A n \in Nat : P(n)[n] \in X /\ P(n)[0] = 1
  BY <1>9 DEF Loop
<1>5. ASSUME NEW n \in Nat PROVE f[n + 1] = BYTE * f[n]
  <2>1. P(n)[n] = P(n + 1)[n]
    <3>1. n + 1 \in Nat /\ n <= n + 1
      OBVIOUS
    <3> QED
      BY <1>9, <3>1, LoopsAgree
  <2>2. n + 1 \in Nat /\ n + 1 \in 1 .. n + 1 /\ (n + 1) - 1 = n
    OBVIOUS
  <2>3. P(n + 1)[n + 1] = step[<<n + 1, P(n + 1)[n]>>]
    <3>1. Loop(X, 1, step, n + 1, P(n + 1))
      BY <1>9, <2>2
    <3> QED
      BY <2>2, <3>1 DEF Loop
  <2>4. step[<<n + 1, P(n)[n]>>] = BYTE * P(n)[n]
    BY <1>2, <1>4, <2>2
  <2> QED
    BY <2>1, <2>2, <2>3, <2>4
<1>6. f \in [Nat -> X] /\ f[0] = 1
  BY <1>4
<1> QED
  BY <1>5, <1>6

\* Weight is what it is defined to be.
LEMMA Weights ==
    /\ Weight[0] = 1
    /\ \A n \in Nat : Weight[n + 1] = BYTE * Weight[n] /\ Weight[n] \in Nat /\ Weight[n] > 0
<1> DEFINE Body(g) == [b \in Nat |-> IF b = 0 THEN 1 ELSE BYTE * g[b - 1]]
<1>1. PICK f \in [Nat -> Nat \ {0}] : f[0] = 1 /\ \A n \in Nat : f[n + 1] = BYTE * f[n]
  BY Multiplying
<1>2. f = Body(f)
  <2>1. ASSUME NEW n \in Nat PROVE f[n] = IF n = 0 THEN 1 ELSE BYTE * f[n - 1]
    <3>1. CASE n = 0
      BY <1>1, <3>1
    <3>2. CASE n # 0
      <4>1. n - 1 \in Nat /\ (n - 1) + 1 = n
        BY <3>2
      <4> QED
        BY <1>1, <3>2, <4>1
    <3> QED
      BY <3>1, <3>2
  <2> QED
    BY <2>1
<1>3. PICK w : w = Weight
  OBVIOUS
<1>4. w = Body(w)
  <2>1. w = CHOOSE g : g = Body(g)
    BY <1>3 DEF Weight
  <2> HIDE DEF Body
  <2> QED
    BY <1>2, <2>1
<1>5. w[0] = 1 /\ \A n \in Nat : w[n + 1] = BYTE * w[n]
  <2>1. ASSUME NEW n \in Nat PROVE w[n + 1] = BYTE * w[n]
    <3>1. n + 1 \in Nat /\ n + 1 # 0 /\ (n + 1) - 1 = n
      OBVIOUS
    <3> QED
      BY <1>4, <3>1
  <2> QED
    BY <1>4, <2>1
<1>6. ASSUME NEW n \in Nat PROVE w[n] = f[n]
  <2> DEFINE T == {i \in 0 .. n : w[i] = f[i]}
  <2>1. 0 \in T
    BY <1>1, <1>5
  <2>2. ASSUME NEW i \in 1 .. n, i - 1 \in T PROVE i \in T
    <3>1. i - 1 \in Nat /\ (i - 1) + 1 = i
      OBVIOUS
    <3>2. w[i] = BYTE * w[i - 1] /\ f[i] = BYTE * f[i - 1]
      BY <1>1, <1>5, <3>1
    <3> QED
      BY <2>2, <3>2
  <2>3. n \in T
    <3>1. n \in 0 .. n
      OBVIOUS
    <3> HIDE DEF T
    <3> QED
      BY <2>1, <2>2, <3>1, Induct
  <2> QED
    BY <2>3
<1> QED
  BY <1>1, <1>3, <1>5, <1>6

\* The bytes of a field are these.
Carries(bytes, first, size, d) ==
    /\ d \in [0 .. size - 1 -> Nat]
    /\ \A b \in 0 .. size - 1 : bytes[first + b] = d[b]

\* Some f has the sums of the first digits, up to v.
AddsUpTo(size, d, v) ==
    \E f \in [0 .. size -> Nat] :
        /\ f[0] = 0
        /\ \A b \in 1 .. size : f[b] = f[b - 1] + d[b - 1] * Weight[b - 1]
        /\ v = f[size]

\* The value that unpack_values adds up.
LEMMA ValueSteps ==
    ASSUME NEW bytes, NEW first \in Nat, NEW size \in Nat, NEW d, Carries(bytes, first, size, d)
    PROVE  AddsUpTo(size, d, Value(bytes, first, size))
<1> DEFINE Body(g) == [b \in 0 .. size |->
              IF b = 0 THEN 0 ELSE g[b - 1] + bytes[first + b - 1] * Weight[b - 1]]
<1>1. PICK a : a = [b \in 1 .. size |-> d[b - 1] * Weight[b - 1]]
  OBVIOUS
<1>2. a \in [1 .. size -> Nat] /\ \A b \in 1 .. size : a[b] = d[b - 1] * Weight[b - 1]
  <2>1. ASSUME NEW b \in 1 .. size PROVE d[b - 1] * Weight[b - 1] \in Nat
    <3>1. b - 1 \in Nat /\ b - 1 \in 0 .. size - 1
      OBVIOUS
    <3>2. PICK x \in Nat, y \in Nat : x = d[b - 1] /\ y = Weight[b - 1]
      BY <3>1, Weights DEF Carries
    <3>3. x * y \in Nat
      OBVIOUS
    <3> QED
      BY <3>2, <3>3
  <2> QED
    BY <1>1, <2>1
<1>3. PICK f \in [0 .. size -> Nat] : f[0] = 0 /\ \A b \in 1 .. size : f[b] = f[b - 1] + a[b]
  BY <1>2, Sums
<1>4. f = Body(f)
  <2>1. ASSUME NEW b \in 0 .. size, b # 0
        PROVE  f[b] = f[b - 1] + bytes[first + b - 1] * Weight[b - 1]
    <3>1. b \in 1 .. size
      BY <2>1
    <3>2. f[b] = f[b - 1] + a[b]
      BY <1>3, <3>1
    <3>3. bytes[first + b - 1] = d[b - 1]
      <4>1. b - 1 \in 0 .. size - 1 /\ first + b - 1 = first + (b - 1)
        BY <3>1
      <4> QED
        BY <4>1 DEF Carries
    <3>4. a[b] = d[b - 1] * Weight[b - 1]
      BY <1>2, <3>1
    <3> QED
      BY <3>2, <3>3, <3>4, Zenon
  <2>2. \A b \in 0 .. size : f[b] = IF b = 0 THEN 0 ELSE f[b - 1] + bytes[first + b - 1] * Weight[b - 1]
    BY <1>3, <2>1, Zenon
  <2>3. DOMAIN f = 0 .. size
    BY <1>3
  <2>4. f = [b \in 0 .. size |-> f[b]]
    BY <1>3
  <2> QED
    BY <2>2, <2>4, Zenon
<1>5. PICK g : g = CHOOSE h : h = Body(h)
  OBVIOUS
<1>6. Value(bytes, first, size) = g[size]
  BY <1>5 DEF Value
<1>7. g = Body(g)
  <2> HIDE DEF Body
  <2> QED
    BY <1>4, <1>5
<1>8. g[0] = 0 /\ \A b \in 1 .. size : g[b] = g[b - 1] + a[b]
  <2>1. ASSUME NEW b \in 1 .. size PROVE g[b] = g[b - 1] + a[b]
    <3>1. b \in 0 .. size /\ b # 0
      OBVIOUS
    <3>2. g[b] = g[b - 1] + bytes[first + b - 1] * Weight[b - 1]
      BY <1>7, <3>1
    <3>3. bytes[first + b - 1] = d[b - 1]
      <4>1. b - 1 \in 0 .. size - 1 /\ first + b - 1 = first + (b - 1)
        OBVIOUS
      <4> QED
        BY <4>1 DEF Carries
    <3>4. a[b] = d[b - 1] * Weight[b - 1]
      BY <1>2
    <3> QED
      BY <3>2, <3>3, <3>4, Zenon
  <2>2. g[0] = 0
    BY <1>7
  <2> QED
    BY <2>1, <2>2
<1>9. g[size] = f[size]
  <2> DEFINE T == {b \in 0 .. size : g[b] = f[b]}
  <2>1. 0 \in T /\ \A b \in 1 .. size : b - 1 \in T => b \in T
    BY <1>3, <1>8
  <2>2. \A b \in 0 .. size : b \in T
    <3> HIDE DEF T
    <3> QED
      BY <2>1, Induct
  <2> QED
    BY <2>2
<1>10. \A b \in 1 .. size : f[b] = f[b - 1] + d[b - 1] * Weight[b - 1]
  BY <1>2, <1>3
<1>11. Value(bytes, first, size) = f[size]
  BY <1>6, <1>9
<1> QED
  BY <1>3, <1>10, <1>11, Zenon DEF AddsUpTo

\* The digits of a value make it up again, as far as there are bytes.
LEMMA Digits ==
    ASSUME NEW bytes, NEW first \in Nat, NEW size \in Nat, NEW v \in Nat,
           NEW d, d = [b \in 0 .. size - 1 |-> Digit(v, b)], Carries(bytes, first, size, d)
    PROVE  Value(bytes, first, size) = v % Weight[size]
<1>1. BYTE \in Nat /\ BYTE > 0
  BY HandlesAssumption
<1>2. PICK f \in [0 .. size -> Nat] :
         /\ f[0] = 0
         /\ \A b \in 1 .. size : f[b] = f[b - 1] + d[b - 1] * Weight[b - 1]
         /\ Value(bytes, first, size) = f[size]
  <2>1. Carries(bytes, first, size, d)
    OBVIOUS
  <2>2. AddsUpTo(size, d, Value(bytes, first, size))
    BY <2>1, ValueSteps
  <2> QED
    BY <2>2, Zenon DEF AddsUpTo
<1> DEFINE T == {b \in 0 .. size : f[b] = v % Weight[b]}
<1>3. 0 \in T
  <2>1. v % 1 = 0
    OBVIOUS
  <2>2. v % Weight[0] = 0
    BY <2>1, Weights
  <2> QED
    BY <1>2, <2>2
<1>4. ASSUME NEW b \in 1 .. size, b - 1 \in T PROVE b \in T
  <2>1. b - 1 \in Nat /\ (b - 1) + 1 = b /\ b - 1 \in 0 .. size - 1
    OBVIOUS
  <2>2. PICK w \in Nat : w = Weight[b - 1] /\ w > 0 /\ Weight[b] = BYTE * w
    BY <2>1, Weights
  <2>3. w > 0
    BY <2>2
  <2>4. PICK x \in Nat : x = v % w
    BY <2>3, DivMod
  <2>5. PICK q \in Nat : q = (v \div w) % BYTE
    <3>1. v \div w \in Nat
      BY <2>3, DivMod
    <3> QED
      BY <1>1, <3>1, DivMod
  <2>6. v % (BYTE * w) = ((v \div w) % BYTE) * w + (v % w)
    BY <1>1, <2>3, ModSplit
  <2>7. d[b - 1] = q /\ f[b - 1] = x
    BY <1>4, <2>1, <2>2, <2>4, <2>5 DEF Digit
  <2>8. f[b] = x + q * w
    BY <1>2, <2>2, <2>7
  <2>9. PICK y \in Nat : y = q * w
    OBVIOUS
  <2> QED
    BY <2>2, <2>4, <2>5, <2>6, <2>8, <2>9
<1>5. size \in T
  <2>1. size \in 0 .. size
    OBVIOUS
  <2> HIDE DEF T
  <2> QED
    BY <1>3, <1>4, <2>1, Induct
<1> QED
  BY <1>2, <1>5

\* What is unpacked is what was packed, cut to the width of its field.
LEMMA Unpacked ==
    ASSUME NEW types \in Seq(STRING), NEW values \in Seq(Nat), Len(values) = Len(types),
           NEW i \in DOMAIN types
    PROVE  unpack_values(types, pack_values(types, values))[i] =
              values[i] % Weight[default_size(types[i])]
<1>1. i \in 1 .. Len(types) /\ values[i] \in Nat
  OBVIOUS
<1>2. PICK v \in Nat : v = values[i]
  BY <1>1
<1>3. PICK size \in Nat : size = default_size(types[i])
  BY SizeType
<1>4. PICK msg : msg = pack_values(types, values)
  OBVIOUS
<1>5. PICK first \in Nat : first = Offset(types, i)
  <2>1. BytesOf(types, i - 1) \in Nat
    <3>1. PICK n \in Nat : n = Len(types)
      OBVIOUS
    <3>2. PICK f \in [0 .. n -> Nat] : \A j \in 0 .. n : BytesOf(types, j) = f[j]
      BY <3>1, BytesSteps
    <3>3. i - 1 \in 0 .. n
      BY <1>1, <3>1
    <3> QED
      BY <3>2, <3>3
  <2> QED
    BY <2>1 DEF Offset
<1>6. ASSUME NEW b \in 0 .. size - 1 PROVE msg[first + b] = Digit(v, b)
  <2>1. b \in Nat /\ b < default_size(types[i])
    BY <1>3
  <2>2. pack_values(types, values)[Offset(types, i) + b] = Digit(values[i], b)
    BY <1>1, <2>1, Packed
  <2> QED
    BY <1>2, <1>4, <1>5, <2>2
<1>7. Value(msg, first, size) = v % Weight[size]
  <2>1. PICK d : d = [b \in 0 .. size - 1 |-> Digit(v, b)]
    OBVIOUS
  <2>2. ASSUME NEW b \in 0 .. size - 1 PROVE Digit(v, b) \in Nat
    <3>0. b \in Nat
      OBVIOUS
    <3>1. PICK w \in Nat : w = Weight[b] /\ w > 0
      BY <3>0, Weights
    <3>2. v \div w \in Nat
      BY <3>1, DivMod
    <3>3. BYTE \in Nat /\ BYTE > 0
      BY HandlesAssumption
    <3>4. (v \div w) % BYTE \in Nat
      BY <3>2, <3>3, DivMod
    <3> QED
      BY <3>1, <3>4 DEF Digit
  <2>3. Carries(msg, first, size, d)
    BY <1>6, <2>1, <2>2 DEF Carries
  <2> QED
    BY <2>1, <2>3, Digits
<1>8. unpack_values(types, msg)[i] = Value(msg, first, size)
  BY <1>3, <1>5 DEF unpack_values
<1> QED
  BY <1>2, <1>3, <1>4, <1>7, <1>8

\* A frame as encode makes it.
Sent(f) ==
    /\ f.types \in Schemas /\ f.values \in Values
    /\ Len(f.values) = Len(f.types)
    /\ \E cut : f.msg = pack_values(f.types, OnWire(f.types, f.values, cut))

\* All frames in transit were made by encode.
Sending == \E S : link \in Seq(S) /\ \A f \in S : Sent(f)

\* A handle packs and unpacks by its own types.
LEMMA OwnTypes ==
    ASSUME Owned, NEW p \in DOMAIN heap
    PROVE  TypesOf(heap, p) = heap[p].types
BY DEF Owned, OneOwner, TypesOf

\* What encode puts on the link is such a frame, and nothing else comes there.
LEMMA SendingStays ==
    ASSUME Owned, Typed, Sending, [Next]_vars
    PROVE  Sending'
<1>1. CASE UNCHANGED link
  BY <1>1 DEF Sending, Sent
<1>2. ASSUME NEW frame, Sent(frame), link' = Append(link, frame) PROVE Sending'
  <2>1. PICK S : link \in Seq(S) /\ \A f \in S : Sent(f)
    BY DEF Sending
  <2>2. PICK R : R = S \cup {frame}
    OBVIOUS
  <2>3. link \in Seq(R) /\ frame \in R
    BY <2>1, <2>2
  <2>4. link' \in Seq(R)
    BY <1>2, <2>3
  <2>5. \A f \in R : Sent(f)
    BY <1>2, <2>1, <2>2
  <2> QED
    BY <2>4, <2>5 DEF Sending, Sent
<1>3. CASE link # << >> /\ link' = Tail(link)
  <2>1. PICK S : link \in Seq(S) /\ \A f \in S : Sent(f)
    BY DEF Sending
  <2>2. link' \in Seq(S)
    BY <1>3, <2>1
  <2> QED
    BY <2>1, <2>2 DEF Sending, Sent
<1>4. ASSUME NEW c \in Codecs, NEW values \in Values, Encode(c, values) PROVE Sending'
  <2>1. CASE UNCHANGED link
    BY <1>1, <2>1
  <2>2. CASE ~UNCHANGED link
    <3>1. PICK p : p = codec[c].ptr
      OBVIOUS
    <3>2. p # NULL /\ Len(values) = Len(heap[p].types)
      BY <1>4, <2>2, <3>1 DEF Encode, Open
    <3>3. p \in DOMAIN heap
      BY <3>1, <3>2, PointersLead
    <3>4. PICK cut, frame :
             /\ frame = [ was |-> Encoded(heap, p, values, cut).frame.was,
                          msg |-> Encoded(heap, p, values, cut).frame.msg,
                          types |-> heap[p].types, values |-> values ]
             /\ link' = Append(link, frame)
      BY <1>4, <2>2, <3>1, <3>2 DEF Encode, Open
    <3>5. link' = Append(link, frame)
      BY <3>4
    <3>6. frame.msg = pack_values(TypesOf(heap, p), OnWire(TypesOf(heap, p), values, cut))
      BY <3>4 DEF Encoded
    <3>7. frame.types = heap[p].types /\ frame.values = values
      BY <3>4
    <3>8. heap[p].types \in Schemas
      BY <3>3 DEF Typed, Fitting
    <3>9. Sent(frame)
      BY <3>2, <3>3, <3>6, <3>7, <3>8, OwnTypes DEF Sent
    <3> QED
      BY <1>2, <3>5, <3>9
  <2> QED
    BY <2>1, <2>2
<1>5. ASSUME NEW c \in Codecs, Decode(c) PROVE Sending'
  BY <1>3, <1>5 DEF Decode
<1> QED
  BY <1>1, <1>4, <1>5
  DEF Next, vars, New, TakeSnapshot, RestoreFrom, Reset, SeedMfu, Manage,
      Exit, FreeSnapshot, CollectCodec, CollectSnapshot, LetGo

\* What a field keeps of a value, and of that what is on the wire, are numbers
\* within the field.
LEMMA WireFits ==
    ASSUME NEW types \in Seq(STRING), NEW values \in Seq(Nat), Len(values) = Len(types), NEW cut
    PROVE  /\ OnWire(types, values, cut) \in Seq(Nat)
           /\ Len(OnWire(types, values, cut)) = Len(types)
           /\ \A i \in DOMAIN types :
                 /\ Stored(types, values, i) \in 0 .. Weight[default_size(types[i])] - 1
                 /\ Stored(types, values, i) % Room(types[i])
                       \in 0 .. Weight[default_size(types[i])] - 1
                 /\ OnWire(types, values, cut)[i] \in 0 .. Weight[default_size(types[i])] - 1
<1>1. ASSUME NEW i \in DOMAIN types
      PROVE  /\ Stored(types, values, i) \in 0 .. Weight[default_size(types[i])] - 1
             /\ Stored(types, values, i) % Room(types[i])
                   \in 0 .. Weight[default_size(types[i])] - 1
             /\ Weight[default_size(types[i])] > 0
  <2>1. PICK v \in Nat : v = values[i]
    OBVIOUS
  <2>2. PICK w \in Nat : w = Weight[default_size(types[i])] /\ w > 0
    BY SizeType, Weights
  <2>3. PICK x : x = Stored(types, values, i)
    OBVIOUS
  <2>4. x = v % w /\ x \in 0 .. w - 1
    BY <2>1, <2>2, <2>3 DEF Stored
  <2>5. PICK r \in Nat : r = Room(types[i]) /\ r > 0
    BY <2>2, HandlesAssumption DEF Room
  <2>6. x % r \in 0 .. w - 1
    <3>1. x \in Nat /\ x % r \in 0 .. r - 1
      BY <2>4, <2>5
    <3>2. x % r <= x
      BY <2>4, <2>5, DivMod
    <3> QED
      BY <2>2, <2>4, <2>5, <3>1, <3>2
  <2> QED
    BY <2>2, <2>3, <2>4, <2>5, <2>6
<1>2. PICK n \in Nat : n = Len(types) /\ DOMAIN types = 1 .. n
  OBVIOUS
<1>3. PICK wire : wire = OnWire(types, values, cut)
  OBVIOUS
<1>4. /\ wire = [i \in 1 .. n |-> wire[i]]
      /\ \A i \in 1 .. n : wire[i] \in {0, Stored(types, values, i) % Room(types[i]),
                                           Stored(types, values, i)}
  BY <1>2, <1>3 DEF OnWire
<1>5. ASSUME NEW i \in DOMAIN types PROVE wire[i] \in 0 .. Weight[default_size(types[i])] - 1
  <2>1. PICK w \in Nat : w = Weight[default_size(types[i])]
    BY SizeType, Weights
  <2>2. w > 0
    BY <1>1, <2>1
  <2> QED
    BY <1>1, <1>2, <1>4, <2>1, <2>2
<1>6. \A i \in 1 .. n : wire[i] \in Nat
  <2> SUFFICES ASSUME NEW i \in 1 .. n PROVE wire[i] \in Nat
    OBVIOUS
  <2>1. PICK w \in Nat : w = Weight[default_size(types[i])]
    BY <1>2, SizeType, Weights
  <2> QED
    BY <1>2, <1>5, <2>1
<1>7. wire \in Seq(Nat) /\ Len(wire) = n
  <2>1. wire \in [1 .. n -> Nat]
    BY <1>4, <1>6
  <2> QED
    BY <2>1
<1> QED
  BY <1>1, <1>2, <1>3, <1>5, <1>7

\* A value whose field lies behind no id that lost bits is there as it was
\* stored, or in the room that a compressed frame has.
LEMMA WireKeeps ==
    ASSUME NEW types, NEW values, NEW cut, NEW i \in DOMAIN types,
           \A j \in 1 .. i - 1 :
              types[j] = "INSTRUMENT" => Stored(types, values, j) < RAW_IDS,
           \A j \in 1 .. i - 1 : Stored(types, values, j) \in Nat
    PROVE  OnWire(types, values, cut)[i] \in
              {Stored(types, values, i), Stored(types, values, i) % Room(types[i])}
<1>1. \A j \in 1 .. i - 1 :
         ~(types[j] = "INSTRUMENT" /\ j \in cut /\ Stored(types, values, j) >= RAW_IDS)
  <2> SUFFICES ASSUME NEW j \in 1 .. i - 1, types[j] = "INSTRUMENT",
                      Stored(types, values, j) >= RAW_IDS
               PROVE  FALSE
    OBVIOUS
  <2>1. RAW_IDS \in Nat
    BY HandlesAssumption
  <2>2. PICK x \in Nat : x = Stored(types, values, j)
    OBVIOUS
  <2> QED
    BY <2>1, <2>2
<1> QED
  BY <1>1 DEF OnWire

\* A frame from the same state and schema gives what is on the wire.
LEMMA FrameOpened ==
    ASSUME Owned, NEW p \in DOMAIN heap, NEW frame, Sent(frame),
           frame.was = heap[p].coded, frame.types = heap[p].types
    PROVE  \E cut : \A i \in DOMAIN frame.types :
              Decoded(heap, p, frame).values[i] = OnWire(frame.types, frame.values, cut)[i]
<1>1. TypesOf(heap, p) = frame.types
  BY OwnTypes
<1>2. PICK types \in Seq(STRING), values \in Seq(Nat) :
         types = frame.types /\ values = frame.values /\ Len(values) = Len(types)
  BY BindingsAssumption DEF Sent
<1>3. PICK cut : frame.msg = pack_values(types, OnWire(types, values, cut))
  BY <1>2 DEF Sent
<1>4. PICK wire : wire = OnWire(types, values, cut)
  OBVIOUS
<1>5. /\ wire \in Seq(Nat) /\ Len(wire) = Len(types)
      /\ \A i \in DOMAIN types : wire[i] \in 0 .. Weight[default_size(types[i])] - 1
  BY <1>2, <1>4, WireFits
<1>6. DOMAIN frame.msg = 0 .. MsgSize(types) - 1
  BY <1>3 DEF pack_values
<1>7. Decoded(heap, p, frame).values = unpack_values(types, frame.msg)
  BY <1>1, <1>2, <1>6 DEF Decoded
<1>8. ASSUME NEW i \in DOMAIN types PROVE unpack_values(types, frame.msg)[i] = wire[i]
  <2>1. unpack_values(types, pack_values(types, wire))[i] = wire[i] % Weight[default_size(types[i])]
    BY <1>5, Unpacked
  <2>2. PICK w \in Nat : w = Weight[default_size(types[i])]
    BY SizeType, Weights
  <2>3. wire[i] % w = wire[i]
    <3>1. PICK x \in 0 .. w - 1 : x = wire[i]
      BY <1>5, <2>2
    <3>2. x \in Nat /\ x < w /\ w > 0
      OBVIOUS
    <3>3. x = 0 * w + x
      BY <3>2
    <3>4. x % w = x
      BY <3>2, <3>3, DivUnique
    <3> QED
      BY <3>1, <3>4
  <2> QED
    BY <1>3, <1>4, <2>1, <2>2, <2>3
<1> QED
  BY <1>2, <1>4, <1>7, <1>8

\* Every decode delivers what was sent.
LEMMA DecodeDelivers ==
    ASSUME Owned, Sending, NEW c \in Codecs, Decode(c)
    PROVE  Delivered'
<1>1. PICK S : link \in Seq(S) /\ \A f \in S : Sent(f)
  BY DEF Sending
<1>2. PICK frame : frame = Head(link)
  OBVIOUS
<1>3. Sent(frame)
  BY <1>1, <1>2 DEF Decode
<1>4. PICK p : p = codec[c].ptr
  OBVIOUS
<1>5. CASE answer'.about = NULL
  BY <1>5 DEF Delivered
<1>6. CASE answer'.about # NULL
  <2>1. p # NULL
    BY <1>4, <1>6 DEF Decode, Open, Call
  <2>2. p \in DOMAIN heap
    BY <1>4, <2>1, PointersLead
  <2>3. PICK got : got = Decoded(heap, p, frame).values
    OBVIOUS
  <2>4. answer'.about = IF frame.was = heap[p].coded /\ frame.types = heap[p].types
                        THEN [types |-> frame.types, sent |-> frame.values, got |-> got]
                        ELSE NULL
    BY <1>2, <1>4, <2>1, <2>3 DEF Decode, Open, Call
  <2>5. frame.was = heap[p].coded /\ frame.types = heap[p].types
    BY <1>6, <2>4
  <2>6. PICK cut : \A i \in DOMAIN frame.types :
           got[i] = OnWire(frame.types, frame.values, cut)[i]
    BY <1>3, <2>2, <2>3, <2>5, FrameOpened
  <2>7. /\ answer'.about.types = frame.types
        /\ answer'.about.sent = frame.values
        /\ answer'.about.got = got
    BY <2>4, <2>5
  <2>8. PICK types \in Seq(STRING), values \in Seq(Nat) :
           types = frame.types /\ values = frame.values /\ Len(values) = Len(types)
    BY <1>3, BindingsAssumption DEF Sent
  <2>9. ASSUME NEW i \in DOMAIN types,
               \A j \in 1 .. i - 1 :
                  types[j] = "INSTRUMENT" => Stored(types, values, j) < RAW_IDS
        PROVE  got[i] \in {Stored(types, values, i), Stored(types, values, i) % Room(types[i])}
    <3>1. \A j \in 1 .. i - 1 : Stored(types, values, j) \in Nat
      <4> SUFFICES ASSUME NEW j \in 1 .. i - 1 PROVE Stored(types, values, j) \in Nat
        OBVIOUS
      <4>1. j \in DOMAIN types
        OBVIOUS
      <4>2. PICK w \in Nat : w = Weight[default_size(types[j])]
        BY SizeType, Weights
      <4>3. Stored(types, values, j) \in 0 .. w - 1
        BY <2>8, <4>1, <4>2, WireFits
      <4> QED
        BY <4>2, <4>3
    <3> QED
      BY <2>6, <2>8, <2>9, <3>1, WireKeeps
  <2> QED
    BY <2>7, <2>8, <2>9 DEF Delivered
<1> QED
  BY <1>5, <1>6

\* No other call answers a decode.
LEMMA NextDelivers == Owned /\ Sending /\ Delivered /\ [Next]_vars => Delivered'
<1> SUFFICES ASSUME Owned, Sending, Delivered, [Next]_vars PROVE Delivered'
  OBVIOUS
<1>1. CASE UNCHANGED answer
  BY <1>1 DEF Delivered
<1>2. ASSUME NEW name, NEW error, NEW about, name # "decode", Call(name, error, about)
      PROVE  Delivered'
  BY <1>2 DEF Call, Delivered
<1>3. ASSUME NEW c \in Codecs, NEW types \in Schemas, New(c, types) PROVE Delivered'
  BY <1>2, <1>3 DEF New
<1>4. ASSUME NEW c \in Codecs, NEW values \in Values, Encode(c, values) PROVE Delivered'
  BY <1>2, <1>4 DEF Encode
<1>5. ASSUME NEW c \in Codecs,
             \/ TakeSnapshot(c) \/ Reset(c) \/ SeedMfu(c) \/ Exit(c) \/ FreeSnapshot(c)
             \/ \E s \in Codecs : RestoreFrom(c, s)
      PROVE  Delivered'
  BY <1>2, <1>5 DEF TakeSnapshot, Reset, SeedMfu, Manage, Exit, FreeSnapshot, RestoreFrom
<1>6. ASSUME NEW c \in Codecs, LetGo(c) \/ CollectCodec(c) \/ CollectSnapshot(c)
      PROVE  Delivered'
  BY <1>1, <1>6 DEF LetGo, CollectCodec, CollectSnapshot
<1> QED
  BY <1>1, <1>3, <1>4, <1>5, <1>6, DecodeDelivers DEF Next, vars

\* What goes into encode comes out of decode, cut to the widths of the fields
\* and, for an INSTRUMENT or a BOOL, perhaps to the bits of a compressed frame,
\* for any schema the SDK takes and any values, in whatever state the two
\* codecs were brought by the program, if it is the same.
THEOREM ValuesDelivered == Spec => []Delivered
<1>1. Init => Sending /\ Delivered
  <2> SUFFICES ASSUME Init PROVE Sending /\ Delivered
    OBVIOUS
  <2>1. link \in Seq({})
    BY DEF Init
  <2> QED
    BY <2>1 DEF Init, Sending, Delivered
<1>2. Owned /\ Typed /\ Sending /\ [Next]_vars => Sending'
  BY SendingStays
<1> QED
  BY <1>1, <1>2, NextDelivers, AlwaysOwned, AlwaysTyped, PTL DEF Spec
===============================================================================

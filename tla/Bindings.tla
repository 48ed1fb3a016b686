------------------------------ MODULE Bindings ------------------------------
(***************************************************************************)
(* The Python and Rust bindings: objects that own a handle of the SDK, the *)
(* codecs of a program and the snapshots it takes of them.  Python frees a *)
(* handle on leaving a with block, in free_snapshot or when the object is  *)
(* collected, Rust when the object is dropped; what a program has let go   *)
(* of is collected in some order.                                          *)
(***************************************************************************)
EXTENDS Handles

CONSTANTS
    Codecs,         \* the codec objects of the program
    Language,       \* "python" or "rust", of each
    Schemas,        \* lists of field types it asks for
    Values,         \* lists of values it encodes
    BUFFER,         \* bytes of the bindings' output buffers: 256
    RUST_FIELDS,    \* fields Codec::new lets through: 256
    MAX_CALLS,      \* bound: calls
    LINK_SIZE       \* bound: frames in transit

\* A schema is a list of the names of field types, a value is unsigned.
ASSUME BindingsAssumption ==
    /\ Schemas \subseteq Seq(STRING) /\ Values \subseteq Seq(Nat)
    /\ MAX_CALLS \in Nat /\ LINK_SIZE \in Nat

VARIABLES
    heap,           \* the C heap
    codec,          \* codec objects: [ptr, phase]
    snapshot,       \* the snapshot object taken of each: [ptr, phase, coded],
                    \* with what had been coded (history)
    link,           \* frames in transit: [was, msg, types, values]
    answer,         \* of the last call: [call, error, about]; about: of a
                    \* decode, what was sent and what came out
    calls

vars == <<heap, codec, snapshot, link, answer, calls>>

Phase == {"none", "held", "dropped"}

Init ==
    /\ heap = << >>
    /\ codec = [c \in Codecs |-> [ptr |-> NULL, phase |-> "none"]]
    /\ snapshot = [c \in Codecs |-> [ptr |-> NULL, phase |-> "none", coded |-> << >>]]
    /\ link = << >>
    /\ answer = [call |-> "none", error |-> FALSE, about |-> NULL]
    /\ calls = 0

Call(name, error, about) ==
    /\ calls < MAX_CALLS
    /\ calls' = calls + 1
    /\ answer' = [call |-> name, error |-> error, about |-> about]

\* The program holds the object; the handle is gone once it was closed.
Held(c)   == codec[c].phase = "held"
Open(c)   == codec[c].ptr # NULL

\* What the constructors look at before they call the SDK.
Accepted(c, types) ==
    IF Language[c] = "python" THEN Len(types) > 0 ELSE Len(types) <= RUST_FIELDS

\* Codec.__init__, Codec::new; the allocation may fail.
New(c, types) ==
    /\ codec[c].phase = "none"
    /\ \/ /\ Accepted(c, types) /\ Creatable(types) /\ Free(heap) # {}
          /\ LET a == Place(heap)
             IN  /\ heap' = Allocated(heap, a, NewCodec(a, types))
                 /\ codec' = [codec EXCEPT ![c] = [ptr |-> a, phase |-> "held"]]
          /\ Call("new", FALSE, NULL)
       \/ Call("new", TRUE, NULL) /\ UNCHANGED <<heap, codec>>
    /\ UNCHANGED <<snapshot, link>>

\* Codec.encode, Codec::encode: a list of another length is refused, a closed
\* handle as well.  A frame may be as long as the message and its marker.
Encode(c, values) ==
    /\ Held(c)
    /\ Len(link) < LINK_SIZE
    /\ IF ~Open(c) \/ Len(values) # Len(heap[codec[c].ptr].types)
       THEN Call("encode", TRUE, NULL) /\ UNCHANGED <<heap, link>>
       ELSE \E cut \in Cuts(heap[codec[c].ptr].types) :
            LET p     == codec[c].ptr
                e     == Encoded(heap, p, values, cut)
                types == heap[p].types
            IN  /\ heap' = [heap EXCEPT ![p] = e.codec]
                /\ \/ /\ Call("encode", FALSE, NULL)
                      /\ link' = Append(link, [ was |-> e.frame.was, msg |-> e.frame.msg,
                                                types |-> types, values |-> values ])
                   \/ /\ 1 + MsgSize(types) > BUFFER
                      /\ Call("encode", TRUE, NULL)
                      /\ UNCHANGED link
    /\ UNCHANGED <<codec, snapshot>>

\* Codec.decode, Codec::decode of the next frame; answer tells what came out
\* of a frame that was made by this schema in this state.
Decode(c) ==
    /\ Held(c)
    /\ link # << >>
    /\ LET frame == Head(link)
       IN  IF ~Open(c)
           THEN Call("decode", TRUE, NULL) /\ UNCHANGED heap
           ELSE LET p == codec[c].ptr
                    d == Decoded(heap, p, frame)
                IN  /\ heap' = [heap EXCEPT ![p] = d.codec]
                    /\ Call("decode", FALSE,
                            IF frame.was = heap[p].coded /\ frame.types = heap[p].types
                            THEN [types |-> frame.types, sent |-> frame.values, got |-> d.values]
                            ELSE NULL)
    /\ link' = Tail(link)
    /\ UNCHANGED <<codec, snapshot>>

\* Codec.snapshot, Codec::snapshot
TakeSnapshot(c) ==
    /\ Held(c)
    /\ snapshot[c].phase = "none"
    /\ \/ /\ Open(c) /\ Free(heap) # {}
          /\ LET a == Place(heap)
             IN  /\ heap' = Allocated(heap, a, SnapshotAt(heap, a, codec[c].ptr))
                 /\ snapshot' = [snapshot EXCEPT ![c] =
                        [ptr |-> a, phase |-> "held", coded |-> heap[codec[c].ptr].coded]]
          /\ Call("snapshot", FALSE, NULL)
       \/ Call("snapshot", TRUE, NULL) /\ UNCHANGED <<heap, snapshot>>
    /\ UNCHANGED <<codec, link>>

\* Fault: the arguments of memcpy are swapped.
RestoreInto(c, s) ==
    /\ Held(c) /\ snapshot[s].phase = "held"
    /\ Language[c] = Language[s]
    /\ IF Open(c) /\ snapshot[s].ptr # NULL
       THEN heap' = [heap EXCEPT ![snapshot[s].ptr] = Restored(@, heap[codec[c].ptr])]
       ELSE UNCHANGED heap
    /\ Call("restore", FALSE, NULL)
    /\ UNCHANGED <<codec, snapshot, link>>

\* restore of c from the snapshot of s, an object of the same language.  The
\* SDK returns without a word when it gets NULL for either.
RestoreFrom(c, s) ==
    /\ Held(c) /\ snapshot[s].phase = "held"
    /\ Language[c] = Language[s]
    /\ IF Open(c) /\ snapshot[s].ptr # NULL
       THEN heap' = [heap EXCEPT ![codec[c].ptr] = Restored(@, heap[snapshot[s].ptr])]
       ELSE UNCHANGED heap
    /\ Call("restore", FALSE, NULL)
    /\ UNCHANGED <<codec, snapshot, link>>

\* reset and seed_mfu, of a closed codec without effect.
Manage(c, name, after) ==
    /\ Held(c)
    /\ heap' = [a \in DOMAIN heap |-> IF a = codec[c].ptr THEN after ELSE heap[a]]
    /\ Call(name, FALSE, NULL)
    /\ UNCHANGED <<codec, snapshot, link>>

Reset(c)   == Manage(c, "reset", Cleared(heap[codec[c].ptr]))
SeedMfu(c) == Manage(c, "seed", Seeded(heap[codec[c].ptr]))

-----------------------------------------------------------------------------
(* The end of handles and objects. *)

\* Fault: the handle is not freed.
ExitLeaks(c) ==
    /\ Held(c) /\ Language[c] = "python"
    /\ codec' = [codec EXCEPT ![c].ptr = NULL]
    /\ Call("exit", FALSE, NULL)
    /\ UNCHANGED <<heap, snapshot, link>>

\* Codec.__exit__
Exit(c) ==
    /\ Held(c) /\ Language[c] = "python"
    /\ heap' = Destroyed(heap, codec[c].ptr)
    /\ codec' = [codec EXCEPT ![c].ptr = NULL]
    /\ Call("exit", FALSE, NULL)
    /\ UNCHANGED <<snapshot, link>>

\* Fault: the snapshot keeps the pointer that was freed.
FreeSnapshotKeeps(c) ==
    /\ snapshot[c].phase = "held" /\ Language[c] = "python"
    /\ heap' = Destroyed(heap, snapshot[c].ptr)
    /\ Call("free", FALSE, NULL)
    /\ UNCHANGED <<codec, snapshot, link>>

\* Codec.free_snapshot
FreeSnapshot(c) ==
    /\ snapshot[c].phase = "held" /\ Language[c] = "python"
    /\ heap' = Destroyed(heap, snapshot[c].ptr)
    /\ snapshot' = [snapshot EXCEPT ![c].ptr = NULL]
    /\ Call("free", FALSE, NULL)
    /\ UNCHANGED <<codec, link>>

\* The program lets go of an object,
LetGo(c) ==
    /\ \/ /\ codec[c].phase = "held"
          /\ codec' = [codec EXCEPT ![c].phase = "dropped"]
          /\ UNCHANGED snapshot
       \/ /\ snapshot[c].phase = "held"
          /\ snapshot' = [snapshot EXCEPT ![c].phase = "dropped"]
          /\ UNCHANGED codec
    /\ UNCHANGED <<heap, link, answer, calls>>

\* and __del__ or drop runs, codec or snapshot.
CollectCodec(c) ==
    /\ codec[c].phase = "dropped"
    /\ heap' = Destroyed(heap, codec[c].ptr)
    /\ codec' = [codec EXCEPT ![c] = [ptr |-> NULL, phase |-> "none"]]
    /\ UNCHANGED <<snapshot, link, answer, calls>>

CollectSnapshot(c) ==
    /\ snapshot[c].phase = "dropped"
    /\ heap' = Destroyed(heap, snapshot[c].ptr)
    /\ snapshot' = [snapshot EXCEPT ![c] = [ptr |-> NULL, phase |-> "none", coded |-> << >>]]
    /\ UNCHANGED <<codec, link, answer, calls>>

Next ==
    \E c \in Codecs :
        \/ \E types \in Schemas : New(c, types)
        \/ \E values \in Values : Encode(c, values)
        \/ Decode(c)
        \/ TakeSnapshot(c)
        \/ \E s \in Codecs : RestoreFrom(c, s)
        \/ Reset(c) \/ SeedMfu(c)
        \/ Exit(c) \/ FreeSnapshot(c)
        \/ LetGo(c) \/ CollectCodec(c) \/ CollectSnapshot(c)

\* Only the collection of objects is certain.
Spec ==
    /\ Init /\ [][Next]_vars
    /\ \A c \in Codecs : WF_vars(CollectCodec(c)) /\ WF_vars(CollectSnapshot(c))

-----------------------------------------------------------------------------
Pointers == {codec[c].ptr : c \in Codecs} \cup {snapshot[c].ptr : c \in Codecs}

\* Objects and handles are of their types.
TypeOK ==
    /\ \A a \in DOMAIN heap :
          Len(heap[a].types) \in 1 .. MAX_FIELDS /\ MsgSize(heap[a].types) <= MAX_MSG
    /\ \A c \in Codecs : codec[c].ptr \in Addr \cup {NULL} /\ codec[c].phase \in Phase
    /\ \A c \in Codecs : snapshot[c].ptr \in Addr \cup {NULL} /\ snapshot[c].phase \in Phase
    /\ Len(link) <= LINK_SIZE /\ calls \in 0 .. MAX_CALLS

\* Every handle has one owner and no owner has a handle that was freed: what
\* is freed is never used or freed again, in whatever order the program and
\* the collector end codecs and their snapshots.  Nor does a handle, after a
\* snapshot or a restore, lead into another one, which may be freed at any
\* time: it reads the schema it was created with, in its own memory.
OneOwner ==
    /\ DOMAIN heap = Pointers \ {NULL}
    /\ \A c, d \in Codecs :
          /\ codec[c].ptr # NULL => codec[c].ptr # snapshot[d].ptr
          /\ c # d /\ codec[c].ptr # NULL => codec[c].ptr # codec[d].ptr
          /\ c # d /\ snapshot[c].ptr # NULL => snapshot[c].ptr # snapshot[d].ptr
    /\ \A a \in DOMAIN heap : heap[a].schema = a /\ heap[a].fields = a

\* A snapshot stays as it was taken, whatever happens to its codec.
SnapshotKept ==
    \A c \in Codecs :
        snapshot[c].ptr # NULL => heap[snapshot[c].ptr].coded = snapshot[c].coded

\* What comes out of a frame is what went in, each value cut to its field, by
\* offsets and widths that do not overlap.  An INSTRUMENT or a BOOL may have
\* gone through fewer bits than its field has; where no id before has lost
\* any, that is all that happens to a value, in whatever state the codecs
\* were brought and whoever owns them.
Delivered ==
    answer.call = "decode" /\ answer.about # NULL =>
        LET types     == answer.about.types
            Given(i) == Stored(types, answer.about.sent, i)
            Whole(j) == types[j] = "INSTRUMENT" => Given(j) < RAW_IDS
        IN  \A i \in DOMAIN types :
                (\A j \in 1 .. i - 1 : Whole(j)) =>
                    answer.about.got[i] \in {Given(i), Given(i) % Room(types[i])}

\* When the program has let go of everything for good, all memory is given
\* back in the end.
AllLetGo == \A c \in Codecs : codec[c].phase # "held" /\ snapshot[c].phase # "held"
Returned == <>[]AllLetGo => <>[](DOMAIN heap = {})
=============================================================================

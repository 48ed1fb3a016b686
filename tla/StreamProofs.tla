---------------------------- MODULE StreamProofs ----------------------------
(***************************************************************************)
(* What the stream guarantees for every schema, every set of messages and  *)
(* every choice of the bounds.                                             *)
(*                                                                         *)
(* Shape holds whatever the messages are and however calls fail: the       *)
(* encoder's cursors are the ones that EncodeField makes of each other,    *)
(* every frame in transit is what they wrote, and a literal that is being  *)
(* decoded is the message that was sent.  Linked relates the two sides: as *)
(* long as the encoder has not moved alone, each frame begins where the    *)
(* one before it ended, the first where the decoder is, and the decoder is *)
(* as far in a frame as the fields it has read.                            *)
(***************************************************************************)
EXTENDS Stream, CodecLemmas

\* What a codec can write.
Written == {EncodeField(c, Schema, fi, m).word : c \in SoundCursor, fi \in Fields(Schema), m \in Message(Schema)}

Origin  == [msg : Messages, trail : Seq(SoundCursor), tainted : BOOLEAN]
Frame   == [ kind  : {"literal", "compressed"},
             msg   : Message(Schema) \cup {NoMessage},
             words : Seq(Written) ]
Receipt == [msg : Messages, got : Message(Schema) \cup {Junk}, tainted : BOOLEAN]

Types ==
    /\ enc \in SoundCursor
    /\ dec \in SoundCursor
    /\ emsg \in Messages \cup {NoMessage}
    /\ dmsg \in Message(Schema) \cup {NoMessage}
    /\ dfi \in 1 .. NumFields + 1
    /\ words \in Seq(Written)
    /\ trail \in Seq(SoundCursor)
    /\ link \in Seq(Frame)
    /\ origin \in Seq(Origin)
    /\ Len(link) = Len(origin)
    /\ received \in Seq(Receipt)
    /\ calls \in 0 .. MAX_CALLS
    /\ tainted \in BOOLEAN

\* t is the trail of an encoder of m, and w what it wrote along it.
Runs(t, m)     == \A i \in 1 .. Len(t) - 1 : t[i + 1] = EncodeField(t[i], Schema, i, m).next
Spells(w, t, m) == \A i \in 1 .. Len(w) : w[i] = EncodeField(t[i], Schema, i, m).word

\* Between calls nothing is written; within one, the trail leads to enc.
Encoding ==
    /\ emsg = NoMessage => words = << >>
    /\ emsg # NoMessage =>
          /\ Len(words) <= NumFields
          /\ Len(trail) = Len(words) + 1
          /\ Runs(trail, emsg)
          /\ Spells(words, trail, emsg)
          /\ enc = trail[Len(trail)]

\* f is a frame that an encoder with the history o can have made.
Made(f, o) ==
    /\ Len(o.trail) = NumFields + 1
    /\ Runs(o.trail, o.msg)
    /\ \/ f = Literal(o.msg)
       \/ /\ f.kind = "compressed"
          /\ Len(f.words) = NumFields
          /\ Spells(f.words, o.trail, o.msg)

Transit == \A k \in 1 .. Len(link) : Made(link[k], origin[k])

\* A frame is in the decoder's hands only while it is the first in transit,
\* and a literal has the sender's values.
Decoding ==
    /\ dmsg = NoMessage => dfi = 1
    /\ dmsg # NoMessage =>
          /\ link # << >>
          /\ Head(link).kind = "literal" => dmsg = Wire(Schema, Head(origin).msg)

Shape == Types /\ Encoding /\ Transit /\ Decoding

\* Where the encoder of a frame was when it returned, and where the encoder
\* was when it began the frame it is at, or will begin the next.
After(o) == Start(Finish(o.trail[NumFields + 1]))
Begins   == IF emsg = NoMessage THEN enc ELSE trail[1]

\* Each frame begins where the one before it ended.
Chain ==
    /\ \A k \in 1 .. Len(origin) - 1 :
          ~origin[k + 1].tainted =>
              /\ ~origin[k].tainted
              /\ origin[k + 1].trail[1] = After(origin[k])
    /\ ~tainted =>
          IF origin = << >> THEN Begins = dec
          ELSE /\ ~origin[Len(origin)].tainted
               /\ Begins = After(origin[Len(origin)])

\* The decoder has the fields it has read, and no others.
Partial ==
    (dmsg # NoMessage /\ Head(link).kind = "compressed" /\ ~Head(origin).tainted) =>
        dmsg = PartOf(Schema, Head(origin).msg, dfi)

Linked == Chain /\ Partial /\ FollowsEncoder /\ RoundTrip

\* Without resumption no message is encoded by an encoder that moved alone.
Healthy ==
    /\ tainted => emsg = NoMessage
    /\ \A k \in 1 .. Len(origin) : ~origin[k].tainted
    /\ \A i \in 1 .. Len(received) : ~received[i].tainted

-----------------------------------------------------------------------------
\* A schema has at least one field.
LEMMA FieldNumbers ==
    /\ NumFields \in Nat /\ NumFields >= 1
    /\ Fields(Schema) = 1 .. NumFields
<1>1. Len(Schema) \in Nat \ {0}
  BY StreamAssumption, EmptySeq DEF IsSchema
<1> QED
  BY <1>1 DEF NumFields, Fields

\* The mark for no message is not a message.
LEMMA MessageIsNotEmpty ==
    ASSUME NEW m \in Message(Schema)
    PROVE  m # NoMessage
<1>1. m \in [1 .. NumFields -> Word64]
  BY FieldNumbers DEF Message
<1>2. m \in Seq(Word64)
  BY <1>1, FieldNumbers, SeqDef
<1>3. Len(m) = NumFields
  BY <1>1, <1>2, FieldNumbers, LenProperties
<1> QED
  BY <1>3, FieldNumbers, EmptySeq DEF NoMessage

\* What an application sends is a message, and not the mark for none.
LEMMA Sent ==
    ASSUME NEW m \in Messages
    PROVE  m \in Message(Schema) /\ Typed(Schema, m) /\ m # NoMessage
  BY StreamAssumption, MessageIsNotEmpty

\* The zeroed structure that decoding starts from is any message of which
\* nothing has been decoded.
LEMMA ZerosIsNothing ==
    /\ Zeros \in Message(Schema)
    /\ \A m \in Message(Schema) : Zeros = PartOf(Schema, m, 1)
<1>1. 0 \in Word64
  BY Widths DEF Word64
<1>2. \A fi \in Fields(Schema) : ~(fi < 1)
  BY FieldNumbers
<1> QED
  BY <1>1, <1>2 DEF Zeros, Message, PartOf

\* When all fields are decoded the message is as it arrives.
LEMMA EverythingIsWire ==
    ASSUME NEW m \in Message(Schema)
    PROVE  PartOf(Schema, m, NumFields + 1) = Wire(Schema, m)
<1>1. \A fi \in Fields(Schema) : fi < NumFields + 1
  BY FieldNumbers
<1> QED
  BY <1>1 DEF PartOf, Wire

\* The set of sound cursors, as a predicate.
LEMMA SoundCursors ==
    ASSUME NEW c
    PROVE  c \in SoundCursor <=> Sound(c)
  BY DEF SoundCursor, Sound

\* Encoding a field leads from a sound cursor to one, in the vocabulary of
\* this module.
LEMMA EncodedIsSound ==
    ASSUME NEW c \in SoundCursor, NEW fi \in Fields(Schema), NEW m \in Message(Schema)
    PROVE  /\ EncodeField(c, Schema, fi, m).next \in SoundCursor
           /\ EncodeField(c, Schema, fi, m).word \in Written
           /\ Readable(Schema, fi, EncodeField(c, Schema, fi, m).word)
  BY EncodeSound, SoundCursors, StreamAssumption DEF Written

\* Finishing a message leads from a sound cursor to one a next message starts
\* with, and so does dropping the instrument in hand.
LEMMA FinishedIsSound ==
    ASSUME NEW c \in SoundCursor
    PROVE  Start(Finish(c)) \in SoundCursor /\ Start(c.st) \in SoundCursor
<1>1. Sound(c)
  BY SoundCursors
<1>2. Sound(Start(Finish(c)))
  BY <1>1, FinishSound
<1>3. Sound(Start(c.st))
  BY <1>1 DEF Sound, Cursor, Start
<1> QED
  BY <1>2, <1>3, SoundCursors

\* Both contexts start out sound.
LEMMA InitialIsSound ==
    ASSUME NEW coder \in {"tiered", "expgolomb"}
    PROVE  /\ Start(SetCoder(InitState, coder)) \in SoundCursor
           /\ Start(InitState) \in SoundCursor
  BY InitSound, SoundCursors

\* The first frame in transit, and what is left without it.
LEMMA FirstInTransit ==
    ASSUME Types, Transit, link # << >>
    PROVE  /\ Len(link) \in Nat \ {0} /\ Len(origin) \in Nat \ {0}
           /\ origin # << >>
           /\ Head(link) = link[1] /\ Head(origin) = origin[1]
           /\ Head(link) \in Frame /\ Head(origin) \in Origin
           /\ Made(Head(link), Head(origin))
<1>1. Len(link) \in Nat \ {0} /\ Len(link) = Len(origin)
  BY EmptySeq DEF Types
<1>2. origin # << >>
  BY <1>1, EmptySeq DEF Types
<1>3. Head(link) = link[1] /\ Head(origin) = origin[1]
  BY <1>2 DEF Types
<1>4. Head(link) \in Frame /\ Head(origin) \in Origin
  BY <1>2, HeadTailProperties DEF Types
<1>5. Made(link[1], origin[1])
  BY <1>1 DEF Transit
<1> QED
  BY <1>1, <1>2, <1>3, <1>4, <1>5

\* Taking the first frame off the link leaves the others as they were made.
LEMMA OthersInTransit ==
    ASSUME Types, Transit, link # << >>
    PROVE  /\ Tail(link) \in Seq(Frame) /\ Tail(origin) \in Seq(Origin)
           /\ Len(Tail(link)) = Len(Tail(origin))
           /\ Len(Tail(origin)) = Len(origin) - 1
           /\ \A k \in 1 .. Len(Tail(link)) : Tail(link)[k] = link[k + 1]
           /\ \A k \in 1 .. Len(Tail(origin)) : Tail(origin)[k] = origin[k + 1]
           /\ \A k \in 1 .. Len(Tail(link)) : Made(Tail(link)[k], Tail(origin)[k])
<1>1. Len(link) \in Nat \ {0} /\ Len(origin) = Len(link) /\ origin # << >>
  BY FirstInTransit DEF Types
<1>2. /\ Tail(link) \in Seq(Frame)
      /\ Len(Tail(link)) = Len(link) - 1
      /\ \A k \in 1 .. Len(Tail(link)) : Tail(link)[k] = link[k + 1]
  BY HeadTailProperties DEF Types
<1>3. /\ Tail(origin) \in Seq(Origin)
      /\ Len(Tail(origin)) = Len(origin) - 1
      /\ \A k \in 1 .. Len(Tail(origin)) : Tail(origin)[k] = origin[k + 1]
  BY <1>1, HeadTailProperties DEF Types
<1>4. \A k \in 1 .. Len(link) - 1 : k + 1 \in 1 .. Len(link)
  BY <1>1
<1> QED
  BY <1>1, <1>2, <1>3, <1>4 DEF Transit

-----------------------------------------------------------------------------
\* The invariant holds at the start.
LEMMA InitShape == Init => Shape
<1> SUFFICES ASSUME Init PROVE Shape
  OBVIOUS
<1>1. PICK coder \in Coders : /\ enc = Start(SetCoder(InitState, coder))
                              /\ dec = Start(SetCoder(InitState, coder))
  BY DEF Init
<1>2. enc \in SoundCursor /\ dec \in SoundCursor
  BY <1>1, InitialIsSound, StreamAssumption
<1>3. Types
  <2>1. 1 \in 1 .. NumFields + 1 /\ 0 \in 0 .. MAX_CALLS
    BY FieldNumbers, StreamAssumption
  <2>2. /\ words \in Seq(Written) /\ trail \in Seq(SoundCursor)
        /\ link \in Seq(Frame) /\ origin \in Seq(Origin)
        /\ Len(link) = Len(origin)
        /\ received \in Seq(Receipt)
    BY EmptySeq DEF Init
  <2> QED
    BY <1>2, <2>1, <2>2 DEF Init, Types
<1>4. Encoding /\ Decoding
  BY DEF Init, Encoding, Decoding
<1>5. Transit
  BY EmptySeq DEF Init, Transit
<1> QED
  BY <1>3, <1>4, <1>5 DEF Shape

\* A call of residc_encode keeps it.
LEMMA EncodeCallShape ==
    ASSUME Shape, NEW m \in Messages, EncodeCall(m)
    PROVE  Shape'
<1> USE DEF EncodeCall, decoder
<1>1. m # NoMessage /\ m \in Message(Schema)
  BY Sent
<1>2. trail' \in Seq(SoundCursor) /\ Len(trail') = 1 /\ trail'[1] = enc
  BY DEF Shape, Types
<1>3. words' \in Seq(Written) /\ Len(words') = 0
  BY EmptySeq
<1>4. calls' \in 0 .. MAX_CALLS
  BY StreamAssumption DEF Shape, Types
<1>5. Types'
  BY <1>2, <1>3, <1>4 DEF Shape, Types
<1>6. Encoding'
  BY <1>1, <1>2, <1>3, FieldNumbers DEF Encoding, Runs, Spells
<1>7. Transit' /\ Decoding'
  BY DEF Shape, Transit, Decoding
<1> QED
  BY <1>5, <1>6, <1>7 DEF Shape

\* Encoding one field keeps it.
LEMMA EncodeStepShape ==
    ASSUME Shape, EncodeStep
    PROVE  Shape'
<1> DEFINE fi == Len(words) + 1
           e  == EncodeField(enc, Schema, fi, emsg)
<1>1. /\ emsg # NoMessage /\ emsg' = emsg /\ emsg \in Message(Schema)
      /\ words' = Append(words, e.word)
      /\ enc' = e.next
      /\ trail' = Append(trail, e.next)
  BY Sent DEF EncodeStep, Shape, Types
<1>2. /\ Len(words) \in Nat /\ fi \in Fields(Schema) /\ fi <= NumFields
      /\ Len(trail) = fi
      /\ Runs(trail, emsg) /\ Spells(words, trail, emsg)
      /\ enc = trail[fi]
  BY <1>1, FieldNumbers, LenProperties DEF EncodeStep, Shape, Types, Encoding
<1>3. e.next \in SoundCursor /\ e.word \in Written
  BY <1>1, <1>2, EncodedIsSound DEF Shape, Types
<1> HIDE DEF e
<1>4. /\ words' \in Seq(Written) /\ Len(words') = fi
      /\ \A i \in 1 .. Len(words) : words'[i] = words[i]
      /\ words'[fi] = e.word
  BY <1>1, <1>3, AppendProperties DEF Shape, Types
<1>5. /\ trail' \in Seq(SoundCursor) /\ Len(trail') = fi + 1
      /\ \A i \in 1 .. fi : trail'[i] = trail[i]
      /\ trail'[fi + 1] = e.next
  BY <1>1, <1>2, <1>3, AppendProperties DEF Shape, Types
<1>6. Types'
  BY <1>1, <1>3, <1>4, <1>5 DEF EncodeStep, decoder, Shape, Types
<1>7. Runs(trail', emsg')
  <2> SUFFICES ASSUME NEW i \in 1 .. fi PROVE trail'[i + 1] = EncodeField(trail'[i], Schema, i, emsg).next
    BY <1>1, <1>2, <1>5 DEF Runs
  <2>1. CASE i = fi
    BY <1>2, <1>5, <2>1 DEF e
  <2>2. CASE i # fi
    <3>1. i \in 1 .. Len(trail) - 1 /\ i \in 1 .. fi /\ i + 1 \in 1 .. fi
      BY <1>2, <2>2
    <3> QED
      BY <1>2, <1>5, <3>1 DEF Runs
  <2> QED
    BY <2>1, <2>2
<1>8. Spells(words', trail', emsg')
  <2> SUFFICES ASSUME NEW i \in 1 .. fi PROVE words'[i] = EncodeField(trail'[i], Schema, i, emsg).word
    BY <1>1, <1>4 DEF Spells
  <2>1. CASE i = fi
    BY <1>2, <1>4, <1>5, <2>1 DEF e
  <2>2. CASE i # fi
    <3>1. i \in 1 .. Len(words)
      BY <1>2, <2>2
    <3> QED
      BY <1>2, <1>4, <1>5, <3>1 DEF Spells
  <2> QED
    BY <2>1, <2>2
<1>9. Encoding'
  BY <1>1, <1>2, <1>4, <1>5, <1>7, <1>8 DEF Encoding
<1>10. Transit' /\ Decoding'
  BY DEF EncodeStep, decoder, Shape, Transit, Decoding
<1> QED
  BY <1>6, <1>9, <1>10 DEF Shape

\* The frame that the encoder returns is made from its message in the states
\* it went through.
LEMMA FrameMade ==
    ASSUME Shape, emsg # NoMessage, Len(words) = NumFields,
           NEW f \in {Literal(emsg), Compressed(words)}, NEW o,
           o = [msg |-> emsg, trail |-> trail, tainted |-> tainted]
    PROVE  f \in Frame /\ o \in Origin /\ Made(f, o)
<1>1. emsg \in Messages /\ emsg \in Message(Schema) /\ Wire(Schema, emsg) \in Message(Schema)
  BY Sent, WireType, StreamAssumption DEF Shape, Types
<1>2. << >> \in Seq(Written) /\ words \in Seq(Written)
  BY EmptySeq DEF Shape, Types
<1>3. Literal(emsg) \in Frame /\ Compressed(words) \in Frame
  BY <1>1, <1>2 DEF Frame, Literal, Compressed
<1>4. o \in Origin
  BY <1>1 DEF Origin, Shape, Types
<1>5. Made(f, o)
  BY DEF Made, Shape, Encoding, Compressed
<1> QED
  BY <1>3, <1>4, <1>5

\* The end of residc_encode keeps it, compressed or literal, and also when
\* the buffer is too small.
LEMMA EncodeReturnShape ==
    ASSUME Shape, NEW capacity \in Capacities, EncodeReturn(capacity)
    PROVE  Shape'
<1> DEFINE f == IF UseLiteral THEN Literal(emsg) ELSE Compressed(words)
           o == [msg |-> emsg, trail |-> trail, tainted |-> tainted]
<1>1. /\ emsg # NoMessage /\ emsg' = NoMessage
      /\ Len(words) = NumFields /\ words' = << >> /\ trail' = << >>
      /\ enc' = Start(Finish(enc))
      /\ UNCHANGED <<decoder, calls, received>>
      /\ \/ tainted' = TRUE /\ UNCHANGED <<link, origin>>
         \/ link' = Append(link, f) /\ origin' = Append(origin, o) /\ UNCHANGED tainted
  BY DEF EncodeReturn
<1>2. f \in Frame /\ o \in Origin /\ Made(f, o)
  BY <1>1, FrameMade
<1> HIDE DEF f, o
<1>3. enc' \in SoundCursor
  BY <1>1, FinishedIsSound DEF Shape, Types
<1>4. words' \in Seq(Written) /\ trail' \in Seq(SoundCursor)
  BY <1>1, EmptySeq
<1>5. Encoding'
  BY <1>1 DEF Encoding
<1>6. CASE tainted' = TRUE /\ UNCHANGED <<link, origin>>
  <2>1. Types'
    BY <1>1, <1>3, <1>4, <1>6 DEF decoder, Shape, Types
  <2>2. Transit' /\ Decoding'
    BY <1>1, <1>6 DEF decoder, Shape, Transit, Decoding
  <2> QED
    BY <1>5, <2>1, <2>2 DEF Shape
<1>7. CASE link' = Append(link, f) /\ origin' = Append(origin, o) /\ UNCHANGED tainted
  <2>0. Len(link) \in Nat /\ Len(origin) = Len(link)
    BY LenProperties DEF Shape, Types
  <2>1. /\ link' \in Seq(Frame) /\ Len(link') = Len(link) + 1 /\ link' # << >>
        /\ \A k \in 1 .. Len(link) : link'[k] = link[k]
        /\ link'[Len(link) + 1] = f
    BY <1>2, <1>7, AppendProperties DEF Shape, Types
  <2>2. /\ origin' \in Seq(Origin) /\ Len(origin') = Len(link) + 1 /\ origin' # << >>
        /\ \A k \in 1 .. Len(link) : origin'[k] = origin[k]
        /\ origin'[Len(link) + 1] = o
    <3>1. /\ origin' \in Seq(Origin) /\ Len(origin') = Len(origin) + 1 /\ origin' # << >>
          /\ \A k \in 1 .. Len(origin) : origin'[k] = origin[k]
          /\ origin'[Len(origin) + 1] = o
      BY SMTT(20), <1>2, <1>7, AppendProperties DEF Shape, Types
    <3> QED
      BY <2>0, <3>1
  <2>3. Types'
    BY <1>1, <1>3, <1>4, <1>7, <2>1, <2>2 DEF decoder, Shape, Types
  <2>4. Transit'
    <3> SUFFICES ASSUME NEW k \in 1 .. Len(link) + 1 PROVE Made(link'[k], origin'[k])
      BY <2>1 DEF Transit
    <3>1. CASE k \in 1 .. Len(link)
      BY <2>1, <2>2, <3>1 DEF Shape, Transit
    <3>2. CASE k = Len(link) + 1
      BY <1>2, <2>1, <2>2, <3>2
    <3> QED
      BY <2>0, <3>1, <3>2
  <2>5. Decoding'
    <3>1. link # << >> => Head(link') = Head(link) /\ Head(origin') = Head(origin)
      <4> SUFFICES ASSUME link # << >> PROVE Head(link') = Head(link) /\ Head(origin') = Head(origin)
        OBVIOUS
      <4>1. Len(link) \in Nat \ {0} /\ Head(link) = link[1] /\ Head(origin) = origin[1]
        BY FirstInTransit DEF Shape
      <4>2. Head(link') = link'[1] /\ Head(origin') = origin'[1]
        BY <2>1, <2>2
      <4> QED
        BY <2>1, <2>2, <4>1, <4>2
    <3> QED
      BY <1>1, <2>1, <3>1 DEF decoder, Shape, Decoding
  <2> QED
    BY <1>5, <2>3, <2>4, <2>5 DEF Shape
<1> QED
  BY <1>1, <1>6, <1>7

\* A call of residc_decode keeps it.
LEMMA DecodeCallShape ==
    ASSUME Shape, DecodeCall
    PROVE  Shape'
<1> USE DEF DecodeCall, encoder
<1>1. /\ Head(link) \in Frame /\ Made(Head(link), Head(origin))
      /\ Head(origin) \in Origin
  BY FirstInTransit DEF Shape
<1>2. Head(link).kind = "literal" => Head(link).msg = Wire(Schema, Head(origin).msg)
  BY <1>1 DEF Made, Literal
<1>3. dmsg' \in Message(Schema)
  <2>1. Wire(Schema, Head(origin).msg) \in Message(Schema)
    BY <1>1, Sent, WireType, StreamAssumption DEF Origin
  <2> QED
    BY <1>2, <2>1, ZerosIsNothing
<1>4. Types'
  BY <1>3, FieldNumbers DEF Shape, Types
<1>5. Decoding'
  BY <1>2, <1>3, MessageIsNotEmpty DEF Decoding
<1>6. Encoding' /\ Transit'
  BY DEF Shape, Encoding, Transit
<1> QED
  BY <1>4, <1>5, <1>6 DEF Shape

\* What the decoder is about to read is a word of the field it is at.
LEMMA DecoderReads ==
    ASSUME Shape, dmsg # NoMessage, dfi <= NumFields
    PROVE  /\ dmsg \in Message(Schema) /\ dfi \in Fields(Schema) /\ dfi + 1 \in 1 .. NumFields + 1
           /\ Head(origin).msg \in Messages
           /\ Head(origin).trail[dfi] \in SoundCursor
           /\ Head(origin).trail[dfi + 1]
                  = EncodeField(Head(origin).trail[dfi], Schema, dfi, Head(origin).msg).next
           /\ Head(link).kind = "compressed" =>
                  Head(link).words[dfi]
                      = EncodeField(Head(origin).trail[dfi], Schema, dfi, Head(origin).msg).word
           /\ Head(link).kind \in {"literal", "compressed"}
<1>1. link # << >>
  BY DEF Shape, Decoding
<1>2. /\ Head(link) \in Frame /\ Made(Head(link), Head(origin))
      /\ Head(origin) \in Origin
  BY <1>1, FirstInTransit DEF Shape
<1>3. dmsg \in Message(Schema) /\ dfi \in Fields(Schema) /\ dfi + 1 \in 1 .. NumFields + 1
  BY FieldNumbers DEF Shape, Types
<1>4. Head(origin).msg \in Messages /\ Head(origin).trail \in Seq(SoundCursor)
  BY <1>2 DEF Origin
<1>5. dfi \in 1 .. Len(Head(origin).trail) /\ dfi \in 1 .. Len(Head(origin).trail) - 1
  BY <1>2, <1>3, FieldNumbers DEF Made
<1>6. Head(origin).trail[dfi] \in SoundCursor
  BY <1>4, <1>5, ElementOfSeq
<1>7. Head(origin).trail[dfi + 1]
          = EncodeField(Head(origin).trail[dfi], Schema, dfi, Head(origin).msg).next
  BY <1>2, <1>5 DEF Made, Runs
<1>8. Head(link).kind = "compressed" =>
          Head(link).words[dfi] = EncodeField(Head(origin).trail[dfi], Schema, dfi, Head(origin).msg).word
  <2>1. Literal(Head(origin).msg).kind = "literal"
    BY DEF Literal
  <2>2. dfi \in 1 .. NumFields
    BY <1>3, FieldNumbers
  <2> QED
    BY <1>2, <2>1, <2>2 DEF Made, Spells
<1>9. Head(link).kind \in {"literal", "compressed"}
  BY <1>2 DEF Frame
<1> QED
  BY <1>3, <1>4, <1>6, <1>7, <1>8, <1>9

\* Decoding one field keeps it.
LEMMA DecodeStepShape ==
    ASSUME Shape, DecodeStep
    PROVE  Shape'
<1> DEFINE w == Head(link).words[dfi]
           d == DecodeField(dec, Schema, dfi, dmsg, w)
<1>1. /\ dmsg # NoMessage /\ dfi <= NumFields
      /\ Head(link).kind = "compressed"
      /\ dmsg' = WriteField(Schema, dmsg, dfi, d.val)
      /\ dec' = d.next
      /\ dfi' = dfi + 1
      /\ UNCHANGED <<enc, emsg, words, trail, link, calls, origin, received, tainted>>
  BY DEF DecodeStep, encoder
<1>2. /\ dmsg \in Message(Schema) /\ dfi \in Fields(Schema) /\ dfi + 1 \in 1 .. NumFields + 1
      /\ Readable(Schema, dfi, w)
  <2>1. Head(origin).msg \in Message(Schema)
    BY <1>1, DecoderReads, Sent
  <2> QED
    BY <1>1, <2>1, DecoderReads, EncodedIsSound
<1>3. Sound(d.next) /\ d.val \in Word64
  BY <1>2, DecodeSound, SoundCursors, StreamAssumption DEF Shape, Types
<1> HIDE DEF d, w
<1>4. dmsg' \in Message(Schema) /\ dec' \in SoundCursor /\ dmsg' # NoMessage
  BY <1>1, <1>2, <1>3, WriteFieldType, SoundCursors, MessageIsNotEmpty, StreamAssumption
<1>5. Types'
  BY <1>1, <1>2, <1>4 DEF Shape, Types
<1>6. Decoding'
  BY <1>1, <1>4 DEF Shape, Decoding
<1>7. Encoding' /\ Transit'
  BY <1>1 DEF Shape, Encoding, Transit
<1> QED
  BY <1>5, <1>6, <1>7 DEF Shape

\* Committing one field of a literal frame keeps it.
LEMMA CommitStepShape ==
    ASSUME Shape, CommitStep
    PROVE  Shape'
<1>1. /\ dmsg # NoMessage /\ dfi <= NumFields
      /\ Head(link).kind = "literal"
      /\ dec' = CommitField(dec, Schema, dfi, dmsg)
      /\ dfi' = dfi + 1
      /\ UNCHANGED <<enc, emsg, words, trail, link, dmsg, calls, origin, received, tainted>>
  BY DEF CommitStep, encoder
<1>2. /\ dfi \in Fields(Schema) /\ dfi + 1 \in 1 .. NumFields + 1
      /\ Head(origin).msg \in Message(Schema)
      /\ dmsg = Wire(Schema, Head(origin).msg)
  BY <1>1, DecoderReads, Sent DEF Shape, Decoding
<1>3. dec' \in SoundCursor
  BY <1>1, <1>2, CommitFollowsEncode, EncodedIsSound, SoundCursors, StreamAssumption DEF Shape, Types
<1>4. Types'
  BY <1>1, <1>2, <1>3 DEF Shape, Types
<1>5. Encoding' /\ Transit' /\ Decoding'
  BY <1>1 DEF Shape, Encoding, Transit, Decoding
<1> QED
  BY <1>4, <1>5 DEF Shape

\* Reading a field from a frame that another state wrote keeps it.
LEMMA MisreadShape ==
    ASSUME Shape, Misread
    PROVE  Shape'
<1>1. /\ dmsg # NoMessage
      /\ received' = Append(received, [msg |-> Head(origin).msg, got |-> Junk,
                                       tainted |-> Head(origin).tainted])
      /\ link' = Tail(link) /\ origin' = Tail(origin)
      /\ dmsg' = NoMessage /\ dec' = Start(dec.st) /\ dfi' = 1
      /\ UNCHANGED <<enc, emsg, words, trail, calls, tainted>>
  BY DEF Misread, encoder
<1>2. link # << >> /\ Types /\ Transit
  BY <1>1 DEF Shape, Decoding
<1>3. [msg |-> Head(origin).msg, got |-> Junk, tainted |-> Head(origin).tainted] \in Receipt
  <2>1. Head(origin) \in Origin
    BY <1>2, FirstInTransit
  <2> QED
    BY <2>1 DEF Origin, Receipt
<1>4. received' \in Seq(Receipt)
  BY <1>1, <1>2, <1>3, AppendProperties DEF Types
<1>5. dec' \in SoundCursor
  BY <1>1, <1>2, FinishedIsSound DEF Types
<1>6. Types'
  BY <1>1, <1>2, <1>4, <1>5, OthersInTransit, FieldNumbers DEF Types
<1>7. Transit'
  BY <1>1, <1>2, OthersInTransit DEF Transit
<1>8. Encoding' /\ Decoding'
  BY <1>1 DEF Shape, Encoding, Decoding
<1> QED
  BY <1>6, <1>7, <1>8 DEF Shape

\* The end of residc_decode keeps it.
LEMMA DecodeReturnShape ==
    ASSUME Shape, DecodeReturn
    PROVE  Shape'
<1>1. /\ dmsg # NoMessage
      /\ received' = Append(received, [msg |-> Head(origin).msg, got |-> dmsg,
                                       tainted |-> Head(origin).tainted])
      /\ link' = Tail(link) /\ origin' = Tail(origin)
      /\ dmsg' = NoMessage /\ dec' = Start(Finish(dec)) /\ dfi' = 1
      /\ UNCHANGED <<enc, emsg, words, trail, calls, tainted>>
  BY DEF DecodeReturn, encoder
<1>2. link # << >> /\ Types /\ Transit
  BY <1>1 DEF Shape, Decoding
<1>3. [msg |-> Head(origin).msg, got |-> dmsg, tainted |-> Head(origin).tainted] \in Receipt
  <2>1. Head(origin) \in Origin
    BY <1>2, FirstInTransit
  <2>2. dmsg \in Message(Schema)
    BY <1>1, <1>2 DEF Types
  <2> QED
    BY <2>1, <2>2 DEF Origin, Receipt
<1>4. received' \in Seq(Receipt)
  BY <1>1, <1>2, <1>3, AppendProperties DEF Types
<1>5. dec' \in SoundCursor
  BY <1>1, <1>2, FinishedIsSound DEF Types
<1>6. Types'
  BY <1>1, <1>2, <1>4, <1>5, OthersInTransit, FieldNumbers DEF Types
<1>7. Transit'
  BY <1>1, <1>2, OthersInTransit DEF Transit
<1>8. Encoding' /\ Decoding'
  BY <1>1 DEF Shape, Encoding, Decoding
<1> QED
  BY <1>6, <1>7, <1>8 DEF Shape

\* Resetting both contexts keeps it.
LEMMA ResetBothShape ==
    ASSUME Shape, ResetBoth
    PROVE  Shape'
<1> USE DEF ResetBoth
<1>1. enc' \in SoundCursor /\ dec' \in SoundCursor
  BY InitialIsSound
<1>2. Types'
  BY <1>1 DEF Shape, Types
<1>3. Encoding' /\ Transit' /\ Decoding'
  BY DEF Shape, Encoding, Transit, Decoding
<1> QED
  BY <1>2, <1>3 DEF Shape

\* Every step keeps it.
LEMMA NextShape ==
    ASSUME Shape, [Next]_vars
    PROVE  Shape'
<1>1. CASE UNCHANGED vars
  <2>1. Types' /\ Encoding' /\ Transit' /\ Decoding'
    BY <1>1 DEF vars, encoder, decoder, Shape, Types, Encoding, Transit, Decoding
  <2> QED
    BY <2>1 DEF Shape
<1> QED
  BY <1>1, EncodeCallShape, EncodeStepShape, EncodeReturnShape, DecodeCallShape,
     DecodeStepShape, CommitStepShape, MisreadShape, DecodeReturnShape,
     ResetBothShape DEF Next

\* So it always holds.
LEMMA AlwaysShape == Spec => []Shape
BY InitShape, NextShape, PTL DEF Spec

\* Every variable of encoder, link and decoder keeps its type: in particular
\* every number in either state stays within its machine integer, whatever
\* the messages are.
THEOREM TypesKept == Spec => []TypeOK
<1>1. ASSUME Shape PROVE TypeOK
  <2>1. enc \in Cursor /\ dec \in Cursor
    BY <1>1 DEF Shape, Types, SoundCursor
  <2>2. Len(words) <= NumFields
    BY <1>1, EmptySeq, FieldNumbers DEF Shape, Encoding
  <2> QED
    BY <1>1, <2>1, <2>2 DEF Shape, Types, TypeOK
<1> QED
  BY <1>1, AlwaysShape, PTL
-----------------------------------------------------------------------------
(* The two sides, for messages the format can carry. *)

Carried == \A m \in Messages : Representable(Schema, m)

\* The second invariant holds at the start.
LEMMA InitLinked == Init => Linked
<1> SUFFICES ASSUME Init PROVE Linked
  OBVIOUS
<1>1. Len(origin) = 0 /\ Len(received) = 0 /\ link = << >>
  BY EmptySeq DEF Init
<1>2. Chain
  BY <1>1 DEF Init, Chain, Begins
<1>3. Partial /\ FollowsEncoder /\ RoundTrip
  BY <1>1 DEF Init, Partial, FollowsEncoder, RoundTrip
<1> QED
  BY <1>2, <1>3 DEF Linked

\* A call of residc_encode keeps it: the trail of a message starts where the
\* last one ended.
LEMMA EncodeCallLinked ==
    ASSUME Shape, Linked, NEW m \in Messages, EncodeCall(m)
    PROVE  Linked'
<1>1. /\ emsg = NoMessage /\ emsg' # NoMessage /\ trail' = << enc >>
      /\ UNCHANGED <<link, dec, dmsg, dfi, origin, received, tainted>>
  BY Sent DEF EncodeCall, decoder
<1>2. Begins' = Begins
  BY <1>1 DEF Begins
<1>3. Chain'
  BY <1>1, <1>2 DEF Linked, Chain, After
<1> QED
  BY <1>1, <1>3 DEF Linked, Partial, FollowsEncoder, RoundTrip

\* Encoding one field keeps it: the trail grows by the state reached.
LEMMA EncodeStepLinked ==
    ASSUME Shape, Linked, EncodeStep
    PROVE  Linked'
<1> DEFINE e == EncodeField(enc, Schema, Len(words) + 1, emsg)
<1>1. /\ emsg # NoMessage /\ emsg' = emsg /\ trail' = Append(trail, e.next)
      /\ Len(words) < NumFields
      /\ UNCHANGED <<link, dec, dmsg, dfi, origin, received, tainted>>
  BY DEF EncodeStep, decoder
<1>2. trail'[1] = trail[1]
  <2>1. Len(words) \in Nat /\ Len(words) + 1 \in Fields(Schema) /\ Len(trail) = Len(words) + 1
    BY <1>1, FieldNumbers, LenProperties DEF Shape, Types, Encoding
  <2>2. e.next \in SoundCursor
    BY <1>1, <2>1, EncodedIsSound, Sent DEF Shape, Types
  <2>3. 1 \in 1 .. Len(trail)
    BY <2>1
  <2> HIDE DEF e
  <2> QED
    BY <1>1, <2>2, <2>3, AppendProperties DEF Shape, Types
<1>3. Begins' = Begins
  BY <1>1, <1>2 DEF Begins
<1>4. Chain'
  BY <1>1, <1>3 DEF Linked, Chain, After
<1> QED
  BY <1>1, <1>4 DEF Linked, Partial, FollowsEncoder, RoundTrip

\* The end of residc_encode keeps it: a frame that goes out continues the
\* chain, and one that does not taints what follows.
LEMMA EncodeReturnLinked ==
    ASSUME Shape, Linked, NEW capacity \in Capacities, EncodeReturn(capacity)
    PROVE  Linked'
<1> DEFINE f == IF UseLiteral THEN Literal(emsg) ELSE Compressed(words)
           o == [msg |-> emsg, trail |-> trail, tainted |-> tainted]
<1>1. /\ emsg # NoMessage /\ emsg' = NoMessage
      /\ Len(words) = NumFields
      /\ enc' = Start(Finish(enc))
      /\ UNCHANGED <<dec, dmsg, dfi, received>>
      /\ \/ tainted' = TRUE /\ UNCHANGED <<link, origin>>
         \/ link' = Append(link, f) /\ origin' = Append(origin, o) /\ UNCHANGED tainted
  BY DEF EncodeReturn, decoder
<1>2. f \in Frame /\ o \in Origin
  BY <1>1, FrameMade
<1>3. /\ o.tainted = tainted /\ o.trail = trail
      /\ After(o) = enc'
  BY <1>1 DEF After, Shape, Encoding
<1> HIDE DEF f, o
<1>4. CASE tainted' = TRUE /\ UNCHANGED <<link, origin>>
  <2>1. Chain'
    BY <1>4 DEF Linked, Chain, After
  <2> QED
    BY <1>1, <1>4, <2>1 DEF Linked, Partial, FollowsEncoder, RoundTrip
<1>5. CASE link' = Append(link, f) /\ origin' = Append(origin, o) /\ UNCHANGED tainted
  <2> DEFINE n == Len(origin)
  <2>1. /\ origin' \in Seq(Origin) /\ Len(origin') = n + 1 /\ origin' # << >>
        /\ \A k \in 1 .. n : origin'[k] = origin[k]
        /\ origin'[n + 1] = o
    BY SMTT(20), <1>2, <1>5, AppendProperties DEF Shape, Types
  <2>2. /\ link' \in Seq(Frame) /\ link' # << >>
        /\ \A k \in 1 .. Len(link) : link'[k] = link[k]
    BY SMTT(20), <1>2, <1>5, AppendProperties DEF Shape, Types
  <2>3. /\ n \in Nat /\ Len(link) = n
        /\ origin = << >> <=> n = 0
        /\ link = << >> <=> n = 0
    BY LenProperties, EmptySeq DEF Shape, Types
  <2>4. Head(origin') = origin'[1] /\ Head(link') = link'[1]
    BY <2>1, <2>2
  <2>5. n > 0 => /\ Head(origin) = origin[1] /\ Head(link) = link[1]
                 /\ origin'[1] = origin[1] /\ link'[1] = link[1]
    BY <2>1, <2>2, <2>3, FirstInTransit DEF Shape
  <2>6. Begins' = enc' /\ Begins = trail[1]
    BY <1>1 DEF Begins
  <2>7. Chain'
    <3>1. ASSUME NEW k \in 1 .. n, ~origin'[k + 1].tainted
          PROVE  ~origin'[k].tainted /\ origin'[k + 1].trail[1] = After(origin'[k])
      <4>1. CASE k < n
        <5>1. k \in 1 .. n - 1 /\ k + 1 \in 1 .. n /\ k \in 1 .. n
          BY <2>3, <4>1
        <5> QED
          BY <2>1, <3>1, <5>1 DEF Linked, Chain
      <4>2. CASE k = n
        <5>1. n > 0 /\ origin # << >> /\ origin'[n] = origin[n]
          BY <2>1, <2>3, <4>2
        <5> QED
          BY <1>3, <2>1, <2>6, <3>1, <4>2, <5>1 DEF Linked, Chain
      <4> QED
        BY <2>3, <4>1, <4>2
    <3>2. \A k \in 1 .. Len(origin') - 1 :
             ~origin'[k + 1].tainted =>
                 /\ ~origin'[k].tainted
                 /\ origin'[k + 1].trail[1] = After(origin'[k])
      <4>1. Len(origin') - 1 = n
        BY <2>1, <2>3
      <4> QED
        BY <3>1, <4>1
    <3>3. ~tainted' => ~origin'[Len(origin')].tainted /\ Begins' = After(origin'[Len(origin')])
      BY <1>3, <1>5, <2>1, <2>6
    <3> QED
      BY <2>1, <3>2, <3>3 DEF Chain, After
  <2>8. FollowsEncoder'
    <3>1. CASE n > 0
      BY <1>1, <2>3, <2>4, <2>5, <3>1 DEF Linked, FollowsEncoder
    <3>2. CASE n = 0
      <4>1. link = << >> /\ origin = << >> /\ dfi = 1
        BY <2>3, <3>2 DEF Shape, Decoding
      <4>2. Head(origin') = o
        BY <2>1, <2>4, <3>2
      <4>3. ~tainted => dec = trail[1]
        BY <2>6, <4>1 DEF Linked, Chain
      <4> QED
        BY <1>1, <1>3, <4>1, <4>2, <4>3 DEF FollowsEncoder
    <3> QED
      BY <2>3, <3>1, <3>2
  <2>9. Partial'
    <3>1. dmsg # NoMessage => n > 0
      BY <2>3 DEF Shape, Decoding
    <3> QED
      BY <1>1, <2>4, <2>5, <3>1 DEF Linked, Partial
  <2> QED
    BY <1>1, <2>7, <2>8, <2>9 DEF Linked, RoundTrip
<1> QED
  BY <1>1, <1>4, <1>5

\* A call of residc_decode keeps it.
LEMMA DecodeCallLinked ==
    ASSUME Shape, Linked, DecodeCall
    PROVE  Linked'
<1>1. /\ dmsg = NoMessage /\ dfi = 1 /\ dfi' = 1 /\ link # << >>
      /\ dmsg' = IF Head(link).kind = "literal" THEN Head(link).msg ELSE Zeros
      /\ UNCHANGED <<enc, emsg, trail, link, dec, origin, received, tainted>>
  BY DEF DecodeCall, encoder, Shape, Decoding
<1>2. Chain'
  BY <1>1 DEF Linked, Chain, Begins, After
<1>3. Partial'
  <2>1. Head(origin).msg \in Message(Schema)
    BY <1>1, FirstInTransit, Sent DEF Shape, Origin
  <2> QED
    BY <1>1, <2>1, ZerosIsNothing DEF Partial
<1> QED
  BY <1>1, <1>2, <1>3 DEF Linked, FollowsEncoder, RoundTrip

\* Decoding one field keeps it: the state is one of the encoder's trail, and
\* so the next one is, too.
LEMMA DecodeStepLinked ==
    ASSUME Shape, Linked, Carried, DecodeStep
    PROVE  Linked'
<1> DEFINE o == Head(origin)
           e == EncodeField(o.trail[dfi], Schema, dfi, o.msg)
           r == DecodeField(dec, Schema, dfi, dmsg, Head(link).words[dfi])
<1>1. /\ dmsg # NoMessage /\ dfi <= NumFields
      /\ Head(link).kind = "compressed"
      /\ dmsg' = WriteField(Schema, dmsg, dfi, r.val)
      /\ dec' = r.next
      /\ dfi' = dfi + 1
      /\ UNCHANGED <<enc, emsg, trail, link, origin, received, tainted>>
  BY DEF DecodeStep, encoder
<1>2. link # << >>
  BY <1>1 DEF Shape, Decoding
<1>3. ~o.tainted => dec' = o.trail[dfi'] /\ dmsg' = PartOf(Schema, o.msg, dfi')
  <2> SUFFICES ASSUME ~o.tainted PROVE dec' = o.trail[dfi'] /\ dmsg' = PartOf(Schema, o.msg, dfi')
    OBVIOUS
  <2>1. dec = o.trail[dfi] /\ dmsg = PartOf(Schema, o.msg, dfi)
    BY <1>1, <1>2 DEF Linked, FollowsEncoder, Partial
  <2>2. /\ dfi \in Fields(Schema) /\ o.trail[dfi] \in SoundCursor
        /\ o.trail[dfi + 1] = e.next
        /\ Head(link).words[dfi] = e.word
        /\ o.msg \in Message(Schema) /\ Typed(Schema, o.msg) /\ Representable(Schema, o.msg)
    BY <1>1, DecoderReads, Sent DEF Carried
  <2>3. /\ DecodeField(o.trail[dfi], Schema, dfi, PartOf(Schema, o.msg, dfi), e.word).next = e.next
        /\ WriteField(Schema, PartOf(Schema, o.msg, dfi), dfi,
                      DecodeField(o.trail[dfi], Schema, dfi, PartOf(Schema, o.msg, dfi), e.word).val)
              = PartOf(Schema, o.msg, dfi + 1)
    BY <2>2, DecodeUndoesEncode, SoundCursors, StreamAssumption
  <2>4. r = DecodeField(o.trail[dfi], Schema, dfi, PartOf(Schema, o.msg, dfi), e.word)
    BY <2>1, <2>2
  <2> HIDE DEF e, r
  <2> QED
    BY <1>1, <2>1, <2>2, <2>3, <2>4
<1> HIDE DEF r
<1>4. Chain'
  <2>1. origin # << >>
    BY <1>2, FirstInTransit DEF Shape
  <2> QED
    BY <1>1, <2>1 DEF Linked, Chain, Begins, After
<1>5. FollowsEncoder' /\ Partial'
  BY <1>1, <1>3 DEF FollowsEncoder, Partial
<1> QED
  BY <1>1, <1>4, <1>5 DEF Linked, RoundTrip

\* Committing one field of a literal frame keeps it.
LEMMA CommitStepLinked ==
    ASSUME Shape, Linked, CommitStep
    PROVE  Linked'
<1> DEFINE o == Head(origin)
<1>1. /\ dmsg # NoMessage /\ dfi <= NumFields
      /\ Head(link).kind = "literal"
      /\ dec' = CommitField(dec, Schema, dfi, dmsg)
      /\ dfi' = dfi + 1
      /\ UNCHANGED <<enc, emsg, trail, link, dmsg, origin, received, tainted>>
  BY DEF CommitStep, encoder
<1>2. link # << >> /\ dmsg = Wire(Schema, o.msg)
  BY <1>1 DEF Shape, Decoding
<1>3. ~o.tainted => dec' = o.trail[dfi']
  <2> SUFFICES ASSUME ~o.tainted PROVE dec' = o.trail[dfi']
    OBVIOUS
  <2>1. dec = o.trail[dfi]
    BY <1>1, <1>2 DEF Linked, FollowsEncoder
  <2>2. /\ dfi \in Fields(Schema) /\ o.trail[dfi] \in SoundCursor
        /\ o.trail[dfi + 1] = EncodeField(o.trail[dfi], Schema, dfi, o.msg).next
        /\ o.msg \in Message(Schema)
    BY <1>1, DecoderReads, Sent
  <2>3. CommitField(o.trail[dfi], Schema, dfi, Wire(Schema, o.msg)) = EncodeField(o.trail[dfi], Schema, dfi, o.msg).next
    BY <2>2, CommitFollowsEncode, SoundCursors, StreamAssumption
  <2> QED
    BY <1>1, <1>2, <2>1, <2>2, <2>3
<1>4. Chain'
  <2>1. origin # << >>
    BY <1>2, FirstInTransit DEF Shape
  <2> QED
    BY <1>1, <2>1 DEF Linked, Chain, Begins, After
<1>5. FollowsEncoder' /\ Partial'
  BY <1>1, <1>3 DEF FollowsEncoder, Partial
<1> QED
  BY <1>1, <1>4, <1>5 DEF Linked, RoundTrip

\* The first frame is done with: what is left begins where it ended.
LEMMA FirstFrameDone ==
    ASSUME Shape, Linked, dmsg # NoMessage,
           link' = Tail(link), origin' = Tail(origin), dmsg' = NoMessage, dfi' = 1,
           UNCHANGED <<enc, emsg, trail, tainted>>,
           ~Head(origin).tainted => dec' = After(Head(origin))
    PROVE  Chain' /\ Partial' /\ FollowsEncoder'
<1> DEFINE n == Len(origin)
<1>1. link # << >> /\ Types /\ Transit
  BY DEF Shape, Decoding
<1>2. /\ n \in Nat /\ n >= 1 /\ Len(link) = n
      /\ Head(origin) = origin[1] /\ origin # << >>
  BY <1>1, FirstInTransit DEF Types
<1>3. /\ Len(origin') = n - 1 /\ Len(link') = n - 1
      /\ origin' \in Seq(Origin) /\ link' \in Seq(Frame)
      /\ \A k \in 1 .. n - 1 : origin'[k] = origin[k + 1]
  BY <1>1, OthersInTransit
<1>4. Begins' = Begins
  BY DEF Begins
<1>5. /\ origin' = << >> <=> n = 1
      /\ link' = << >> <=> n = 1
  BY <1>2, <1>3, EmptySeq
<1>6. ~tainted => ~origin[n].tainted /\ Begins = After(origin[n])
  BY <1>2 DEF Linked, Chain
<1>7. n > 1 /\ ~origin[2].tainted => dec' = origin[2].trail[1]
  BY <1>2 DEF Linked, Chain
<1>8. Chain'
  <2>1. ASSUME NEW k \in 1 .. Len(origin') - 1, ~origin'[k + 1].tainted
        PROVE  ~origin'[k].tainted /\ origin'[k + 1].trail[1] = After(origin'[k])
    <3>1. k + 1 \in 1 .. n - 1 /\ k \in 1 .. n - 1 /\ (k + 1) + 1 = k + 2
      BY <1>2, <1>3
    <3>2. ~origin[(k + 1) + 1].tainted =>
              ~origin[k + 1].tainted /\ origin[(k + 1) + 1].trail[1] = After(origin[k + 1])
      BY <3>1 DEF Linked, Chain
    <3> QED
      BY <1>3, <2>1, <3>1, <3>2
  <2>2. ASSUME ~tainted, n = 1 PROVE Begins' = dec'
    BY <1>2, <1>4, <1>6, <2>2
  <2>3. ASSUME ~tainted, n # 1
        PROVE  ~origin'[n - 1].tainted /\ Begins' = After(origin'[n - 1])
    <3>1. n - 1 \in 1 .. n - 1 /\ (n - 1) + 1 = n
      BY <1>2, <2>3
    <3> QED
      BY <1>3, <1>4, <1>6, <2>3, <3>1
  <2> QED
    BY <1>3, <1>5, <2>1, <2>2, <2>3 DEF Chain, After
<1>9. FollowsEncoder'
  <2>1. CASE n = 1
    BY <1>5, <2>1 DEF FollowsEncoder
  <2>2. CASE n > 1
    <3>1. origin'[1] = origin[2] /\ Head(origin') = origin'[1]
      BY <1>3, <1>5, <2>2
    <3> QED
      BY <1>7, <2>2, <3>1 DEF FollowsEncoder
  <2> QED
    BY <1>2, <2>1, <2>2
<1>10. Partial'
  BY DEF Partial
<1> QED
  BY <1>8, <1>9, <1>10

\* A frame is misread only after a reset that came between its encoding and
\* its decoding.
LEMMA MisreadTainted ==
    ASSUME Shape, Linked, Misread
    PROVE  link # << >> /\ Head(origin).tainted
<1> DEFINE o == Head(origin)
<1>1. /\ dmsg # NoMessage /\ dfi <= NumFields
      /\ Head(link).kind = "compressed"
      /\ ~Aligned(dec, Schema, dfi, Head(link).words[dfi])
  BY DEF Misread
<1>2. link # << >>
  BY <1>1 DEF Shape, Decoding
<1>3. ASSUME ~o.tainted PROVE FALSE
  <2>1. dec = o.trail[dfi]
    BY <1>2, <1>3 DEF Linked, FollowsEncoder
  <2>2. /\ dfi \in Fields(Schema) /\ o.trail[dfi] \in SoundCursor
        /\ Head(link).words[dfi] = EncodeField(o.trail[dfi], Schema, dfi, o.msg).word
    BY <1>1, DecoderReads
  <2> QED
    BY <1>1, <2>1, <2>2, EncodeAligned, SoundCursors, StreamAssumption
<1> QED
  BY <1>2, <1>3

\* So misreading one keeps the invariant, which says nothing of such frames.
LEMMA MisreadLinked ==
    ASSUME Shape, Linked, Misread
    PROVE  Linked'
<1> DEFINE o == Head(origin)
           r == [msg |-> o.msg, got |-> Junk, tainted |-> o.tainted]
<1>1. /\ dmsg # NoMessage
      /\ received' = Append(received, r)
      /\ link' = Tail(link) /\ origin' = Tail(origin)
      /\ dmsg' = NoMessage /\ dfi' = 1
      /\ UNCHANGED <<enc, emsg, trail, tainted>>
  BY DEF Misread, encoder
<1>2. link # << >>
  BY <1>1 DEF Shape, Decoding
<1>3. o.tainted
  BY MisreadTainted
<1>4. Chain' /\ Partial' /\ FollowsEncoder'
  BY <1>1, <1>3, FirstFrameDone
<1>5. RoundTrip'
  <2>1. r \in Receipt
    BY <1>2, FirstInTransit DEF Shape, Origin, Receipt
  <2>2. r.tainted
    BY <1>3
  <2> HIDE DEF r
  <2>3. /\ Len(received') = Len(received) + 1 /\ Len(received) \in Nat
        /\ \A i \in 1 .. Len(received) : received'[i] = received[i]
        /\ received'[Len(received) + 1] = r
    BY <1>1, <2>1, AppendProperties, LenProperties DEF Shape, Types
  <2> QED
    BY <2>2, <2>3 DEF Linked, RoundTrip
<1> QED
  BY <1>4, <1>5 DEF Linked

\* When all fields of an untainted frame are decoded, the message is the one
\* sent, as it arrives.
LEMMA DecodedWhole ==
    ASSUME Shape, Linked, dmsg # NoMessage, dfi = NumFields + 1, ~Head(origin).tainted
    PROVE  dmsg = Wire(Schema, Head(origin).msg)
<1>1. /\ Head(link) \in Frame /\ Head(origin) \in Origin
  BY FirstInTransit DEF Shape, Decoding
<1>2. Head(link).kind \in {"literal", "compressed"} /\ Head(origin).msg \in Message(Schema)
  BY <1>1, Sent DEF Frame, Origin
<1> QED
  BY <1>2, EverythingIsWire DEF Shape, Decoding, Linked, Partial

\* The end of residc_decode keeps it: the decoder has reached the end of the
\* frame's trail, where the next one starts.
LEMMA DecodeReturnLinked ==
    ASSUME Shape, Linked, DecodeReturn
    PROVE  Linked'
<1> DEFINE o == Head(origin)
           r == [msg |-> o.msg, got |-> dmsg, tainted |-> o.tainted]
<1>1. /\ dmsg # NoMessage /\ dfi = NumFields + 1
      /\ received' = Append(received, r)
      /\ link' = Tail(link) /\ origin' = Tail(origin)
      /\ dmsg' = NoMessage /\ dec' = Start(Finish(dec)) /\ dfi' = 1
      /\ UNCHANGED <<enc, emsg, trail, tainted>>
  BY DEF DecodeReturn, encoder
<1>2. link # << >>
  BY <1>1 DEF Shape, Decoding
<1>3. ~o.tainted => dec' = After(o)
  BY <1>1, <1>2 DEF Linked, FollowsEncoder, After
<1>4. Chain' /\ Partial' /\ FollowsEncoder'
  BY <1>1, <1>3, FirstFrameDone
<1>5. RoundTrip'
  <2>1. r \in Receipt
    <3>1. dmsg \in Message(Schema)
      BY <1>1 DEF Shape, Types
    <3> QED
      BY <1>2, <3>1, FirstInTransit DEF Shape, Origin, Receipt
  <2>2. ~r.tainted => r.got = Wire(Schema, r.msg)
    BY <1>1, DecodedWhole
  <2> HIDE DEF r
  <2>3. /\ Len(received') = Len(received) + 1 /\ Len(received) \in Nat
        /\ \A i \in 1 .. Len(received) : received'[i] = received[i]
        /\ received'[Len(received) + 1] = r
    BY <1>1, <2>1, AppendProperties, LenProperties DEF Shape, Types
  <2> QED
    BY <2>2, <2>3 DEF Linked, RoundTrip
<1> QED
  BY <1>4, <1>5 DEF Linked

\* Resetting both contexts keeps it: frames on the link are tainted from then
\* on.
LEMMA ResetBothLinked ==
    ASSUME Shape, Linked, ResetBoth
    PROVE  Linked'
<1> USE DEF ResetBoth
<1>1. origin = << >>
  BY EmptySeq DEF Shape, Types
<1>2. dmsg = NoMessage
  BY DEF Shape, Decoding
<1>3. Chain'
  BY <1>1, EmptySeq DEF Chain, Begins
<1> QED
  BY <1>2, <1>3 DEF Linked, Partial, FollowsEncoder, RoundTrip

\* Every step keeps it.
LEMMA NextLinked ==
    ASSUME Carried, Shape, Linked, [Next]_vars
    PROVE  Linked'
<1>1. CASE UNCHANGED vars
  <2>1. Chain' /\ Partial' /\ FollowsEncoder' /\ RoundTrip'
    BY <1>1 DEF vars, encoder, decoder, Linked, Chain, After, Begins,
                Partial, FollowsEncoder, RoundTrip
  <2> QED
    BY <2>1 DEF Linked
<1> QED
  BY <1>1, EncodeCallLinked, EncodeStepLinked, EncodeReturnLinked, DecodeCallLinked,
     DecodeStepLinked, CommitStepLinked, MisreadLinked, DecodeReturnLinked,
     ResetBothLinked DEF Next

\* So it always holds, if the messages are ones the codec can carry.
LEMMA AlwaysLinked ==
    ASSUME Carried
    PROVE  Spec => []Linked
<1>1. Shape /\ Linked /\ [Next]_vars => Linked'
  BY NextLinked
<1> QED
  BY <1>1, InitLinked, AlwaysShape, PTL DEF Spec

\* Frames carry messages unchanged (RoundTrip): whatever was sent before,
\* whichever frames were literal and however sender and receiver were
\* interleaved, residc_decode returns the message that residc_encode was
\* given, as long as the sender has not moved alone (an encode that failed
\* for want of room).
THEOREM MessagesArriveUnchanged ==
    ASSUME Carried
    PROVE  Spec => []RoundTrip
<1>1. Linked => RoundTrip
  BY DEF Linked
<1> QED
  BY <1>1, AlwaysLinked, PTL

\* Whenever nothing is in transit, the two states are equal (InStep):
\* encode_fields, decode_fields and commit_state change the state alike.
THEOREM StatesMeet ==
    ASSUME Carried
    PROVE  Spec => []InStep
<1>1. Shape /\ Linked => InStep
  <2> SUFFICES ASSUME Shape, Linked, ~tainted, emsg = NoMessage, link = << >>
               PROVE  dec = enc
    BY DEF InStep
  <2>1. origin = << >>
    BY EmptySeq DEF Shape, Types
  <2> QED
    BY <2>1 DEF Linked, Chain, Begins
<1> QED
  BY <1>1, AlwaysShape, AlwaysLinked, PTL

\* Inside a frame, before each field, residc_decode is in the state in which
\* residc_encode was before that field (FollowsEncoder).
THEOREM DecoderFollows ==
    ASSUME Carried
    PROVE  Spec => []FollowsEncoder
<1>1. Linked => FollowsEncoder
  BY DEF Linked
<1> QED
  BY <1>1, AlwaysLinked, PTL
-----------------------------------------------------------------------------
(* The message FIFO, for an application that does not go on after a failed *)
(* encode without a reset.                                                 *)

\* Nothing is tainted at the start.
LEMMA InitHealthy == Init => Healthy
<1> SUFFICES ASSUME Init PROVE Healthy
  OBVIOUS
<1>1. Len(origin) = 0 /\ Len(received) = 0
  BY EmptySeq DEF Init
<1> QED
  BY <1>1 DEF Init, Healthy

\* Delivering an untainted frame taints nothing.
LEMMA FirstFrameHealthy ==
    ASSUME Shape, Healthy, dmsg # NoMessage, NEW got \in Message(Schema) \cup {Junk},
           received' = Append(received, [msg |-> Head(origin).msg, got |-> got,
                                         tainted |-> Head(origin).tainted]),
           link' = Tail(link), origin' = Tail(origin), UNCHANGED <<emsg, tainted>>
    PROVE  Healthy'
<1> DEFINE r == [msg |-> Head(origin).msg, got |-> got, tainted |-> Head(origin).tainted]
<1>1. link # << >> /\ Types /\ Transit
  BY DEF Shape, Decoding
<1>2. /\ Head(origin) = origin[1] /\ Head(origin) \in Origin
      /\ Len(origin) \in Nat \ {0}
  BY <1>1, FirstInTransit
<1>3. r \in Receipt /\ ~r.tainted
  BY <1>2 DEF Origin, Receipt, Healthy
<1> HIDE DEF r
<1>4. /\ Len(received') = Len(received) + 1 /\ Len(received) \in Nat
      /\ \A i \in 1 .. Len(received) : received'[i] = received[i]
      /\ received'[Len(received) + 1] = r
  BY <1>1, <1>3, AppendProperties, LenProperties DEF Types, r
<1>5. /\ Len(origin') = Len(origin) - 1
      /\ \A k \in 1 .. Len(origin') : origin'[k] = origin[k + 1]
  BY <1>1, OthersInTransit
<1>6. \A k \in 1 .. Len(origin') : ~origin'[k].tainted
  BY <1>2, <1>5 DEF Healthy
<1>7. \A i \in 1 .. Len(received') : ~received'[i].tainted
  BY <1>3, <1>4 DEF Healthy
<1> QED
  BY <1>6, <1>7 DEF Healthy

\* No step but a reset with frames in transit taints any.
LEMMA NextHealthy ==
    ASSUME ~RESUME, Shape, Healthy, [Next]_vars
    PROVE  Healthy'
<1> USE DEF encoder, decoder
<1>1. ASSUME NEW m \in Messages, EncodeCall(m) PROVE Healthy'
  BY <1>1 DEF EncodeCall, Healthy
<1>2. ASSUME EncodeStep PROVE Healthy'
  BY <1>2 DEF EncodeStep, Healthy
<1>3. ASSUME NEW capacity \in Capacities, EncodeReturn(capacity) PROVE Healthy'
  <2> DEFINE f == IF UseLiteral THEN Literal(emsg) ELSE Compressed(words)
             o == [msg |-> emsg, trail |-> trail, tainted |-> tainted]
  <2>1. /\ emsg # NoMessage /\ emsg' = NoMessage /\ Len(words) = NumFields
        /\ UNCHANGED received
        /\ \/ UNCHANGED <<link, origin>>
           \/ link' = Append(link, f) /\ origin' = Append(origin, o) /\ UNCHANGED tainted
    BY <1>3 DEF EncodeReturn
  <2>2. o \in Origin /\ ~o.tainted
    BY <2>1, FrameMade DEF Healthy
  <2> HIDE DEF f, o
  <2>3. CASE UNCHANGED <<link, origin>>
    BY <2>1, <2>3 DEF Healthy
  <2>4. CASE origin' = Append(origin, o) /\ UNCHANGED tainted
    <3>1. /\ Len(origin') = Len(origin) + 1 /\ Len(origin) \in Nat
          /\ \A k \in 1 .. Len(origin) : origin'[k] = origin[k]
          /\ origin'[Len(origin) + 1] = o
      BY <2>2, <2>4, AppendProperties, LenProperties DEF Shape, Types
    <3> QED
      BY <2>1, <2>2, <2>4, <3>1 DEF Healthy
  <2> QED
    BY <2>1, <2>3, <2>4
<1>4. ASSUME DecodeCall \/ DecodeStep \/ CommitStep PROVE Healthy'
  BY <1>4 DEF DecodeCall, DecodeStep, CommitStep, Healthy
<1>5. ASSUME Misread PROVE Healthy'
  BY <1>5, FirstFrameHealthy DEF Misread
<1>6. ASSUME DecodeReturn PROVE Healthy'
  <2>1. dmsg \in Message(Schema)
    BY <1>6 DEF DecodeReturn, Shape, Types
  <2> QED
    BY <1>6, <2>1, FirstFrameHealthy DEF DecodeReturn
<1>7. ASSUME ResetBoth PROVE Healthy'
  BY <1>7 DEF ResetBoth, Healthy
<1>8. CASE UNCHANGED vars
  BY <1>8 DEF vars, Healthy
<1> QED
  BY <1>1, <1>2, <1>3, <1>4, <1>5, <1>6, <1>7, <1>8 DEF Next

\* So nothing is ever tainted where the application does not resume.
LEMMA AlwaysHealthy ==
    ASSUME ~RESUME
    PROVE  Spec => []Healthy
<1>1. Shape /\ Healthy /\ [Next]_vars => Healthy'
  BY NextHealthy
<1> QED
  BY <1>1, InitHealthy, AlwaysShape, PTL DEF Spec

-----------------------------------------------------------------------------
MsgsOf(s) == [i \in 1 .. Len(s) |-> s[i].msg]
GotOf(s)  == [i \in 1 .. Len(s) |-> s[i].got]

\* The abstract list of messages sent is what was received followed by what
\* is in transit.
LEMMA Listed ==
    ASSUME NEW r \in Seq(Receipt), NEW o \in Seq(Origin)
    PROVE  /\ MsgsOf(r) \o MsgsOf(o) \in Seq(Messages)
           /\ Len(r) \in Nat /\ Len(o) \in Nat
           /\ Len(MsgsOf(r) \o MsgsOf(o)) = Len(r) + Len(o)
           /\ \A i \in 1 .. Len(r) + Len(o) :
                 (MsgsOf(r) \o MsgsOf(o))[i] =
                     IF i <= Len(r) THEN r[i].msg ELSE o[i - Len(r)].msg
           /\ GotOf(r) \in Seq(Message(Schema) \cup {Junk})
           /\ Len(GotOf(r)) = Len(r)
           /\ \A i \in 1 .. Len(r) : GotOf(r)[i] = r[i].got
<1>1. Len(r) \in Nat /\ Len(o) \in Nat
  BY LenProperties
<1>2. /\ \A i \in 1 .. Len(r) : r[i] \in Receipt
      /\ \A i \in 1 .. Len(o) : o[i] \in Origin
  BY ElementOfSeq
<1>3. /\ MsgsOf(r) \in [1 .. Len(r) -> Messages]
      /\ MsgsOf(o) \in [1 .. Len(o) -> Messages]
      /\ GotOf(r) \in [1 .. Len(r) -> Message(Schema) \cup {Junk}]
  BY <1>2 DEF MsgsOf, GotOf, Receipt, Origin
<1>4. /\ MsgsOf(r) \in Seq(Messages) /\ MsgsOf(o) \in Seq(Messages)
      /\ GotOf(r) \in Seq(Message(Schema) \cup {Junk})
  <2>1. MsgsOf(r) \in Seq(Messages)
    BY <1>1, <1>3, SeqDef
  <2>2. MsgsOf(o) \in Seq(Messages)
    BY <1>1, <1>3, SeqDef
  <2>3. GotOf(r) \in Seq(Message(Schema) \cup {Junk})
    <3> DEFINE g == Message(Schema) \cup {Junk}
    <3>1. GotOf(r) \in [1 .. Len(r) -> g]
      BY <1>3
    <3> HIDE DEF g
    <3>2. GotOf(r) \in Seq(g)
      BY <1>1, <3>1, SeqDef
    <3> QED
      BY <3>2 DEF g
  <2> QED
    BY <2>1, <2>2, <2>3
<1>5. Len(MsgsOf(r)) = Len(r) /\ Len(MsgsOf(o)) = Len(o) /\ Len(GotOf(r)) = Len(r)
  BY <1>1, <1>3, <1>4, LenProperties
<1>6. /\ \A i \in 1 .. Len(r) : MsgsOf(r)[i] = r[i].msg /\ GotOf(r)[i] = r[i].got
      /\ \A i \in 1 .. Len(o) : MsgsOf(o)[i] = o[i].msg
  BY DEF MsgsOf, GotOf
<1> DEFINE a == MsgsOf(r)
           b == MsgsOf(o)
<1> HIDE DEF a, b
<1>7. /\ a \o b \in Seq(Messages)
      /\ Len(a \o b) = Len(a) + Len(b)
      /\ \A i \in 1 .. Len(a) + Len(b) : (a \o b)[i] = IF i <= Len(a) THEN a[i] ELSE b[i - Len(a)]
  BY <1>4, ConcatProperties DEF a, b
<1>8. \A i \in 1 .. Len(r) + Len(o) : IF i <= Len(r) THEN i \in 1 .. Len(r)
                                                      ELSE i - Len(r) \in 1 .. Len(o)
  BY <1>1
<1> QED
  BY <1>1, <1>4, <1>5, <1>6, <1>7, <1>8 DEF a, b

FifoSent     == MsgsOf(received) \o MsgsOf(origin)
FifoReceived == GotOf(received)

\* A step that neither sends nor receives is a stutter of the abstract queue.
LEMMA FifoStutter ==
    ASSUME UNCHANGED <<received, origin>>
    PROVE  UNCHANGED Fifo!vars
  BY DEF Fifo!vars

\* A message handed out is the oldest that has not been.
LEMMA ReceiveImplemented ==
    ASSUME Carried, Shape, Linked, Healthy, DecodeReturn
    PROVE  Fifo!Receive
<1> DEFINE o == Head(origin)
           r == [msg |-> o.msg, got |-> dmsg, tainted |-> o.tainted]
           n == Len(received)
<1>1. /\ dmsg # NoMessage /\ dfi = NumFields + 1
      /\ received' = Append(received, r)
      /\ link' = Tail(link) /\ origin' = Tail(origin)
  BY DEF DecodeReturn
<1>2. link # << >> /\ Types /\ Transit /\ dmsg \in Message(Schema)
  BY <1>1 DEF Shape, Decoding, Types
<1>3. /\ o = origin[1] /\ o \in Origin
      /\ Len(origin) \in Nat \ {0}
  BY <1>2, FirstInTransit
<1>4. r \in Receipt
  BY <1>2, <1>3 DEF Origin, Receipt
<1>5. dmsg = Wire(Schema, o.msg)
  BY <1>1, <1>3, DecodedWhole DEF Healthy
<1> HIDE DEF r
<1>6. /\ received' \in Seq(Receipt) /\ Len(received') = n + 1 /\ n \in Nat
      /\ \A i \in 1 .. n : received'[i] = received[i]
      /\ received'[n + 1] = r
  BY <1>1, <1>2, <1>4, AppendProperties, LenProperties DEF Types
<1>7. /\ origin' \in Seq(Origin) /\ Len(origin') = Len(origin) - 1
      /\ \A k \in 1 .. Len(origin') : origin'[k] = origin[k + 1]
  BY <1>1, <1>2, OthersInTransit
<1>8. /\ FifoSent \in Seq(Messages) /\ Len(FifoSent) = n + Len(origin)
      /\ \A i \in 1 .. n + Len(origin) :
            FifoSent[i] = IF i <= n THEN received[i].msg ELSE origin[i - n].msg
      /\ FifoReceived \in Seq(Message(Schema) \cup {Junk}) /\ Len(FifoReceived) = n
      /\ \A i \in 1 .. n : FifoReceived[i] = received[i].got
  BY <1>2, Listed DEF Types, FifoSent, FifoReceived
<1>9. /\ FifoSent' \in Seq(Messages) /\ Len(FifoSent') = Len(received') + Len(origin')
      /\ \A i \in 1 .. Len(received') + Len(origin') :
            FifoSent'[i] = IF i <= Len(received') THEN received'[i].msg
                           ELSE origin'[i - Len(received')].msg
      /\ FifoReceived' \in Seq(Message(Schema) \cup {Junk}) /\ Len(FifoReceived') = Len(received')
      /\ \A i \in 1 .. Len(received') : FifoReceived'[i] = received'[i].got
  BY <1>6, <1>7, Listed DEF FifoSent, FifoReceived
<1>10. FifoSent' = FifoSent
  <2>1. Len(FifoSent') = Len(FifoSent)
    BY <1>3, <1>6, <1>7, <1>8, <1>9
  <2>2. ASSUME NEW i \in 1 .. n + Len(origin) PROVE FifoSent'[i] = FifoSent[i]
    <3>0. i \in 1 .. Len(received') + Len(origin')
      BY <1>3, <1>6, <1>7
    <3>1. CASE i <= n
      <4>1. i \in 1 .. n /\ i <= Len(received')
        BY <1>6, <3>1
      <4>2. FifoSent[i] = received[i].msg
        BY <1>8, <3>1
      <4>3. FifoSent'[i] = received'[i].msg
        BY <1>9, <3>0, <4>1
      <4> QED
        BY <1>6, <4>1, <4>2, <4>3
    <3>2. CASE i = n + 1
      <4>1. ~(i <= n) /\ i - n = 1 /\ i <= Len(received')
        BY <1>6, <3>2
      <4> QED
        BY <1>3, <1>6, <1>8, <1>9, <3>0, <3>2, <4>1 DEF r
    <3>3. CASE i > n + 1
      <4>1. /\ ~(i <= n) /\ ~(i <= Len(received'))
            /\ i - Len(received') \in 1 .. Len(origin')
            /\ (i - Len(received')) + 1 = i - n
        BY <1>3, <1>6, <1>7, <3>3
      <4> QED
        BY ZenonT(40), <1>7, <1>8, <1>9, <3>0, <4>1
    <3> QED
      BY <1>6, <3>1, <3>2, <3>3
  <2> QED
    BY <1>8, <1>9, <2>1, <2>2, SeqEqual
<1>11. FifoSent[n + 1] = o.msg
  <2>1. n + 1 \in 1 .. n + Len(origin) /\ ~(n + 1 <= n) /\ (n + 1) - n = 1
    BY <1>3, <1>6
  <2> QED
    BY <1>3, <1>8, <2>1
<1>12. FifoReceived' = Append(FifoReceived, Wire(Schema, o.msg))
  <2> DEFINE a == Append(FifoReceived, Wire(Schema, o.msg))
  <2>1. Wire(Schema, o.msg) \in Message(Schema) \cup {Junk}
    BY <1>2, <1>5
  <2>2. /\ a \in Seq(Message(Schema) \cup {Junk}) /\ Len(a) = n + 1
        /\ \A i \in 1 .. n : a[i] = FifoReceived[i]
        /\ a[n + 1] = Wire(Schema, o.msg)
    BY <1>8, <2>1, AppendProperties
  <2>3. received'[n + 1].got = Wire(Schema, o.msg)
    BY <1>5, <1>6 DEF r
  <2> HIDE DEF a
  <2>4. ASSUME NEW i \in 1 .. n + 1 PROVE FifoReceived'[i] = a[i]
    <3>1. FifoReceived'[i] = received'[i].got
      BY <1>6, <1>9
    <3>2. CASE i = n + 1
      BY <2>2, <2>3, <3>1, <3>2
    <3>3. CASE i # n + 1
      <4>1. i \in 1 .. n
        BY <1>6, <3>3
      <4> QED
        BY <1>6, <1>8, <2>2, <3>1, <4>1
    <3> QED
      BY <3>2, <3>3
  <2> QED
    BY <1>6, <1>9, <2>2, <2>4, SeqEqual DEF a
<1>13. Len(FifoReceived) < Len(FifoSent)
  BY <1>3, <1>6, <1>8
<1>14. FifoReceived' = Append(FifoReceived, Wire(Schema, FifoSent[Len(FifoReceived) + 1]))
  BY <1>8, <1>11, <1>12
<1> QED
  BY <1>10, <1>13, <1>14 DEF Received, Fifo!Receive, FifoSent, FifoReceived, MsgsOf, GotOf

\* An encode that returns a frame sends its message, one that fails none.
LEMMA SendImplemented ==
    ASSUME Shape, NEW capacity \in Capacities, EncodeReturn(capacity)
    PROVE  (\E m \in Messages : Fifo!Send(m)) \/ UNCHANGED Fifo!vars
<1> DEFINE f == IF UseLiteral THEN Literal(emsg) ELSE Compressed(words)
           o == [msg |-> emsg, trail |-> trail, tainted |-> tainted]
           n == Len(received)
<1>1. /\ emsg # NoMessage /\ Len(words) = NumFields
      /\ UNCHANGED received
      /\ \/ UNCHANGED <<link, origin>>
         \/ origin' = Append(origin, o)
  BY DEF EncodeReturn
<1>2. o \in Origin /\ o.msg = emsg /\ emsg \in Messages
  BY <1>1, FrameMade DEF Shape, Types
<1> HIDE DEF f, o
<1>3. CASE UNCHANGED <<link, origin>>
  BY <1>1, <1>3, FifoStutter
<1>4. CASE origin' = Append(origin, o)
  <2>1. /\ origin' \in Seq(Origin) /\ Len(origin') = Len(origin) + 1 /\ Len(origin) \in Nat
        /\ \A k \in 1 .. Len(origin) : origin'[k] = origin[k]
        /\ origin'[Len(origin) + 1] = o
    BY <1>2, <1>4, AppendProperties, LenProperties DEF Shape, Types
  <2>2. /\ FifoSent \in Seq(Messages) /\ Len(FifoSent) = n + Len(origin) /\ n \in Nat
        /\ \A i \in 1 .. n + Len(origin) :
              FifoSent[i] = IF i <= n THEN received[i].msg ELSE origin[i - n].msg
    BY Listed DEF Shape, Types, FifoSent
  <2>3. /\ FifoSent' \in Seq(Messages) /\ Len(FifoSent') = n + Len(origin')
        /\ \A i \in 1 .. n + Len(origin') :
              FifoSent'[i] = IF i <= n THEN received[i].msg ELSE origin'[i - n].msg
    BY <1>1, <2>1, Listed DEF Shape, Types, FifoSent
  <2> DEFINE a == Append(FifoSent, emsg)
             q == n + Len(origin)
  <2>4. /\ a \in Seq(Messages) /\ Len(a) = q + 1
        /\ \A i \in 1 .. q : a[i] = FifoSent[i]
        /\ a[q + 1] = emsg
    BY <1>2, <2>2, AppendProperties
  <2> HIDE DEF a
  <2>5. ASSUME NEW i \in 1 .. q + 1 PROVE FifoSent'[i] = a[i]
    <3>1. CASE i <= n
      <4>1. i \in 1 .. q /\ i \in 1 .. n + Len(origin')
        BY <2>1, <2>2, <3>1
      <4> QED
        BY <2>2, <2>3, <2>4, <3>1, <4>1
    <3>2. CASE n < i /\ i <= q
      <4>1. /\ i \in 1 .. q /\ i \in 1 .. n + Len(origin') /\ ~(i <= n)
            /\ i - n \in 1 .. Len(origin)
        BY <2>1, <2>2, <3>2
      <4> QED
        BY <2>1, <2>2, <2>3, <2>4, <4>1
    <3>3. CASE i = q + 1
      <4>1. /\ i \in 1 .. n + Len(origin') /\ ~(i <= n)
            /\ i - n = Len(origin) + 1
        BY <2>1, <2>2, <3>3
      <4> QED
        BY <1>2, <2>1, <2>3, <2>4, <3>3, <4>1
    <3>4. i <= n \/ (n < i /\ i <= q) \/ i = q + 1
      <4>1. n \in Nat /\ Len(origin) \in Nat /\ i \in 1 .. q + 1
        BY <2>1, <2>2
      <4> QED
        BY <4>1
    <3> QED
      BY <3>1, <3>2, <3>3, <3>4
  <2>6. Len(FifoSent') = q + 1
    BY <2>1, <2>2, <2>3
  <2>7. FifoSent' = Append(FifoSent, emsg)
    BY <2>3, <2>4, <2>5, <2>6, SeqEqual DEF a
  <2>8. UNCHANGED FifoReceived
    BY <1>1 DEF FifoReceived
  <2>9. PICK m \in Messages : m = emsg
    BY <1>2
  <2>10. Fifo!Send(m)
    BY <2>7, <2>8, <2>9 DEF Fifo!Send, FifoSent, FifoReceived, MsgsOf, GotOf
  <2> QED
    BY <2>10
<1> QED
  BY <1>1, <1>3, <1>4

\* The stream starts as the abstract queue does.
LEMMA InitImplemented == Init => Fifo!Init
<1> SUFFICES ASSUME Init PROVE Fifo!Init
  OBVIOUS
<1>1. received = << >> /\ origin = << >>
  BY DEF Init
<1>2. /\ << >> \in Seq(Receipt) /\ << >> \in Seq(Origin)
      /\ Len(received) = 0 /\ Len(origin) = 0
  BY <1>1, EmptySeq
<1>3. /\ FifoSent \in Seq(Messages) /\ Len(FifoSent) = Len(received) + Len(origin)
      /\ FifoReceived \in Seq(Message(Schema) \cup {Junk}) /\ Len(FifoReceived) = Len(received)
  <2>1. received \in Seq(Receipt) /\ origin \in Seq(Origin)
    BY <1>1, <1>2
  <2> QED
    BY <2>1, Listed DEF FifoSent, FifoReceived
<1>4. FifoSent = << >> /\ FifoReceived = << >>
  BY <1>2, <1>3, EmptySeq
<1> QED
  BY <1>4 DEF Fifo!Init, FifoSent, FifoReceived, MsgsOf, GotOf

\* Every step is one of the abstract queue, or a stutter.
LEMMA StepImplemented ==
    ASSUME Carried, Shape, Linked, Healthy, [Next]_vars
    PROVE  [Fifo!Next]_(Fifo!vars)
<1>1. CASE UNCHANGED <<received, origin>>
  BY <1>1, FifoStutter
<1>2. ASSUME NEW capacity \in Capacities, EncodeReturn(capacity)
      PROVE  [Fifo!Next]_(Fifo!vars)
  BY <1>2, SendImplemented DEF Fifo!Next
<1>3. ASSUME Misread PROVE FALSE
  BY <1>3, MisreadTainted, FirstInTransit DEF Shape, Healthy
<1>4. ASSUME DecodeReturn PROVE [Fifo!Next]_(Fifo!vars)
  BY <1>4, ReceiveImplemented DEF Fifo!Next
<1>5. ASSUME NEW m \in Messages, EncodeCall(m) PROVE UNCHANGED <<received, origin>>
  BY <1>5 DEF EncodeCall
<1>6. ASSUME EncodeStep \/ DecodeCall \/ DecodeStep \/ CommitStep \/ ResetBoth
      PROVE  UNCHANGED <<received, origin>>
  BY <1>6 DEF EncodeStep, DecodeCall, DecodeStep, CommitStep, ResetBoth
<1>7. UNCHANGED vars => UNCHANGED <<received, origin>>
  BY DEF vars
<1> QED
  BY <1>1, <1>2, <1>3, <1>4, <1>5, <1>6, <1>7 DEF Next

\* The stream of an application that does not go on after a failed encode
\* without a reset implements the message queue MessageFifo: this is the
\* safety part of ImplementsFifo, step by step.
THEOREM StreamIsFifo ==
    ASSUME Carried, ~RESUME
    PROVE  Spec => Fifo!Init /\ [][Fifo!Next]_(Fifo!vars)
<1>1. Shape /\ Linked /\ Healthy /\ [Next]_vars => [Fifo!Next]_(Fifo!vars)
  BY StepImplemented
<1> QED
  BY <1>1, InitImplemented, AlwaysShape, AlwaysLinked, AlwaysHealthy, PTL DEF Spec
=============================================================================

--------------------------- MODULE SessionProofs ----------------------------
(***************************************************************************)
(* Proofs about Session, for any schemas, messages, buffer sizes, places   *)
(* of the snapshots and bounds on the transport.                           *)
(*                                                                         *)
(* First one message: CodecLemmas has that its fields are carried; the     *)
(* type header is read back; so a frame decoded in the state it was made   *)
(* from gives the message and moves the decoder as the encoder was moved   *)
(* (DecodeUndoesMulti), and a failed encode leaves a state that can be     *)
(* encoded from (EncodeMultiGood).                                         *)
(*                                                                         *)
(* Then the protocol.  The messages of the log determine the states a      *)
(* codec goes through, S, whatever the transport does; the invariant says  *)
(* that each side, each snapshot and each frame in transit, of any pass,   *)
(* stands somewhere on S.  That is why a frame may be decoded as soon as   *)
(* its number and pass are right, and why going back is safe.              *)
(***************************************************************************)
EXTENDS Session, CodecLemmas

-----------------------------------------------------------------------------
(* A message of a multi-type stream. *)

Good(st) == st \in MultiState /\ Sound(Start(st.codec))

\* The schema of a message, and the state that encoding it leads to.
SchemaFor(m) == SchemaOf(TypeIndex[m.type])

Moved(st, m) ==
    [ codec               |-> EncodeFields(st.codec, SchemaFor(m), m.msg).st,
      last_msg_type_index |-> TypeIndex[m.type] ]

\* The type in a header is read back as it was written.
LEMMA TypeRead ==
    ASSUME NEW st, NEW idx \in Index
    PROVE  ReadType(st, Header(st, idx)) = idx
<1>1. num_types \in Nat /\ num_types > 0 /\ idx \in Nat /\ idx <= num_types - 1
  BY MultiAssumption DEF Index
<1>2. Same.v = 0 /\ Different.v = 1
  BY DEF Same, Different, Bits
<1>3. CASE idx = st.last_msg_type_index /\ st.codec.msg_count > 0
  BY <1>2, <1>3 DEF ReadType, Header
<1>4. CASE ~(idx = st.last_msg_type_index /\ st.codec.msg_count > 0)
  <2> DEFINE h == Header(st, idx)
             long == idx < num_types - 1
             T == {Same, Different}
             ones == [i \in 1 .. idx |-> Different]
             end == IF long THEN << Same >> ELSE << >>
  <2>1. h = << Different >> \o (ones \o end)
    BY <1>4 DEF Header, TypeCode
  <2>2. /\ ones \in Seq(T) /\ Len(ones) = idx /\ \A i \in 1 .. idx : ones[i] = Different
        /\ end \in Seq(T) /\ Len(end) = IF long THEN 1 ELSE 0
        /\ << Different >> \in Seq(T) /\ Len(<< Different >>) = 1
    <3>1. Same \in T /\ Different \in T
      OBVIOUS
    <3> HIDE DEF T
    <3>2. ones \in Seq(T) /\ Len(ones) = idx /\ \A i \in 1 .. idx : ones[i] = Different
      BY <1>1, <3>1
    <3>3. << Same >> \in Seq(T) /\ Len(<< Same >>) = 1 /\ << >> \in Seq(T) /\ Len(<< >>) = 0
      BY <3>1
    <3>4. end \in Seq(T) /\ Len(end) = IF long THEN 1 ELSE 0
      BY <3>3
    <3>5. << Different >> \in Seq(T) /\ Len(<< Different >>) = 1
      BY <3>1
    <3> QED
      BY <3>2, <3>4, <3>5
  <2>3. long => end[1] = Same
    OBVIOUS
  <2> DEFINE tail == ones \o end
  <2> HIDE DEF ones, end, T
  <2>4. /\ tail \in Seq(T) /\ Len(tail) = IF long THEN idx + 1 ELSE idx
        /\ \A i \in 1 .. idx : tail[i] = Different
        /\ long => tail[idx + 1] = Same
    <3>1. tail \in Seq(T) /\ Len(tail) = Len(ones) + Len(end)
      BY <2>2, ConcatProperties
    <3>2. \A i \in 1 .. Len(ones) + Len(end) :
              tail[i] = IF i <= Len(ones) THEN ones[i] ELSE end[i - Len(ones)]
      BY <2>2, ConcatProperties
    <3>3. Len(tail) = IF long THEN idx + 1 ELSE idx
      BY <1>1, <2>2, <3>1
    <3>4. \A i \in 1 .. idx : tail[i] = Different
      BY <1>1, <2>2, <3>2
    <3>5. long => tail[idx + 1] = Same
      <4>1. (idx + 1) - idx = 1 /\ ~(idx + 1 <= idx)
        BY <1>1
      <4>2. long => idx + 1 \in 1 .. Len(ones) + Len(end)
        BY <1>1, <2>2
      <4> QED
        BY <2>2, <2>3, <3>2, <4>1, <4>2
    <3> QED
      BY <3>1, <3>3, <3>4, <3>5
  <2>5. h = << Different >> \o tail
    BY <2>1
  <2> HIDE DEF tail, h
  <2>6. /\ Len(h) = 1 + Len(tail) /\ h[1] = Different
        /\ \A i \in 2 .. 1 + Len(tail) : h[i] = tail[i - 1]
    <3>1. Len(tail) \in Nat
      BY <2>4, LenProperties
    <3>2. /\ Len(h) = 1 + Len(tail)
          /\ \A i \in 1 .. 1 + Len(tail) :
                h[i] = IF i <= 1 THEN << Different >>[i] ELSE tail[i - 1]
      BY <2>2, <2>4, <2>5, ConcatProperties
    <3>3. 1 \in 1 .. 1 + Len(tail) /\ \A i \in 2 .. 1 + Len(tail) : i \in 1 .. 1 + Len(tail) /\ ~(i <= 1)
      BY <3>1
    <3> QED
      BY <3>2, <3>3
  <2> DEFINE zeros == {i \in 2 .. Len(h) : h[i].v = 0}
  <2>7. ReadType(st, h) = IF zeros = {} THEN num_types - 1
                          ELSE (CHOOSE i \in zeros : TRUE) - 2
    BY <1>2, <2>6 DEF ReadType
  <2>8. \A i \in 2 .. idx + 1 : i \in 2 .. Len(h) /\ h[i].v = 1
    <3>1. \A i \in 2 .. idx + 1 : i - 1 \in 1 .. idx /\ i \in 2 .. 1 + Len(tail)
      BY <1>1, <2>4
    <3> QED
      BY <1>2, <2>4, <2>6, <3>1
  <2>9. CASE long
    <3>1. Len(h) = idx + 2 /\ h[idx + 2].v = 0
      <4>1. Len(tail) = idx + 1 /\ idx + 2 \in 2 .. 1 + Len(tail) /\ (idx + 2) - 1 = idx + 1
            /\ 1 + (idx + 1) = idx + 2
        BY <1>1, <2>4, <2>9
      <4> QED
        BY <1>2, <2>4, <2>6, <2>9, <4>1
    <3>2. \A i \in 2 .. idx + 2 : i = idx + 2 \/ i \in 2 .. idx + 1
      BY <1>1
    <3>3. idx + 2 \in 2 .. idx + 2 /\ (idx + 2) - 2 = idx
      BY <1>1
    <3>4. zeros = {idx + 2}
      BY <2>8, <3>1, <3>2, <3>3
    <3> HIDE DEF zeros
    <3> QED
      BY <2>7, <3>3, <3>4 DEF h
  <2>10. CASE ~long
    <3>1. Len(h) = idx + 1 /\ idx = num_types - 1
      BY <1>1, <2>4, <2>6, <2>10
    <3>2. zeros = {}
      BY <2>8, <3>1
    <3> HIDE DEF zeros
    <3> QED
      BY <2>7, <3>1, <3>2 DEF h
  <2> QED
    BY <2>9, <2>10
<1> QED
  BY <1>3, <1>4

\* What an accepted message of the application is.
LEMMA SentParts ==
    ASSUME NEW m \in Messages, Accepted(m)
    PROVE  /\ m.type \in DOMAIN TypeIndex
           /\ TypeIndex[m.type] \in Index
           /\ IsSchema(SchemaFor(m))
           /\ m.msg \in Message(SchemaFor(m))
           /\ Typed(SchemaFor(m), m.msg) /\ Representable(SchemaFor(m), m.msg)
           /\ TypeOf(TypeIndex[m.type]) = m.type
<1>1. m.type \in DOMAIN TypeIndex /\ TypeIndex[m.type] \in Int
  BY SessionAssumption, MultiAssumption
<1>2. TypeIndex[m.type] \in Index
  BY <1>1, MultiAssumption DEF Accepted, Index
<1>3. TypeOf(TypeIndex[m.type]) = m.type
  <2>1. \A v \in DOMAIN TypeIndex : TypeIndex[v] = TypeIndex[m.type] => v = m.type
    BY <1>1, <1>2, MultiAssumption
  <2> QED
    BY <1>1, <2>1 DEF TypeOf
<1> QED
  BY <1>1, <1>2, <1>3, SessionAssumption, MultiAssumption DEF SchemaFor

\* What residc_encode_multi computes, with its loop variables replaced.
EncodedFrame(st, m) ==
    LET idx      == TypeIndex[m.type]
        e        == EncodeFields(st.codec, SchemaFor(m), m.msg)
        header   == Header(st, idx)
        raw_size == RawSize(SchemaFor(m)) + 1
        len      == PayloadLen(header, e.words)
    IN  IF len >= raw_size \/ len >= 254
        THEN [kind |-> "literal", type |-> m.type, msg |-> Wire(SchemaFor(m), m.msg),
              len |-> 1 + raw_size]
        ELSE [kind |-> "compressed", idx |-> idx, header |-> header,
              words |-> e.words, len |-> 1 + len]

\* residc_encode_multi returns the frame, and moves the codec and, unless the
\* frame does not fit, the last type.
LEMMA EncodeMultiIs ==
    ASSUME NEW st, NEW m, NEW capacity
    PROVE  LET e == EncodeMulti(st, m, capacity) IN
           /\ e.error \in BOOLEAN
           /\ e.st = [Moved(st, m) EXCEPT !.last_msg_type_index =
                         IF e.error THEN st.last_msg_type_index ELSE @]
           /\ e.frame = EncodedFrame(st, m)
<1> DEFINE idx      == TypeIndex[m.type]
           raw_size == RawSize(SchemaOf(idx)) + 1
           Literal  == [kind |-> "literal", type |-> m.type, msg |-> Wire(SchemaOf(idx), m.msg),
                        len |-> 1 + raw_size]
           len(e, header) == PayloadLen(header, e.words)
           literal(e, header) == len(e, header) >= raw_size \/ len(e, header) >= 254
           error(e, header)   == literal(e, header) /\ capacity < 1 + raw_size
           Outcome(e, header) ==
               [ error |-> error(e, header),
                 st    |-> [ codec               |-> e.st,
                             last_msg_type_index |-> IF error(e, header)
                                                     THEN st.last_msg_type_index ELSE idx ],
                 frame |-> IF literal(e, header) THEN Literal
                           ELSE [kind |-> "compressed", idx |-> idx, header |-> header,
                                 words |-> e.words, len |-> 1 + len(e, header)] ]
           fields == EncodeFields(st.codec, SchemaOf(idx), m.msg)
           head   == Header(st, idx)
<1>1. EncodeMulti(st, m, capacity) =
          The({Outcome(e, header) : e \in {fields}, header \in {head}})
  BY DEF EncodeMulti
<1>2. EncodeMulti(st, m, capacity) = Outcome(fields, head)
  <2> DEFINE D == {Outcome(e, header) : e \in {fields}, header \in {head}}
             o == Outcome(fields, head)
  <2>1. EncodeMulti(st, m, capacity) = The(D)
    BY <1>1
  <2> HIDE DEF Outcome, fields, head
  <2>2. D = {o}
    OBVIOUS
  <2> HIDE DEF D, o
  <2>3. EncodeMulti(st, m, capacity) = o
    BY <2>1, <2>2, TheOne
  <2> QED
    BY <2>3 DEF o
<1>3. /\ Moved(st, m) = [codec |-> fields.st, last_msg_type_index |-> idx]
      /\ EncodedFrame(st, m) = Outcome(fields, head).frame
  BY DEF Moved, EncodedFrame, SchemaFor
<1> DEFINE bad == error(fields, head)
<1>4. bad \in BOOLEAN
  OBVIOUS
<1>5. /\ Outcome(fields, head).error = bad
      /\ Outcome(fields, head).st =
             [ codec |-> fields.st,
               last_msg_type_index |-> IF bad THEN st.last_msg_type_index ELSE idx ]
  OBVIOUS
<1> HIDE DEF Outcome, fields, head, bad, idx
<1> QED
  BY <1>2, <1>3, <1>4, <1>5

\* Encoding keeps the state good, whether the frame fits the buffer or not.
LEMMA EncodeMultiGood ==
    ASSUME NEW st, Good(st), NEW m \in Messages, Accepted(m), NEW capacity
    PROVE  Good(Moved(st, m)) /\ Good(EncodeMulti(st, m, capacity).st)
<1> DEFINE s == EncodeFields(st.codec, SchemaFor(m), m.msg).st
           e == EncodeMulti(st, m, capacity)
<1>1. Sound(Start(s))
  BY SentParts, FieldsCarried DEF Good
<1>2. s \in State
  BY <1>1 DEF Sound, Cursor, Start
<1>3. st.last_msg_type_index \in Index /\ TypeIndex[m.type] \in Index
  BY SentParts DEF Good, MultiState
<1>4. Moved(st, m) = [codec |-> s, last_msg_type_index |-> TypeIndex[m.type]]
  BY DEF Moved
<1>5. e.st = [Moved(st, m) EXCEPT !.last_msg_type_index =
                 IF e.error THEN st.last_msg_type_index ELSE @]
  BY EncodeMultiIs
<1> HIDE DEF s, e
<1>6. /\ e.st.codec = s /\ e.st.last_msg_type_index \in Index
      /\ e.st = [codec |-> s, last_msg_type_index |-> e.st.last_msg_type_index]
  BY <1>3, <1>4, <1>5
<1>7. /\ Moved(st, m) \in MultiState /\ Moved(st, m).codec = s
      /\ e.st \in MultiState /\ e.st.codec = s
  <2>1. Moved(st, m) \in MultiState /\ Moved(st, m).codec = s
    BY <1>2, <1>3, <1>4 DEF MultiState
  <2> DEFINE last == e.st.last_msg_type_index
  <2>2. e.st = [codec |-> s, last_msg_type_index |-> last] /\ last \in Index
    BY <1>6
  <2> HIDE DEF last
  <2> QED
    BY <1>2, <2>1, <2>2 DEF MultiState
<1>8. Good(Moved(st, m)) /\ Good(e.st)
  BY <1>1, <1>7 DEF Good
<1> QED
  BY <1>8 DEF e

\* Decoding a frame in the state it was made from gives the message as it is
\* to arrive, and moves the state as encoding did, whichever kind it is of.
LEMMA DecodeUndoesMulti ==
    ASSUME NEW st, Good(st), NEW m \in Messages, Accepted(m)
    PROVE  DecodeMulti(st, EncodedFrame(st, m)) = [st |-> Moved(st, m), msg |-> Received(m)]
<1> DEFINE idx    == TypeIndex[m.type]
           schema == SchemaFor(m)
           e      == EncodeFields(st.codec, schema, m.msg)
           header == Header(st, idx)
           f      == EncodedFrame(st, m)
<1>1. /\ idx \in Index /\ IsSchema(schema) /\ schema = SchemaOf(idx)
      /\ m.msg \in Message(schema) /\ Typed(schema, m.msg) /\ Representable(schema, m.msg)
      /\ TypeOf(idx) = m.type
  BY SentParts DEF SchemaFor
<1>2. /\ DecodeFields(st.codec, schema, e.words) =
             [aligned |-> TRUE, msg |-> Wire(schema, m.msg), st |-> e.st]
      /\ CommitFields(st.codec, schema, Wire(schema, m.msg)) = e.st
  BY <1>1, FieldsCarried DEF Good
<1>3. /\ Moved(st, m) = [codec |-> e.st, last_msg_type_index |-> idx]
      /\ Received(m) = [type |-> m.type, msg |-> Wire(schema, m.msg)]
  BY DEF Moved, Received, SchemaFor
<1>4. ReadType(st, header) = idx
  BY <1>1, TypeRead
<1>5. \/ /\ f.kind = "literal" /\ f.type = m.type /\ f.msg = Wire(schema, m.msg)
      \/ /\ f.kind = "compressed" /\ f.idx = idx /\ f.header = header /\ f.words = e.words
  BY DEF EncodedFrame
<1> HIDE DEF f, schema, e, header
<1>6. CASE f.kind = "literal" /\ f.type = m.type /\ f.msg = Wire(schema, m.msg)
  <2>1. DecodeMulti(st, f) = DecodeLiteral(st, f)
    BY <1>6 DEF DecodeMulti
  <2>2. DecodeLiteral(st, f) =
            [ st  |-> [codec |-> CommitFields(st.codec, SchemaOf(idx), f.msg),
                       last_msg_type_index |-> idx],
              msg |-> [type |-> m.type, msg |-> f.msg] ]
    BY <1>6 DEF DecodeLiteral
  <2> QED
    BY <1>1, <1>2, <1>3, <1>6, <2>1, <2>2 DEF f
<1>7. CASE f.kind = "compressed" /\ f.idx = idx /\ f.header = header /\ f.words = e.words
  <2> DEFINE Outcome(d) ==
                 IF ~d.aligned THEN [st |-> st, msg |-> Junk]
                 ELSE [ st  |-> [codec |-> d.st, last_msg_type_index |-> ReadType(st, f.header)],
                        msg |-> [type |-> TypeOf(ReadType(st, f.header)), msg |-> d.msg] ]
             D == DecodeFields(st.codec, SchemaOf(ReadType(st, f.header)), f.words)
             R == {Outcome(d) : d \in {D}}
             o == Outcome(D)
  <2>1. DecodeMulti(st, f) = DecodeCompressed(st, f)
    BY <1>7 DEF DecodeMulti
  <2>2. ReadType(st, f.header) = f.idx
    BY <1>4, <1>7
  <2>3. DecodeCompressed(st, f) = The(R)
    BY <2>2 DEF DecodeCompressed
  <2>4. D = [aligned |-> TRUE, msg |-> Wire(schema, m.msg), st |-> e.st]
    BY <1>1, <1>2, <1>4, <1>7
  <2> HIDE DEF D
  <2>5. o = [ st  |-> [codec |-> e.st, last_msg_type_index |-> idx],
              msg |-> [type |-> m.type, msg |-> Wire(schema, m.msg)] ]
    <3>1. /\ D.aligned /\ D.st = e.st /\ D.msg = Wire(schema, m.msg)
          /\ ReadType(st, f.header) = idx
      BY <1>7, <2>2, <2>4
    <3>2. TypeOf(ReadType(st, f.header)) = m.type
      BY <1>1, <3>1
    <3> QED
      BY <3>1, <3>2
  <2> HIDE DEF Outcome
  <2>6. R = {o}
    OBVIOUS
  <2> HIDE DEF R, o
  <2> QED
    BY <1>3, <2>1, <2>3, <2>5, <2>6, TheOne DEF f
<1> QED
  BY <1>5, <1>6, <1>7

\* What both sides do before a message keeps a state good.
LEMMA PreparedGood ==
    ASSUME NEW st, Good(st), NEW n
    PROVE  Good(Prepared(st, n))
<1> DEFINE table  == Seed(SeedList, Len(SeedList))
           seeded == IF n = SEED THEN [st EXCEPT !.codec.mfu = table] ELSE st
<1>1. st \in MultiState /\ st.codec \in State /\ GoodRanks(st.codec.mfu)
  BY DEF Good, MultiState, Sound, Cursor, Start
<1>2. table \in Table /\ GoodRanks(table)
  <2>1. Len(SeedList) \in Nat /\ \A i \in 1 .. Len(SeedList) : SeedList[i] \in Entry
    BY SessionAssumption
  <2> QED
    BY <2>1, SeedGood
<1> HIDE DEF table
<1>3. seeded \in MultiState /\ seeded.codec \in State /\ GoodRanks(seeded.codec.mfu)
  <2>1. CASE n = SEED
    <3>1. seeded = [st EXCEPT !.codec = [st.codec EXCEPT !.mfu = table]]
      BY <2>1
    <3>2. /\ [st.codec EXCEPT !.mfu = table] \in State
          /\ [st.codec EXCEPT !.mfu = table].mfu = table
      BY <1>1, <1>2 DEF State
    <3> HIDE DEF seeded
    <3> QED
      BY <1>1, <1>2, <3>1, <3>2 DEF MultiState
  <2>2. CASE n # SEED
    BY <1>1, <2>2
  <2> QED
    BY <2>1, <2>2
<1>4. Prepared(st, n) = IF n = SWITCH THEN [seeded EXCEPT !.codec = SetCoder(@, "expgolomb")]
                        ELSE seeded
  BY DEF Prepared, table
<1> HIDE DEF seeded
<1>5. /\ SetCoder(seeded.codec, "expgolomb") \in State
      /\ SetCoder(seeded.codec, "expgolomb").mfu = seeded.codec.mfu
  BY <1>3 DEF SetCoder, State
<1> DEFINE p == Prepared(st, n)
<1>6. p \in MultiState /\ p.codec \in State /\ GoodRanks(p.codec.mfu)
  <2>1. CASE n = SWITCH
    <3>1. p = [seeded EXCEPT !.codec = SetCoder(seeded.codec, "expgolomb")]
      BY <1>4, <2>1
    <3> HIDE DEF p
    <3> QED
      BY <1>3, <1>5, <3>1 DEF MultiState
  <2>2. CASE n # SWITCH
    BY <1>3, <1>4, <2>2
  <2> QED
    BY <2>1, <2>2
<1> HIDE DEF p
<1>7. Start(p.codec) \in Cursor /\ Start(p.codec).st = p.codec
  BY <1>6 DEF Cursor, Start
<1> QED
  BY <1>6, <1>7 DEF Good, Sound, p

\* The state of a new codec is good.
LEMMA InitMultiGood == Good(InitMulti)
<1>1. Sound(Start(InitState))
  BY InitSound
<1>2. InitState \in State
  BY <1>1 DEF Sound, Cursor, Start
<1>3. 0 \in Index
  BY MultiAssumption DEF Index
<1> QED
  BY <1>1, <1>2, <1>3 DEF Good, InitMulti, MultiState
-----------------------------------------------------------------------------
(* The inductive invariant: S is the history of the stream, S[n] the state  *)
(* of a codec that has seen its first n messages.                          *)

GoodStates == {st \in MultiState : Good(st)}
Acceptable == {m \in Messages : Accepted(m)}

\* The states that the messages of the log lead through.
History(S) ==
    /\ S \in [0 .. Len(log) -> GoodStates]
    /\ S[0] = InitMulti
    /\ \A n \in 1 .. Len(log) : S[n] = Moved(Prepared(S[n - 1], n), log[n])

\* The sender is where the history is before the next message, unless an
\* encode has failed, and its snapshots are of the history.
SenderFollows(S) ==
    /\ log \in Seq(Acceptable)
    /\ next \in 1 .. Len(log) + 1
    /\ refused \in BOOLEAN
    /\ enc \in GoodStates
    /\ ~refused => enc = S[next - 1]
    /\ saved = [n \in DOMAIN saved |-> S[n]]
    /\ 0 \in DOMAIN saved /\ DOMAIN saved \subseteq 0 .. Len(log)
    /\ \A n \in 1 .. Len(log) : n % CHECKPOINT = 0 /\ n < next => n \in DOMAIN saved

\* So is the receiver before the next message it takes, and what it has
\* handed out are the messages of the log.
ReceiverFollows(S) ==
    /\ dec = S[got]
    /\ snap.st = S[snap.num]
    /\ snap.num \in DOMAIN saved
    /\ got \in snap.num .. next - 1
    /\ gap \in BOOLEAN
    /\ handed \in Seq({Received(m) : m \in Acceptable})
    /\ got <= Len(handed) /\ Len(handed) <= Len(log)
    /\ \A n \in 1 .. Len(handed) : handed[n] = Received(log[n])

\* Every frame in transit, of this pass or an earlier one, was made from the
\* state the history has before its message; of this pass there are none from
\* the next message on.
FrameOf(S, n, e) ==
    [num |-> n, epoch |-> e, frame |-> EncodedFrame(Prepared(S[n - 1], n), log[n])]

InTransit(S) ==
    {f \in {FrameOf(S, n, e) : n \in 1 .. Len(log), e \in 0 .. epoch} :
        f.epoch = epoch => f.num < next}

\* p frames of earlier passes, then those of this one that the receiver has
\* not taken, without a gap.
InOrder(p) ==
    /\ p \in 0 .. Len(link)
    /\ \A k \in 1 .. p : link[k].epoch < epoch
    /\ \A k \in p + 1 .. Len(link) : link[k].epoch = epoch /\ link[k].num = (got + k) - p
    /\ (got + Len(link)) - p = next - 1

\* As many recoveries as faults, and nothing is missing: a recovery answers
\* a fault that no earlier one has.
NoVainRecovery ==
    /\ faults \in Nat /\ epoch \in 0 .. faults
    /\ epoch = faults => ~gap /\ ~refused /\ \E p \in 0 .. Len(link) : InOrder(p)

Follows(S) ==
    /\ History(S)
    /\ SenderFollows(S)
    /\ ReceiverFollows(S)
    /\ link \in Seq(InTransit(S))

IInv == (\E S : Follows(S)) /\ NoVainRecovery

-----------------------------------------------------------------------------
(* What every step uses. *)

\* The log and the history of the next state go on from those of this one.
Extends(S, T) ==
    /\ Len(log) <= Len(log')
    /\ \A n \in 0 .. Len(log) : T[n] = S[n]
    /\ \A n \in 1 .. Len(log) : log'[n] = log[n]

\* The lengths and numbers of a state in which S is the history.
LEMMA Numbers ==
    ASSUME NEW S, Follows(S), NoVainRecovery
    PROVE  /\ Len(log) \in Nat /\ Len(handed) \in Nat /\ Len(link) \in Nat
           /\ next \in Nat /\ 1 <= next /\ next <= Len(log) + 1
           /\ snap.num \in Nat /\ got \in Nat /\ snap.num <= got /\ got < next
           /\ got <= Len(handed) /\ Len(handed) <= Len(log)
           /\ epoch \in Nat /\ faults \in Nat /\ epoch <= faults
<1>1. /\ log \in Seq(Acceptable) /\ handed \in Seq({Received(m) : m \in Acceptable})
      /\ link \in Seq(InTransit(S))
  BY DEF Follows, SenderFollows, ReceiverFollows
<1>2. Len(log) \in Nat /\ Len(handed) \in Nat /\ Len(link) \in Nat
  BY <1>1, LenProperties
<1>3. /\ next \in 1 .. Len(log) + 1 /\ snap.num \in 0 .. Len(log)
      /\ got \in snap.num .. next - 1 /\ got <= Len(handed) /\ Len(handed) <= Len(log)
      /\ faults \in Nat /\ epoch \in 0 .. faults
  BY DEF Follows, SenderFollows, ReceiverFollows, NoVainRecovery
<1> QED
  BY <1>2, <1>3

\* A frame in transit was made from the state before its message.
LEMMA FrameInTransit ==
    ASSUME NEW S, Follows(S), NEW f \in InTransit(S)
    PROVE  /\ f.num \in 1 .. Len(log) /\ f.epoch \in 0 .. epoch
           /\ f.epoch = epoch => f.num < next
           /\ f.frame = EncodedFrame(Prepared(S[f.num - 1], f.num), log[f.num])
<1>1. PICK n \in 1 .. Len(log), e \in 0 .. epoch : f = FrameOf(S, n, e)
  BY DEF InTransit
<1>2. f.num = n /\ f.epoch = e /\ f.frame = EncodedFrame(Prepared(S[n - 1], n), log[n])
  BY <1>1 DEF FrameOf
<1> QED
  BY <1>2 DEF InTransit

\* A frame in transit stays one when the log grows, in this pass and the next.
LEMMA StaysInTransit ==
    ASSUME NEW S, Follows(S), NoVainRecovery, NEW T, Extends(S, T), Len(log') \in Nat,
           \/ epoch' = epoch /\ next' \in Nat /\ next <= next'
           \/ epoch' = epoch + 1
    PROVE  InTransit(S) \subseteq InTransit(T)'
<1> SUFFICES ASSUME NEW f \in InTransit(S) PROVE f \in InTransit(T)'
  OBVIOUS
<1>1. PICK n \in 1 .. Len(log), e \in 0 .. epoch : f = FrameOf(S, n, e)
  BY DEF InTransit
<1>2. f.num = n /\ f.epoch = e /\ (e = epoch => n < next)
  <2>1. f.num = n /\ f.epoch = e
    BY <1>1 DEF FrameOf
  <2> QED
    BY <2>1 DEF InTransit
<1>3. Len(log) \in Nat /\ epoch \in Nat /\ next \in Nat
  BY Numbers
<1>4. T[n - 1] = S[n - 1] /\ log'[n] = log[n]
  BY <1>3 DEF Extends
<1>5. FrameOf(T, n, e)' = f
  BY <1>1, <1>4 DEF FrameOf
<1>6. n \in 1 .. Len(log') /\ e \in 0 .. epoch' /\ (e = epoch' => n < next')
  BY <1>2, <1>3 DEF Extends
<1>7. f \in {FrameOf(T, k, d)' : k \in 1 .. Len(log'), d \in 0 .. epoch'}
  BY <1>5, <1>6
<1>8. f.epoch = epoch' => f.num < next'
  BY <1>2, <1>6
<1> QED
  BY <1>7, <1>8 DEF InTransit

\* What an encode returns: the state moves along the history unless there was
\* an error, and in any case stays good.
LEMMA EncodeOutcome ==
    ASSUME NEW st \in GoodStates, NEW m \in Acceptable, NEW n, NEW capacity
    PROVE  LET p == Prepared(st, n)
               e == EncodeMulti(p, m, capacity)
           IN  /\ e.st \in GoodStates /\ Moved(p, m) \in GoodStates
               /\ ~e.error => e.st = Moved(p, m)
               /\ e.frame = EncodedFrame(p, m)
<1> DEFINE p == Prepared(st, n)
           e == EncodeMulti(p, m, capacity)
<1>1. Good(p)
  BY PreparedGood DEF GoodStates
<1>2. m \in Messages /\ Accepted(m)
  BY DEF Acceptable
<1>3. Good(Moved(p, m)) /\ Good(e.st)
  BY <1>1, <1>2, EncodeMultiGood
<1>4. e.st \in GoodStates /\ Moved(p, m) \in GoodStates
  BY <1>3 DEF GoodStates, Good
<1>5. /\ e.st = [Moved(p, m) EXCEPT !.last_msg_type_index =
                     IF e.error THEN p.last_msg_type_index ELSE @]
      /\ e.frame = EncodedFrame(p, m)
  BY EncodeMultiIs
<1> HIDE DEF p, e
<1>6. ~e.error => e.st = Moved(p, m)
  BY <1>5 DEF Moved
<1> QED
  BY <1>4, <1>5, <1>6 DEF p, e

-----------------------------------------------------------------------------
(* The history is followed. *)

\* An encode that succeeds, of a message of the log or of a new one.
LEMMA EncodedKeeps ==
    ASSUME NEW S, Follows(S), NoVainRecovery, NEW T, Extends(S, T), History(T)',
           log' \in Seq(Acceptable), next \in 1 .. Len(log'), ~refused,
           Len(log') = Len(log) \/ next = Len(log'),
           NEW e, Encoded(e), e.st = T[next],
           e.frame = EncodedFrame(Prepared(T[next - 1], next), log'[next])
    PROVE  Follows(T)'
<1>1. /\ enc' = T[next] /\ next' = next + 1 /\ refused' = refused /\ epoch' = epoch
      /\ dec' = dec /\ got' = got /\ snap' = snap /\ gap' = gap /\ handed' = handed
      /\ link' = Append(link, [num |-> next, epoch |-> epoch, frame |-> e.frame])
      /\ saved' = IF next % CHECKPOINT = 0
                  THEN [n \in DOMAIN saved \cup {next} |-> IF n = next THEN e.st ELSE saved[n]]
                  ELSE saved
  BY DEF Encoded, Snapshot, receiver
<1>2. /\ Len(log) \in Nat /\ next \in Nat /\ got \in Nat /\ got < next
      /\ next <= Len(log) + 1 /\ snap.num \in Nat /\ snap.num <= got /\ epoch \in Nat
      /\ Len(handed) \in Nat /\ Len(handed) <= Len(log)
  BY Numbers
<1>3. Len(log') \in Nat /\ Len(log) <= Len(log')
  BY LenProperties DEF Extends
<1>4. SenderFollows(T)'
  <2>1. T[next] \in GoodStates
    <3>1. next \in 0 .. Len(log')
      BY <1>2
    <3>2. T \in [0 .. Len(log') -> GoodStates]
      BY DEF History
    <3> QED
      BY <3>1, <3>2
  <2>2. /\ saved = [n \in DOMAIN saved |-> S[n]]
        /\ 0 \in DOMAIN saved /\ DOMAIN saved \subseteq 0 .. Len(log)
        /\ \A n \in 1 .. Len(log) : n % CHECKPOINT = 0 /\ n < next => n \in DOMAIN saved
    BY DEF Follows, SenderFollows
  <2>3. \A n \in DOMAIN saved : n \in 0 .. Len(log') /\ saved[n] = T[n]
    BY <1>2, <1>3, <2>2 DEF Extends
  <2>4. DOMAIN saved' = IF next % CHECKPOINT = 0 THEN DOMAIN saved \cup {next} ELSE DOMAIN saved
    BY <1>1
  <2>5. saved' = [n \in DOMAIN saved' |-> T[n]]
    <3>1. CASE next % CHECKPOINT = 0
      BY <1>1, <2>3, <2>4, <3>1
    <3>2. CASE next % CHECKPOINT # 0
      <4>1. saved' = saved
        BY <1>1, <3>2
      <4> QED
        BY <2>2, <2>3, <4>1
    <3> QED
      BY <3>1, <3>2
  <2>6. 0 \in DOMAIN saved' /\ DOMAIN saved' \subseteq 0 .. Len(log')
    BY <1>2, <1>3, <2>2, <2>3, <2>4
  <2>7. \A n \in 1 .. Len(log') : n % CHECKPOINT = 0 /\ n < next' => n \in DOMAIN saved'
    <3> SUFFICES ASSUME NEW n \in 1 .. Len(log'), n % CHECKPOINT = 0, n < next'
                 PROVE  n \in DOMAIN saved'
      OBVIOUS
    <3>1. CASE n = next
      BY <2>4, <3>1
    <3>2. CASE n # next
      <4>1. n < next /\ n \in 1 .. Len(log)
        BY <1>1, <1>2, <1>3, <3>2
      <4> QED
        BY <2>2, <2>4, <4>1
    <3> QED
      BY <3>1, <3>2
  <2>8. next' \in 1 .. Len(log') + 1 /\ (next' - 1) = next
    BY <1>1, <1>2, <1>3
  <2>9. refused' = FALSE /\ enc' \in GoodStates /\ enc' = T[next' - 1]
    BY <1>1, <2>1, <2>8 DEF Follows, SenderFollows
  <2> QED
    BY <2>5, <2>6, <2>7, <2>8, <2>9 DEF SenderFollows
<1>5. ReceiverFollows(T)'
  <2>1. /\ dec = S[got] /\ snap.st = S[snap.num] /\ snap.num \in DOMAIN saved
        /\ got \in snap.num .. next - 1 /\ gap \in BOOLEAN
        /\ handed \in Seq({Received(m) : m \in Acceptable})
        /\ got <= Len(handed) /\ Len(handed) <= Len(log)
        /\ \A n \in 1 .. Len(handed) : handed[n] = Received(log[n])
    BY DEF Follows, ReceiverFollows
  <2>2. T[got] = S[got] /\ T[snap.num] = S[snap.num]
    <3>1. got \in 0 .. Len(log) /\ snap.num \in 0 .. Len(log)
      BY <1>2
    <3>2. \A n \in 0 .. Len(log) : T[n] = S[n]
      BY DEF Extends
    <3> QED
      BY <3>1, <3>2
  <2>3. \A n \in 1 .. Len(handed) : log'[n] = log[n]
    BY <1>2 DEF Extends
  <2>4. snap'.num \in DOMAIN saved'
    BY <1>1, <2>1
  <2>5. got' \in snap'.num .. next' - 1 /\ Len(handed') <= Len(log')
    BY <1>1, <1>2, <1>3
  <2> QED
    BY <1>1, <2>1, <2>2, <2>3, <2>4, <2>5 DEF ReceiverFollows
<1>6. link' \in Seq(InTransit(T)')
  <2>1. InTransit(S) \subseteq InTransit(T)'
    <3>1. epoch' = epoch /\ next' \in Nat /\ next <= next'
      BY <1>1, <1>2
    <3> QED
      BY <1>3, <3>1, StaysInTransit
  <2>2. link \in Seq(InTransit(T)')
    BY <2>1, SeqMonotonic DEF Follows
  <2> DEFINE f == [num |-> next, epoch |-> epoch, frame |-> e.frame]
  <2>3. f \in InTransit(T)'
    <3>1. PICK n \in Nat, d \in Nat : n = next /\ d = epoch
      BY <1>2
    <3>2. f = FrameOf(T, n, d)' /\ f.num = n
      BY <3>1 DEF FrameOf
    <3>3. n \in 1 .. Len(log') /\ d \in 0 .. epoch' /\ n < next'
      BY <1>1, <1>2, <3>1
    <3> HIDE DEF f
    <3>4. f \in {FrameOf(T, k, c)' : k \in 1 .. Len(log'), c \in 0 .. epoch'}
      BY <3>2, <3>3
    <3> QED
      BY <3>2, <3>3, <3>4 DEF InTransit
  <2> HIDE DEF f
  <2>4. link' = Append(link, f)
    BY <1>1 DEF f
  <2> QED
    BY <2>2, <2>3, <2>4, AppendProperties
<1> QED
  BY <1>4, <1>5, <1>6 DEF Follows

\* Send and Replay encode in the state the history has before the message.
LEMMA BeforeNext ==
    ASSUME NEW S, Follows(S), NoVainRecovery, ~refused
    PROVE  enc = S[next - 1] /\ enc \in GoodStates
  BY DEF Follows, SenderFollows

\* A new message, whether its frame fits the buffer or not.
LEMMA SendKeeps ==
    ASSUME NEW S, Follows(S), NoVainRecovery,
           NEW m \in Messages, NEW capacity \in Capacities, Send(m, capacity)
    PROVE  \E T : Follows(T)'
<1>1. next = Len(log) + 1 /\ ~refused /\ m \in Acceptable
  BY DEF Send, CanEncode, Acceptable
<1> DEFINE p == Prepared(enc, next)
           o == EncodeMulti(p, m, capacity)
<1>2. \/ Encoded(o) /\ log' = Append(log, m)
      \/ Refused(o)
  <2>1. PICK e \in {EncodeMulti(st, m, capacity) : st \in {p}} :
            \/ Encoded(e) /\ log' = Append(log, m)
            \/ Refused(e)
    BY DEF Send
  <2>2. e = o
    <3> HIDE DEF p
    <3> QED
      BY <2>1
  <2> HIDE DEF o
  <2> QED
    BY <2>1, <2>2
<1>3. enc = S[next - 1] /\ enc \in GoodStates
  BY <1>1, BeforeNext
<1>4. /\ o.st \in GoodStates /\ Moved(p, m) \in GoodStates
      /\ ~o.error => o.st = Moved(p, m)
      /\ o.frame = EncodedFrame(p, m)
  BY <1>1, <1>3, EncodeOutcome
<1>5. Len(log) \in Nat
  BY Numbers
<1>6. log \in Seq(Acceptable) /\ History(S)
  BY DEF Follows, SenderFollows
<1>7. CASE Encoded(o) /\ log' = Append(log, m)
  <2> DEFINE last == Moved(p, m)
  <2>0. PICK T : T = [n \in 0 .. next |-> IF n = next THEN last ELSE S[n]]
    OBVIOUS
  <2>1. /\ log' \in Seq(Acceptable) /\ Len(log') = next /\ log'[next] = m
        /\ \A n \in 1 .. Len(log) : log'[n] = log[n]
    BY <1>1, <1>5, <1>6, <1>7, AppendProperties
  <2>2. /\ last \in GoodStates /\ S \in [0 .. Len(log) -> GoodStates] /\ S[0] = InitMulti
        /\ \A n \in 1 .. Len(log) : S[n] = Moved(Prepared(S[n - 1], n), log[n])
    BY <1>4, <1>6 DEF History
  <2>3. last = Moved(Prepared(S[next - 1], next), m)
    BY <1>3
  <2> HIDE DEF last
  <2>4. /\ T \in [0 .. Len(log') -> GoodStates] /\ T[next] = last
        /\ \A n \in 0 .. Len(log) : T[n] = S[n]
    BY <1>1, <1>5, <2>0, <2>1, <2>2
  <2>5. T[0] = InitMulti /\ T[next - 1] = S[next - 1]
    BY <1>1, <1>5, <2>2, <2>4
  <2>6. \A n \in 1 .. Len(log') : T[n] = Moved(Prepared(T[n - 1], n), log'[n])
    <3> SUFFICES ASSUME NEW n \in 1 .. Len(log')
                 PROVE  T[n] = Moved(Prepared(T[n - 1], n), log'[n])
      OBVIOUS
    <3>1. CASE n = next
      BY <2>1, <2>3, <2>4, <2>5, <3>1
    <3>2. CASE n # next
      <4>1. n \in 1 .. Len(log) /\ n \in 0 .. Len(log) /\ n - 1 \in 0 .. Len(log)
        BY <1>1, <1>5, <2>1, <3>2
      <4> QED
        BY <2>1, <2>2, <2>4, <4>1
    <3> QED
      BY <3>1, <3>2
  <2>7. History(T)' /\ Extends(S, T)
    BY <1>1, <1>5, <2>1, <2>4, <2>5, <2>6 DEF History, Extends
  <2>8. ~o.error /\ o.st = T[next] /\ o.frame = EncodedFrame(Prepared(T[next - 1], next), log'[next])
    <3>1. ~o.error
      BY <1>7 DEF Encoded
    <3> HIDE DEF o
    <3> QED
      BY <1>3, <1>4, <2>1, <2>4, <2>5, <3>1 DEF last
  <2>9. next \in 1 .. Len(log')
    BY <1>1, <1>5, <2>1
  <2> HIDE DEF o, p
  <2> QED
    BY <1>1, <1>7, <2>1, <2>7, <2>8, <2>9, EncodedKeeps
<1>8. CASE Refused(o)
  <2>1. /\ enc' \in GoodStates /\ refused' = TRUE /\ log' = log /\ next' = next /\ saved' = saved
        /\ link' = link /\ epoch' = epoch
        /\ dec' = dec /\ got' = got /\ snap' = snap /\ gap' = gap /\ handed' = handed
    BY <1>4, <1>8 DEF Refused, receiver
  <2>2. History(S)'
    BY <1>6, <2>1 DEF History
  <2>3. SenderFollows(S)'
    BY <2>1 DEF Follows, SenderFollows
  <2>4. ReceiverFollows(S)'
    BY <2>1 DEF Follows, ReceiverFollows
  <2>5. InTransit(S)' = InTransit(S)
    BY <2>1 DEF InTransit, FrameOf
  <2>6. link' \in Seq(InTransit(S)')
    BY <2>1, <2>5 DEF Follows
  <2> QED
    BY <2>2, <2>3, <2>4, <2>6 DEF Follows
<1> QED
  BY <1>2, <1>7, <1>8

\* A message of the log is encoded again in the state it was encoded in.
LEMMA ReplayKeeps ==
    ASSUME NEW S, Follows(S), NoVainRecovery, Replay
    PROVE  Follows(S)'
<1>1. next <= Len(log) /\ ~refused /\ log' = log
  BY DEF Replay, CanEncode
<1>2. Len(log) \in Nat /\ next \in Nat /\ 1 <= next
  BY Numbers
<1>3. log \in Seq(Acceptable) /\ History(S)
  BY DEF Follows, SenderFollows
<1>4. next \in 1 .. Len(log) /\ log[next] \in Acceptable
  BY <1>1, <1>2, <1>3, ElementOfSeq
<1>5. PICK capacity \in Capacities :
          \E e \in {EncodeMulti(st, log[next], capacity) : st \in {Prepared(enc, next)}} :
              Encoded(e)
  BY DEF Replay
<1> DEFINE p == Prepared(enc, next)
           o == EncodeMulti(p, log[next], capacity)
<1>6. Encoded(o)
  <2>1. PICK e \in {EncodeMulti(st, log[next], capacity) : st \in {p}} : Encoded(e)
    BY <1>5
  <2>2. e = o
    <3> HIDE DEF p
    <3> QED
      BY <2>1
  <2> HIDE DEF o
  <2> QED
    BY <2>1, <2>2
<1>7. enc = S[next - 1] /\ enc \in GoodStates
  BY <1>1, BeforeNext
<1>8. /\ ~o.error => o.st = Moved(p, log[next])
      /\ o.frame = EncodedFrame(p, log[next])
  BY <1>4, <1>7, EncodeOutcome
<1>9. ~o.error
  BY <1>6 DEF Encoded
<1>10. S[next] = Moved(Prepared(S[next - 1], next), log[next])
  BY <1>3, <1>4 DEF History
<1>11. o.st = S[next] /\ o.frame = EncodedFrame(Prepared(S[next - 1], next), log'[next])
  BY <1>1, <1>7, <1>8, <1>9, <1>10
<1>12. History(S)' /\ Extends(S, S) /\ Len(log') = Len(log)
  BY <1>1, <1>2, <1>3 DEF History, Extends
<1> HIDE DEF o
<1> QED
  BY <1>1, <1>3, <1>4, <1>6, <1>11, <1>12, EncodedKeeps

\* Decoding the next frame leads to the next state of the history and gives
\* the next message of the log.
LEMMA DecodedIsNext ==
    ASSUME NEW S, Follows(S), NoVainRecovery, NEW f \in InTransit(S), IsNext(f)
    PROVE  /\ DecodeMulti(Prepared(dec, got + 1), f.frame) =
                  [st |-> S[got + 1], msg |-> Received(log[got + 1])]
           /\ got + 1 \in 1 .. Len(log) /\ got + 1 < next
<1>1. f.num = got + 1 /\ f.epoch = epoch
  BY DEF IsNext
<1>2. PICK n : n = got + 1
  OBVIOUS
<1>3. /\ n \in 1 .. Len(log) /\ n < next
      /\ f.frame = EncodedFrame(Prepared(S[n - 1], n), log[n])
  BY <1>1, <1>2, FrameInTransit
<1>4. got \in Nat /\ n - 1 = got
  BY <1>2, Numbers
<1>5. dec = S[n - 1]
  BY <1>4 DEF Follows, ReceiverFollows
<1>6. /\ log \in Seq(Acceptable) /\ S \in [0 .. Len(log) -> GoodStates]
      /\ S[n] = Moved(Prepared(S[n - 1], n), log[n])
  BY <1>3 DEF Follows, SenderFollows, History
<1>7. S[n - 1] \in GoodStates
  <2>1. n - 1 \in 0 .. Len(log)
    BY <1>3, Numbers
  <2> QED
    BY <1>6, <2>1
<1> DEFINE p == Prepared(S[n - 1], n)
<1>8. Good(p)
  BY <1>7, PreparedGood DEF GoodStates
<1>9. log[n] \in Messages /\ Accepted(log[n])
  BY <1>3, <1>6, ElementOfSeq DEF Acceptable
<1> HIDE DEF p
<1>10. DecodeMulti(p, EncodedFrame(p, log[n])) = [st |-> Moved(p, log[n]), msg |-> Received(log[n])]
  BY <1>8, <1>9, DecodeUndoesMulti
<1> QED
  BY <1>2, <1>3, <1>5, <1>6, <1>10 DEF p

\* The receiver moves along the history when it takes the next frame, and
\* stays where it is otherwise.
LEMMA ReceiveKeeps ==
    ASSUME NEW S, Follows(S), NoVainRecovery, Receive
    PROVE  Follows(S)'
<1>1. /\ link # << >> /\ link' = Tail(link)
      /\ log' = log /\ enc' = enc /\ next' = next /\ saved' = saved /\ refused' = refused
      /\ epoch' = epoch
  BY DEF Receive, sender
<1> DEFINE f == Head(link)
<1>2. f \in InTransit(S) /\ link' \in Seq(InTransit(S))
  BY <1>1, HeadTailProperties DEF Follows
<1>3. InTransit(S)' = InTransit(S)
  BY <1>1 DEF InTransit, FrameOf
<1>4. History(S)' /\ SenderFollows(S)'
  BY <1>1 DEF Follows, History, SenderFollows
<1>5. /\ got \in Nat /\ snap.num \in Nat /\ snap.num <= got
      /\ Len(handed) \in Nat /\ got <= Len(handed) /\ Len(handed) <= Len(log)
      /\ Len(log) \in Nat /\ next \in Nat
  BY Numbers
<1>6. /\ dec = S[got] /\ snap.st = S[snap.num] /\ snap.num \in DOMAIN saved
      /\ got \in snap.num .. next - 1 /\ gap \in BOOLEAN
      /\ handed \in Seq({Received(m) : m \in Acceptable})
      /\ \A n \in 1 .. Len(handed) : handed[n] = Received(log[n])
  BY DEF Follows, ReceiverFollows
<1>7. CASE ~gap /\ IsNext(f)
  <2> DEFINE p == Prepared(dec, got + 1)
             o == DecodeMulti(p, f.frame)
  <2>1. /\ o = [st |-> S[got + 1], msg |-> Received(log[got + 1])]
        /\ got + 1 \in 1 .. Len(log) /\ got + 1 < next
    BY <1>2, <1>7, DecodedIsNext
  <2>2. /\ dec' = o.st /\ got' = got + 1 /\ gap' = gap
        /\ handed' = IF got < Len(handed) THEN handed ELSE Append(handed, o.msg)
        /\ snap' = IF (got + 1) % CHECKPOINT = 0 THEN [num |-> got + 1, st |-> o.st] ELSE snap
    <3>1. PICK d \in {DecodeMulti(st, f.frame) : st \in {p}} :
              /\ dec' = d.st /\ got' = got + 1 /\ gap' = gap
              /\ handed' = IF got < Len(handed) THEN handed ELSE Append(handed, d.msg)
              /\ snap' = IF (got + 1) % CHECKPOINT = 0
                         THEN [num |-> got + 1, st |-> Snapshot(d.st)] ELSE snap
      BY <1>7 DEF Receive
    <3>2. d = o
      <4> HIDE DEF p, f
      <4> QED
        BY <3>1
    <3> HIDE DEF o
    <3> QED
      BY <3>1, <3>2 DEF Snapshot
  <2> HIDE DEF o, f
  <2>3. dec' = S[got'] /\ gap' \in BOOLEAN
    BY <1>6, <2>1, <2>2
  <2>4. snap'.st = S[snap'.num] /\ snap'.num \in DOMAIN saved' /\ got' \in snap'.num .. next' - 1
    <3>1. CASE (got + 1) % CHECKPOINT = 0
      <4>1. snap'.num = got + 1 /\ snap'.st = S[got + 1]
        BY <2>1, <2>2, <3>1
      <4>2. got + 1 \in DOMAIN saved
        BY <2>1, <3>1 DEF Follows, SenderFollows
      <4> QED
        BY <1>1, <1>5, <2>1, <2>2, <4>1, <4>2
    <3>2. CASE (got + 1) % CHECKPOINT # 0
      <4>1. snap' = snap
        BY <2>2, <3>2
      <4> QED
        BY <1>1, <1>5, <1>6, <2>1, <2>2, <4>1
    <3> QED
      BY <3>1, <3>2
  <2>5. /\ handed' \in Seq({Received(m) : m \in Acceptable})
        /\ got' <= Len(handed') /\ Len(handed') <= Len(log')
        /\ \A n \in 1 .. Len(handed') : handed'[n] = Received(log'[n])
    <3>1. CASE got < Len(handed)
      <4>1. handed' = handed
        BY <2>2, <3>1
      <4> QED
        BY <1>1, <1>5, <1>6, <2>2, <3>1, <4>1
    <3>2. CASE got = Len(handed)
      <4> DEFINE r == Received(log[got + 1])
      <4>1. handed' = Append(handed, r)
        BY <1>5, <2>1, <2>2, <3>2
      <4>2. log[got + 1] \in Acceptable
        BY <2>1, ElementOfSeq DEF Follows, SenderFollows
      <4>3. r \in {Received(m) : m \in Acceptable}
        BY <4>2
      <4> HIDE DEF r
      <4>4. /\ handed' \in Seq({Received(m) : m \in Acceptable})
            /\ Len(handed') = got + 1 /\ handed'[got + 1] = r
            /\ \A n \in 1 .. got : handed'[n] = handed[n]
        BY <1>5, <1>6, <3>2, <4>1, <4>3, AppendProperties
      <4>5. \A n \in 1 .. got + 1 : handed'[n] = Received(log[n])
        <5> SUFFICES ASSUME NEW n \in 1 .. got + 1 PROVE handed'[n] = Received(log[n])
          OBVIOUS
        <5>1. n \in 1 .. got \/ n = got + 1
          BY <1>5
        <5> QED
          BY <1>6, <3>2, <4>4, <5>1 DEF r
      <4> QED
        BY <1>1, <1>5, <2>1, <2>2, <4>4, <4>5
    <3> QED
      BY <1>5, <3>1, <3>2
  <2>6. ReceiverFollows(S)'
    BY <2>3, <2>4, <2>5 DEF ReceiverFollows
  <2> QED
    BY <1>2, <1>3, <1>4, <2>6 DEF Follows
<1>8. CASE ~(~gap /\ IsNext(f))
  <2>1. /\ gap' = (gap \/ (f.epoch = epoch /\ f.num > got + 1))
        /\ dec' = dec /\ got' = got /\ handed' = handed /\ snap' = snap
    BY <1>8 DEF Receive
  <2>2. gap' \in BOOLEAN
    BY <1>6, <2>1
  <2> HIDE DEF f
  <2>3. ReceiverFollows(S)'
    BY <1>1, <1>5, <1>6, <2>1, <2>2 DEF ReceiverFollows
  <2> QED
    BY <1>2, <1>3, <1>4, <2>3 DEF Follows
<1> QED
  BY <1>7, <1>8

\* Both sides go back to a state of the history.
LEMMA RecoverKeeps ==
    ASSUME NEW S, Follows(S), NoVainRecovery, Recover
    PROVE  Follows(S)'
<1>1. /\ enc' = saved[snap.num] /\ next' = snap.num + 1 /\ refused' = FALSE
      /\ dec' = snap.st /\ got' = snap.num /\ gap' = FALSE /\ epoch' = epoch + 1
      /\ log' = log /\ saved' = saved /\ link' = link /\ snap' = snap /\ handed' = handed
  BY DEF Recover, Restore
<1>2. /\ snap.num \in Nat /\ snap.num <= got /\ got <= Len(handed) /\ Len(handed) <= Len(log)
      /\ got < next /\ next <= Len(log) + 1
      /\ got \in Nat /\ Len(handed) \in Nat /\ Len(log) \in Nat /\ next \in Nat /\ epoch \in Nat
  BY Numbers
<1>3. History(S)' /\ Extends(S, S)
  BY <1>1, <1>2 DEF Follows, History, Extends
<1>4. /\ snap.num \in DOMAIN saved /\ saved[snap.num] = S[snap.num]
      /\ S[snap.num] \in GoodStates
  <2>1. snap.num \in DOMAIN saved /\ saved = [n \in DOMAIN saved |-> S[n]]
    BY DEF Follows, SenderFollows, ReceiverFollows
  <2>2. S \in [0 .. Len(log) -> GoodStates]
    BY DEF Follows, History
  <2> QED
    BY <1>2, <2>1, <2>2
<1>5. SenderFollows(S)'
  <2>1. next' \in 1 .. Len(log') + 1 /\ next' - 1 = snap.num /\ next' <= next
    BY <1>1, <1>2
  <2>2. /\ log \in Seq(Acceptable)
        /\ saved = [n \in DOMAIN saved |-> S[n]]
        /\ 0 \in DOMAIN saved /\ DOMAIN saved \subseteq 0 .. Len(log)
        /\ \A n \in 1 .. Len(log) : n % CHECKPOINT = 0 /\ n < next => n \in DOMAIN saved
    BY DEF Follows, SenderFollows
  <2>3. \A n \in 1 .. Len(log') : n % CHECKPOINT = 0 /\ n < next' => n \in DOMAIN saved'
    <3> SUFFICES ASSUME NEW n \in 1 .. Len(log), n % CHECKPOINT = 0, n < next'
                 PROVE  n \in DOMAIN saved
      BY <1>1
    <3>1. n < next
      BY <1>2, <2>1
    <3> QED
      BY <2>2, <3>1
  <2>4. saved' = [n \in DOMAIN saved' |-> S[n]]
    BY <1>1, <2>2
  <2>5. enc' \in GoodStates /\ enc' = S[next' - 1] /\ refused' \in BOOLEAN
    BY <1>1, <1>4, <2>1
  <2> QED
    BY <1>1, <2>1, <2>2, <2>3, <2>4, <2>5 DEF SenderFollows
<1>6. ReceiverFollows(S)'
  <2>1. got' \in snap'.num .. next' - 1 /\ got' <= Len(handed')
    BY <1>1, <1>2
  <2> QED
    BY <1>1, <2>1 DEF Follows, ReceiverFollows
<1>7. link' \in Seq(InTransit(S)')
  <2>1. InTransit(S) \subseteq InTransit(S)'
    BY <1>1, <1>2, <1>3, StaysInTransit
  <2> QED
    BY <1>1, <2>1, SeqMonotonic DEF Follows
<1> QED
  BY <1>3, <1>5, <1>6, <1>7 DEF Follows

\* The transport changes the order and number of the frames, not the frames.
LEMMA TransportKeeps ==
    ASSUME NEW S, Follows(S), NoVainRecovery,
           NEW i \in 1 .. Len(link), Lose(i) \/ Repeat(i) \/ Exchange(i)
    PROVE  Follows(S)' /\ faults' = faults + 1 /\ epoch' = epoch
<1>1. link \in Seq(InTransit(S)) /\ Len(link) \in Nat
  BY LenProperties DEF Follows
<1>2. \A k \in 1 .. Len(link) : link[k] \in InTransit(S)
  BY <1>1, ElementOfSeq
<1>3. link' \in Seq(InTransit(S))
  <2>1. CASE Lose(i)
    <3> DEFINE q == [k \in 1 .. Len(link) - 1 |-> IF k < i THEN link[k] ELSE link[k + 1]]
    <3>1. link' = q
      BY <2>1 DEF Lose, Faulty
    <3>2. \A k \in 1 .. Len(link) - 1 : q[k] \in InTransit(S)
      BY <1>1, <1>2
    <3>3. Len(link) - 1 \in Nat /\ q = [k \in 1 .. Len(link) - 1 |-> q[k]]
      BY <1>1
    <3> HIDE DEF q
    <3> QED
      BY <3>1, <3>2, <3>3
  <2>2. CASE Repeat(i)
    <3>1. link' = Append(link, link[i])
      BY <2>2 DEF Repeat, Faulty
    <3> QED
      BY <1>1, <1>2, <3>1, AppendProperties
  <2>3. CASE Exchange(i)
    <3>1. i < Len(link) /\ link' = [[link EXCEPT ![i] = link[i + 1]] EXCEPT ![i + 1] = link[i]]
      BY <2>3 DEF Exchange, Faulty
    <3> DEFINE q == [link EXCEPT ![i] = link[i + 1]]
    <3>2. i + 1 \in 1 .. Len(link)
      BY <1>1, <3>1
    <3>3. q \in Seq(InTransit(S)) /\ Len(q) = Len(link)
      BY <1>1, <1>2, <3>2, ExceptSeq
    <3> HIDE DEF q
    <3> QED
      BY <1>2, <3>1, <3>2, <3>3, ExceptSeq DEF q
  <2> QED
    BY <2>1, <2>2, <2>3
<1>4. /\ faults' = faults + 1 /\ epoch' = epoch
      /\ log' = log /\ enc' = enc /\ next' = next /\ saved' = saved /\ refused' = refused
      /\ dec' = dec /\ got' = got /\ snap' = snap /\ gap' = gap /\ handed' = handed
  BY DEF Lose, Repeat, Exchange, Faulty, sender, receiver
<1>5. InTransit(S)' = InTransit(S)
  BY <1>4 DEF InTransit, FrameOf
<1>6. History(S)' /\ SenderFollows(S)' /\ ReceiverFollows(S)'
  BY <1>4 DEF Follows, History, SenderFollows, ReceiverFollows
<1> QED
  BY <1>3, <1>4, <1>5, <1>6 DEF Follows

-----------------------------------------------------------------------------
(* A recovery answers a fault. *)

\* A frame that is appended is the next of this pass.
LEMMA EncodedInOrder ==
    ASSUME NEW S, Follows(S), NoVainRecovery, NEW e, Encoded(e)
    PROVE  NoVainRecovery'
<1>1. /\ next' = next + 1 /\ refused' = refused /\ got' = got /\ gap' = gap
      /\ epoch' = epoch /\ faults' = faults
      /\ link' = Append(link, [num |-> next, epoch |-> epoch, frame |-> e.frame])
  BY DEF Encoded, receiver
<1>2. Len(link) \in Nat /\ next \in Nat /\ got \in Nat
  BY Numbers
<1>3. /\ link \in Seq(InTransit(S))
      /\ faults \in Nat /\ epoch \in 0 .. faults
      /\ epoch = faults => ~gap /\ ~refused /\ \E p \in 0 .. Len(link) : InOrder(p)
  BY DEF Follows, NoVainRecovery
<1> SUFFICES ASSUME epoch = faults PROVE \E p \in 0 .. Len(link') : InOrder(p)'
  BY <1>1, <1>3 DEF NoVainRecovery
<1> DEFINE f == [num |-> next, epoch |-> epoch, frame |-> e.frame]
<1>4. f.num = next /\ f.epoch = epoch
  OBVIOUS
<1> HIDE DEF f
<1>5. /\ Len(link') = Len(link) + 1 /\ link'[Len(link) + 1] = f
      /\ \A k \in 1 .. Len(link) : link'[k] = link[k]
  <2>1. link \in Seq(InTransit(S) \cup {f}) /\ f \in InTransit(S) \cup {f}
    BY <1>3, SeqMonotonic
  <2> QED
    BY <1>1, <2>1, AppendProperties DEF f
<1>6. PICK p \in 0 .. Len(link) : InOrder(p)
  BY <1>3
<1>7. (got + Len(link)) - p = next - 1
  BY <1>6 DEF InOrder
<1>8. ASSUME NEW k \in p + 1 .. Len(link')
      PROVE  link'[k].epoch = epoch' /\ link'[k].num = (got' + k) - p
  <2>1. CASE k \in p + 1 .. Len(link)
    <3>1. link[k].epoch = epoch /\ link[k].num = (got + k) - p
      BY <1>6, <2>1 DEF InOrder
    <3>2. k \in 1 .. Len(link)
      BY <1>2, <1>6, <2>1
    <3> QED
      BY <1>1, <1>5, <3>1, <3>2
  <2>2. CASE k = Len(link) + 1
    BY <1>1, <1>2, <1>4, <1>5, <1>7, <2>2
  <2> QED
    BY <1>2, <1>5, <2>1, <2>2
<1>9. \A k \in 1 .. p : link'[k].epoch < epoch'
  BY <1>1, <1>2, <1>5, <1>6 DEF InOrder
<1>10. p \in 0 .. Len(link') /\ (got' + Len(link')) - p = next' - 1
  BY <1>1, <1>2, <1>5, <1>7
<1> QED
  BY <1>8, <1>9, <1>10 DEF InOrder

\* Without a fault since the last recovery the first frame in transit is of
\* an earlier pass, or the next one.
LEMMA ReceiveInOrder ==
    ASSUME NEW S, Follows(S), NoVainRecovery, Receive
    PROVE  NoVainRecovery'
<1>1. /\ link # << >> /\ link' = Tail(link) /\ next' = next /\ refused' = refused
      /\ epoch' = epoch /\ faults' = faults
  BY DEF Receive, sender
<1>2. Len(link) \in Nat /\ next \in Nat /\ got \in Nat /\ epoch \in Nat
  BY Numbers
<1>3. /\ link \in Seq(InTransit(S))
      /\ faults \in Nat /\ epoch \in 0 .. faults
      /\ epoch = faults => ~gap /\ ~refused /\ \E p \in 0 .. Len(link) : InOrder(p)
  BY DEF Follows, NoVainRecovery
<1> SUFFICES ASSUME epoch = faults
             PROVE  ~gap' /\ ~refused' /\ \E p \in 0 .. Len(link') : InOrder(p)'
  BY <1>1, <1>3 DEF NoVainRecovery
<1>4. /\ Len(link) > 0 /\ Len(link') = Len(link) - 1 /\ Head(link) = link[1]
      /\ \A k \in 1 .. Len(link') : link'[k] = link[k + 1]
  BY <1>1, <1>2, <1>3, HeadTailProperties, EmptySeq
<1>5. PICK p \in 0 .. Len(link) : InOrder(p)
  BY <1>3
<1>6. /\ \A k \in 1 .. p : link[k].epoch < epoch
      /\ \A k \in p + 1 .. Len(link) : link[k].epoch = epoch /\ link[k].num = (got + k) - p
      /\ (got + Len(link)) - p = next - 1
  BY <1>5 DEF InOrder
<1> DEFINE f == Head(link)
<1>7. CASE p = 0
  <2>1. f.epoch = epoch /\ f.num = got + 1
    BY <1>2, <1>4, <1>6, <1>7
  <2>2. got' = got + 1 /\ gap' = gap
    BY <1>3, <2>1 DEF Receive, IsNext
  <2>3. \A k \in 1 .. Len(link') : link'[k].epoch = epoch' /\ link'[k].num = got' + k
    <3> SUFFICES ASSUME NEW k \in 1 .. Len(link')
                 PROVE  link'[k].epoch = epoch' /\ link'[k].num = got' + k
      OBVIOUS
    <3>1. k + 1 \in p + 1 .. Len(link) /\ link'[k] = link[k + 1]
      BY <1>2, <1>4, <1>7
    <3>2. (got + (k + 1)) - p = got' + k
      BY <1>2, <1>7, <2>2, <3>1
    <3> QED
      BY <1>1, <1>6, <3>1, <3>2
  <2>4. got' + Len(link') = next' - 1
    BY <1>1, <1>2, <1>4, <1>6, <1>7, <2>2
  <2>5. InOrder(0)'
    BY <1>2, <1>4, <2>2, <2>3, <2>4 DEF InOrder
  <2> QED
    BY <1>1, <1>2, <1>3, <1>4, <2>2, <2>5
<1>8. CASE p > 0
  <2>1. f.epoch < epoch
    BY <1>2, <1>4, <1>6, <1>8
  <2>2. f.epoch # epoch
    <3>1. f.epoch \in Int
      BY <1>1, <1>3, HeadTailProperties, FrameInTransit
    <3> QED
      BY <1>2, <2>1, <3>1
  <2>3. got' = got /\ ~gap'
    BY <1>3, <2>2 DEF Receive, IsNext
  <2>4. PICK q \in 0 .. Len(link') : q = p - 1
    BY <1>2, <1>4, <1>8
  <2>5. \A k \in 1 .. q : link'[k].epoch < epoch'
    <3> SUFFICES ASSUME NEW k \in 1 .. q PROVE link'[k].epoch < epoch'
      OBVIOUS
    <3>1. k + 1 \in 1 .. p /\ link'[k] = link[k + 1]
      BY <1>2, <1>4, <2>4
    <3> QED
      BY <1>1, <1>6, <3>1
  <2>6. \A k \in q + 1 .. Len(link') : link'[k].epoch = epoch' /\ link'[k].num = (got' + k) - q
    <3> SUFFICES ASSUME NEW k \in q + 1 .. Len(link')
                 PROVE  link'[k].epoch = epoch' /\ link'[k].num = (got' + k) - q
      OBVIOUS
    <3>1. k + 1 \in p + 1 .. Len(link) /\ link'[k] = link[k + 1]
      BY <1>2, <1>4, <2>4
    <3>2. (got + (k + 1)) - p = (got' + k) - q
      BY <1>2, <2>3, <2>4, <3>1
    <3> QED
      BY <1>1, <1>6, <3>1, <3>2
  <2>7. (got' + Len(link')) - q = next' - 1
    BY <1>1, <1>2, <1>4, <1>6, <2>3, <2>4
  <2>8. InOrder(q)'
    BY <2>5, <2>6, <2>7 DEF InOrder
  <2> QED
    BY <1>1, <1>3, <2>3, <2>8
<1> QED
  BY <1>7, <1>8

\* Without a fault since the last recovery there is nothing to recover from.
LEMMA RecoverInOrder ==
    ASSUME NEW S, Follows(S), NoVainRecovery, Recover
    PROVE  NoVainRecovery'
<1>1. /\ MissesSomething \/ refused
      /\ next' = snap.num + 1 /\ refused' = FALSE /\ got' = snap.num /\ gap' = FALSE
      /\ epoch' = epoch + 1 /\ link' = link /\ faults' = faults
  BY DEF Recover
<1>2. /\ Len(link) \in Nat /\ next \in Nat /\ got \in Nat /\ epoch \in Nat /\ faults \in Nat
      /\ snap.num \in Nat /\ epoch <= faults
  BY Numbers
<1>3. epoch # faults
  <2> SUFFICES ASSUME epoch = faults PROVE FALSE
    OBVIOUS
  <2>1. ~gap /\ ~refused /\ \E p \in 0 .. Len(link) : InOrder(p)
    BY DEF NoVainRecovery
  <2>2. link = << >> /\ got + 1 < next
    BY <1>1, <2>1 DEF MissesSomething
  <2>3. Len(link) = 0
    BY <2>2, EmptySeq
  <2>4. PICK p \in 0 .. Len(link) : (got + Len(link)) - p = next - 1
    BY <2>1 DEF InOrder
  <2> QED
    BY <1>2, <2>2, <2>3, <2>4
<1>4. epoch' \in 0 .. faults'
  BY <1>1, <1>2, <1>3
<1>5. InOrder(Len(link))'
  <2>1. PICK p \in 0 .. Len(link) : p = Len(link)
    BY <1>2
  <2>2. \A k \in 1 .. p : link'[k].epoch < epoch'
    <3> SUFFICES ASSUME NEW k \in 1 .. p PROVE link'[k].epoch < epoch'
      OBVIOUS
    <3>1. link[k] \in InTransit(S)
      BY <2>1, ElementOfSeq DEF Follows
    <3>2. link[k].epoch \in 0 .. epoch
      BY <3>1, FrameInTransit
    <3> QED
      BY <1>1, <1>2, <3>2
  <2>3. (got' + Len(link')) - p = next' - 1
    BY <1>1, <1>2, <2>1
  <2>4. p + 1 .. Len(link') = {} /\ p \in 0 .. Len(link')
    BY <1>1, <1>2, <2>1
  <2>5. InOrder(p)'
    BY <2>2, <2>3, <2>4 DEF InOrder
  <2> QED
    BY <1>1, <2>1, <2>5
<1>6. \E p \in 0 .. Len(link') : InOrder(p)'
  BY <1>1, <1>2, <1>5
<1> QED
  BY <1>1, <1>2, <1>4, <1>6 DEF NoVainRecovery

-----------------------------------------------------------------------------
(* Every step keeps the invariant. *)

\* A new stream has the history of no message.
LEMMA InitFollows == Init => IInv
<1> SUFFICES ASSUME Init PROVE IInv
  OBVIOUS
<1>1. /\ log = << >> /\ enc = InitMulti /\ next = 1 /\ saved = [n \in {0} |-> InitMulti]
      /\ refused = FALSE /\ link = << >> /\ dec = InitMulti /\ got = 0
      /\ snap = [num |-> 0, st |-> InitMulti] /\ gap = FALSE /\ handed = << >>
      /\ epoch = 0 /\ faults = 0
  BY DEF Init
<1>2. InitMulti \in GoodStates
  BY InitMultiGood DEF GoodStates, Good
<1> DEFINE S == [n \in {0} |-> InitMulti]
<1>3. /\ Len(log) = 0 /\ Len(link) = 0 /\ Len(handed) = 0
      /\ log \in Seq(Acceptable) /\ link \in Seq(InTransit(S))
      /\ handed \in Seq({Received(m) : m \in Acceptable})
  BY <1>1, EmptySeq
<1>4. 0 .. 0 = {0} /\ 1 .. 0 = {}
  OBVIOUS
<1>5. S \in [0 .. 0 -> GoodStates] /\ S[0] = InitMulti /\ DOMAIN saved = {0} /\ saved = S
  BY <1>1, <1>2, <1>4
<1>6. snap.num = 0 /\ snap.st = InitMulti
  BY <1>1
<1> HIDE DEF S
<1>7. History(S)
  BY <1>3, <1>4, <1>5 DEF History
<1>8. SenderFollows(S)
  <2>1. saved = [n \in DOMAIN saved |-> S[n]]
    BY <1>5 DEF S
  <2>2. next \in 1 .. Len(log) + 1 /\ next - 1 = 0 /\ DOMAIN saved \subseteq 0 .. Len(log)
    BY <1>1, <1>3, <1>5
  <2> QED
    BY <1>1, <1>2, <1>3, <1>4, <1>5, <2>1, <2>2 DEF SenderFollows
<1>9. ReceiverFollows(S)
  <2>1. got \in snap.num .. next - 1
    BY <1>1, <1>6
  <2> QED
    BY <1>1, <1>3, <1>4, <1>5, <1>6, <2>1 DEF ReceiverFollows
<1>10. NoVainRecovery
  <2>1. InOrder(0)
    BY <1>1, <1>3 DEF InOrder
  <2> QED
    BY <1>1, <1>3, <2>1 DEF NoVainRecovery
<1> QED
  BY <1>3, <1>7, <1>8, <1>9, <1>10 DEF IInv, Follows

\* One fault more, and no recovery yet.
LEMMA FaultAllowed ==
    ASSUME NoVainRecovery, faults' = faults + 1, epoch' = epoch
    PROVE  NoVainRecovery'
<1>1. faults \in Nat /\ epoch \in 0 .. faults
  BY DEF NoVainRecovery
<1>2. faults' \in Nat /\ epoch' \in 0 .. faults' /\ epoch' # faults'
  BY <1>1
<1> QED
  BY <1>2 DEF NoVainRecovery

\* Every step keeps the invariant.
LEMMA StepFollows == IInv /\ [Next]_vars => IInv'
<1> SUFFICES ASSUME IInv, [Next]_vars PROVE IInv'
  OBVIOUS
<1>1. PICK S : Follows(S)
  BY DEF IInv
<1>2. NoVainRecovery
  BY DEF IInv
<1>3. ASSUME NEW m \in Messages, NEW capacity \in Capacities, Send(m, capacity) PROVE IInv'
  <2>1. \E T : Follows(T)'
    BY <1>1, <1>2, <1>3, SendKeeps
  <2>2. (\E e : Encoded(e)) \/ (faults' = faults + 1 /\ epoch' = epoch)
    BY <1>3 DEF Send, Refused
  <2>3. NoVainRecovery'
    BY <1>1, <1>2, <2>2, EncodedInOrder, FaultAllowed
  <2> QED
    BY <2>1, <2>3 DEF IInv
<1>4. ASSUME Replay PROVE IInv'
  <2>1. \E e : Encoded(e)
    BY <1>4 DEF Replay
  <2> QED
    BY <1>1, <1>2, <1>4, <2>1, ReplayKeeps, EncodedInOrder DEF IInv
<1>5. ASSUME Receive PROVE IInv'
  BY <1>1, <1>2, <1>5, ReceiveKeeps, ReceiveInOrder DEF IInv
<1>6. ASSUME Recover PROVE IInv'
  BY <1>1, <1>2, <1>6, RecoverKeeps, RecoverInOrder DEF IInv
<1>7. ASSUME NEW i \in 1 .. Len(link), Lose(i) \/ Repeat(i) \/ Exchange(i) PROVE IInv'
  BY <1>1, <1>2, <1>7, TransportKeeps, FaultAllowed DEF IInv
<1>8. ASSUME UNCHANGED vars PROVE IInv'
  <2>1. /\ log' = log /\ enc' = enc /\ next' = next /\ saved' = saved /\ refused' = refused
        /\ dec' = dec /\ got' = got /\ snap' = snap /\ gap' = gap /\ handed' = handed
        /\ link' = link /\ epoch' = epoch /\ faults' = faults
    BY <1>8 DEF vars, sender, receiver
  <2>2. Follows(S)'
    BY <1>1, <2>1 DEF Follows, History, SenderFollows, ReceiverFollows, InTransit, FrameOf
  <2>3. NoVainRecovery'
    BY <1>2, <2>1 DEF NoVainRecovery, InOrder
  <2> QED
    BY <2>2, <2>3 DEF IInv
<1> QED
  BY <1>3, <1>4, <1>5, <1>6, <1>7, <1>8 DEF Next

\* In every state some history is followed, and no recovery was in vain.
LEMMA AlwaysFollows == Spec => []IInv
  BY InitFollows, StepFollows, PTL DEF Spec

\* States and numbers are of their types, whatever the transport loses,
\* repeats and exchanges and however often both sides go back; and there are
\* no more recoveries than faults.
THEOREM SessionTyped == Spec => []TypeOK
<1>1. IInv => TypeOK
  <2> SUFFICES ASSUME NEW S, Follows(S), NoVainRecovery PROVE TypeOK
    BY DEF IInv
  <2>1. /\ enc \in GoodStates /\ dec = S[got] /\ snap.st = S[snap.num]
        /\ S \in [0 .. Len(log) -> GoodStates]
        /\ next \in 1 .. Len(log) + 1 /\ got \in snap.num .. next - 1
        /\ snap.num \in DOMAIN saved /\ Len(handed) <= Len(log)
    BY DEF Follows, History, SenderFollows, ReceiverFollows
  <2>2. got \in 0 .. Len(log) /\ snap.num \in 0 .. Len(log)
    BY Numbers
  <2>3. enc \in MultiState /\ dec \in MultiState /\ snap.st \in MultiState
    BY <2>1, <2>2 DEF GoodStates
  <2> QED
    BY <2>1, <2>3 DEF TypeOK, NoVainRecovery
<1> QED
  BY <1>1, AlwaysFollows, PTL

\* When all there is has been decoded both codecs are in the same state, after
\* any number of gaps, failed encodes and recoveries; and at any time the
\* receiver's snapshot is the sender's of the same message.
THEOREM StatesAgree == Spec => []InStep
<1>1. IInv => InStep
  <2> SUFFICES ASSUME NEW S, Follows(S) PROVE InStep
    BY DEF IInv
  <2>1. /\ ~refused => enc = S[next - 1]
        /\ saved = [n \in DOMAIN saved |-> S[n]] /\ snap.num \in DOMAIN saved
        /\ dec = S[got] /\ snap.st = S[snap.num]
    BY DEF Follows, SenderFollows, ReceiverFollows
  <2>2. saved[snap.num] = snap.st
    BY <2>1
  <2> QED
    BY <2>1, <2>2 DEF InStep
<1> QED
  BY <1>1, AlwaysFollows, PTL

\* Every step is one of the abstract queue, or a stutter.
LEMMA StepImplemented ==
    ASSUME NEW S, Follows(S), NoVainRecovery, [Next]_vars
    PROVE  [Fifo!Next]_(Fifo!vars)
<1>1. CASE log' = log /\ handed' = handed
  BY <1>1 DEF Fifo!vars
<1>2. ASSUME NEW m \in Messages, NEW capacity \in Capacities, Send(m, capacity)
      PROVE  [Fifo!Next]_(Fifo!vars)
  <2>1. \/ log' = Append(log, m) /\ handed' = handed
        \/ log' = log /\ handed' = handed
    BY <1>2 DEF Send, Encoded, Refused, receiver
  <2> QED
    BY <1>1, <2>1 DEF Fifo!Next, Fifo!Send
<1>3. ASSUME Receive PROVE [Fifo!Next]_(Fifo!vars)
  <2>1. log' = log /\ link # << >>
    BY <1>3 DEF Receive, sender
  <2> DEFINE f == Head(link)
  <2>2. f \in InTransit(S)
    BY <2>1, HeadTailProperties DEF Follows
  <2>3. CASE ~gap /\ IsNext(f)
    <3>1. /\ DecodeMulti(Prepared(dec, got + 1), f.frame) =
                    [st |-> S[got + 1], msg |-> Received(log[got + 1])]
          /\ got + 1 \in 1 .. Len(log)
      BY <2>2, <2>3, DecodedIsNext
    <3> DEFINE p == Prepared(dec, got + 1)
               o == DecodeMulti(p, f.frame)
    <3>2. PICK d \in {DecodeMulti(st, f.frame) : st \in {p}} :
              handed' = IF got < Len(handed) THEN handed ELSE Append(handed, d.msg)
      BY <1>3, <2>3 DEF Receive
    <3>3. d = o
      <4> HIDE DEF p, f
      <4> QED
        BY <3>2
    <3>4. o.msg = Received(log[got + 1])
      BY <3>1
    <3> HIDE DEF o, f
    <3>5. handed' = IF got < Len(handed) THEN handed
                    ELSE Append(handed, Received(log[got + 1]))
      BY <3>2, <3>3, <3>4
    <3>6. got \in Nat /\ Len(handed) \in Nat /\ got <= Len(handed)
      BY Numbers
    <3>7. CASE got < Len(handed)
      BY <1>1, <2>1, <3>5, <3>7
    <3>8. CASE got = Len(handed)
      <4>1. /\ handed' = Append(handed, Received(log[Len(handed) + 1]))
            /\ Len(handed) < Len(log)
        BY <3>1, <3>5, <3>6, <3>8, Numbers
      <4> QED
        BY <2>1, <4>1 DEF Fifo!Next, Fifo!Receive
    <3> QED
      BY <3>6, <3>7, <3>8
  <2>4. CASE ~(~gap /\ IsNext(f))
    <3>1. handed' = handed
      BY <1>3, <2>4 DEF Receive
    <3> QED
      BY <1>1, <2>1, <3>1
  <2> QED
    BY <2>3, <2>4
<1>4. ASSUME Replay PROVE log' = log /\ handed' = handed
  BY <1>4 DEF Replay, Encoded, receiver
<1>5. ASSUME Recover PROVE log' = log /\ handed' = handed
  BY <1>5 DEF Recover
<1>6. ASSUME NEW i \in 1 .. Len(link), Lose(i) \/ Repeat(i) \/ Exchange(i)
      PROVE  log' = log /\ handed' = handed
  BY <1>6 DEF Lose, Repeat, Exchange, Faulty, sender, receiver
<1>7. ASSUME UNCHANGED vars PROVE log' = log /\ handed' = handed
  BY <1>7 DEF vars, sender, receiver
<1> QED
  BY <1>1, <1>2, <1>3, <1>4, <1>5, <1>6, <1>7 DEF Next

\* A stream of several types that recovers from lost, repeated and exchanged
\* frames and failed encodes implements the message queue MessageFifo: each
\* message reaches the other application once, unchanged, as its own type and
\* in order.  This is the safety part of ImplementsFifo, step by step.
THEOREM SessionIsFifo == Spec => Fifo!Init /\ [][Fifo!Next]_(Fifo!vars)
<1>1. Init => Fifo!Init
  BY DEF Init, Fifo!Init
<1>2. IInv /\ [Next]_vars => [Fifo!Next]_(Fifo!vars)
  BY StepImplemented DEF IInv
<1> QED
  BY <1>1, <1>2, AlwaysFollows, PTL DEF Spec
=============================================================================
